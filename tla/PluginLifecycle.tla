--------------------------- MODULE PluginLifecycle ---------------------------
(***************************************************************************)
(* What the reconciler promises about a plugin, without ticks, snapshots,  *)
(* child processes or disks: a row is wanted, then active; it becomes      *)
(* active only while the plugin is installed, and only a change of what is *)
(* wanted takes it back.  A client may claim that a row is active, which   *)
(* says nothing of the plugin.                                             *)
(***************************************************************************)
CONSTANT Plugin

VARIABLES
    state,       \* state[s]: "none" (no row), "wanted" (NEW), "active" or
                 \* "claimed" (active by the word of a client)
    present      \* plugins that are installed

lifecycleVars == <<state, present>>

Init ==
    /\ state = [s \in Plugin |-> "none"]
    /\ present = {}

Becomes(s, to) == state' = [state EXCEPT ![s] = to] /\ UNCHANGED present

(* A new row, or one whose package or version changed. *)
Want(s) == state[s] # "wanted" /\ Becomes(s, "wanted")

Drop(s) == state[s] # "none" /\ Becomes(s, "none")

Activate(s) ==
    /\ state[s] = "wanted"
    /\ s \in present
    /\ Becomes(s, "active")

Claim(s) == state[s] \in {"none", "wanted"} /\ Becomes(s, "claimed")

(* A claim that came while the row was being marked. *)
Confirm(s) ==
    /\ state[s] = "claimed"
    /\ s \in present
    /\ Becomes(s, "active")

(* The row of a plugin under installation may be dropped meanwhile. *)
Install(s) ==
    /\ s \notin present
    /\ present' = present \cup {s}
    /\ UNCHANGED state

(* An upgrade that fails halfway may lose the release it replaces. *)
Remove(s) ==
    /\ s \in present
    /\ present' = present \ {s}
    /\ UNCHANGED state

(* The root disk is replaced. *)
LoseAll == present' = {} /\ UNCHANGED state

Next ==
    \/ \E s \in Plugin : \/ Want(s) \/ Drop(s) \/ Activate(s) \/ Claim(s) \/ Confirm(s)
                         \/ Install(s) \/ Remove(s)
    \/ LoseAll

Spec == Init /\ [][Next]_lifecycleVars

(* What stays wanted is installed and activated; what stays active, or is  *)
(* claimed to be, is installed when it is missing.                         *)
FairSpec ==
    /\ Spec
    /\ \A s \in Plugin :
          /\ WF_lifecycleVars(state[s] # "none" /\ Install(s))
          /\ WF_lifecycleVars(Activate(s))
=============================================================================
