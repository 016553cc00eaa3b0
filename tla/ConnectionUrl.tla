---------------------------- MODULE ConnectionUrl ----------------------------
(***************************************************************************)
(* The password in the connection URL of exordos_metapaas.conf: how        *)
(* render-config writes it, and how render-config and the boot script, in  *)
(* two ways, read it back.  A text is a sequence of characters; "%" stands *)
(* for a percent sign that is not doubled.  NoText is what is not found.   *)
(***************************************************************************)
EXTENDS Sequences, SequencesExt

NoText == << >>

Before(text, stops) ==
    LET first == SelectInSeq(text, LAMBDA c : c \in stops)
    IN  IF first = 0 THEN text ELSE SubSeq(text, 1, first - 1)

After(text, mark) ==
    LET first == SelectInSeq(text, LAMBDA c : c = mark)
    IN  IF first = 0 THEN NoText ELSE SubSeq(text, first + 1, Len(text))

(* Without the scheme, and a letter for the user, the host and the rest.   *)
ConnectionUrlOf(password) == <<"u", ":">> \o password \o <<"@", "h", "/", "d">>

(* ConfigParser.get: interpolation refuses the value.                      *)
Refused(url) == Contains(url, "%")

(* _recover_pg_password: split at the first "@", then at the first ":".    *)
RecoverPgPassword(url) == IF Refused(url) THEN NoText ELSE After(Before(url, {"@"}), ":")

(* urlsplit(url).password: in the network location, what is between the    *)
(* first ":" and the last "@"; nothing when it has no "@".                 *)
UrlsplitPassword(url) ==
    LET netloc == Before(url, {"/", "?", "#"})
        host == Before(Reverse(netloc), {"@"})
        userinfo == SubSeq(netloc, 1, Len(netloc) - Len(host) - 1)
    IN  IF Refused(url) \/ ~Contains(netloc, "@") THEN NoText ELSE After(userinfo, ":")
=============================================================================
