------------------------- MODULE ConnectionUrlProofs -------------------------
(***************************************************************************)
(* Which passwords survive the connection URL.  The two readers disagree:  *)
(* each loses its own set of characters, and Bootstrap takes what they     *)
(* return as constants.                                                    *)
(***************************************************************************)
EXTENDS ConnectionUrl, SequenceTheorems, WellFoundedInduction, TLAPS

(* Before stops at the first of the marks.                                 *)
LEMMA BeforeFirst ==
    ASSUME NEW Char, NEW text \in Seq(Char), NEW stops, NEW k \in 1..Len(text),
           text[k] \in stops, \A i \in 1..(k - 1) : text[i] \notin stops
    PROVE  Before(text, stops) = SubSeq(text, 1, k - 1)
<1> DEFINE I == {i \in 1..Len(text) : text[i] \in stops}
<1>1. k \in I /\ \A y \in I : k <= y
  OBVIOUS
<1>2. Min(I) = k
  BY <1>1 DEF Min
<1>3. I # {} /\ k # 0
  BY <1>1
<1> HIDE DEF I
<1> QED BY <1>2, <1>3 DEF Before, SelectInSeq, I

(* After starts behind the first mark.                                     *)
LEMMA AfterFirst ==
    ASSUME NEW Char, NEW text \in Seq(Char), NEW mark, NEW k \in 1..Len(text),
           text[k] = mark, \A i \in 1..(k - 1) : text[i] # mark
    PROVE  After(text, mark) = SubSeq(text, k + 1, Len(text))
<1> DEFINE I == {i \in 1..Len(text) : text[i] = mark}
<1>1. k \in I /\ \A y \in I : k <= y
  OBVIOUS
<1>2. Min(I) = k
  BY <1>1 DEF Min
<1>3. I # {} /\ k # 0
  BY <1>1
<1> HIDE DEF I
<1> QED BY <1>2, <1>3 DEF After, SelectInSeq, I

(* Every text that has a mark has a first one.                             *)
LEMMA FirstMark ==
    ASSUME NEW Char, NEW text \in Seq(Char), NEW stops,
           \E i \in 1..Len(text) : text[i] \in stops
    PROVE  \E k \in 1..Len(text) : /\ text[k] \in stops
                                   /\ \A i \in 1..(k - 1) : text[i] \notin stops
<1> DEFINE I == {i \in 1..Len(text) : text[i] \in stops}
<1>1. I \subseteq Nat /\ I # {}
  OBVIOUS
<1>2. PICK k \in I : \A y \in I : <<y, k>> \notin OpToRel(<, Nat)
  <2> HIDE DEF I
  <2> QED BY <1>1, NatLessThanWellFounded, WFMin
<1>3. \A y \in I : ~(y < k)
  BY <1>1, <1>2 DEF OpToRel
<1>4. \A i \in 1..(k - 1) : text[i] \notin stops
  BY <1>3
<1> QED BY <1>4

(* What stands where in a text followed by another.                        *)
LEMMA Joined ==
    ASSUME NEW Char, NEW s \in Seq(Char), NEW t \in Seq(Char)
    PROVE  /\ s \o t \in Seq(Char)
           /\ Len(s \o t) = Len(s) + Len(t)
           /\ \A i \in 1..Len(s) : (s \o t)[i] = s[i]
  BY ConcatProperties, LenProperties

LEMMA JoinedAfter ==
    ASSUME NEW Char, NEW s \in Seq(Char), NEW t \in Seq(Char)
    PROVE  \A i \in 1..Len(t) : (s \o t)[Len(s) + i] = t[i]
<1> TAKE i \in 1..Len(t)
<1>1. Len(s) \in Nat /\ Len(t) \in Nat
  BY LenProperties
<1>2. \A j \in 1..(Len(s) + Len(t)) :
          (s \o t)[j] = IF j <= Len(s) THEN s[j] ELSE t[j - Len(s)]
  BY ConcatProperties
<1>3. /\ Len(s) + i \in 1..(Len(s) + Len(t))
      /\ ~(Len(s) + i <= Len(s))
      /\ (Len(s) + i) - Len(s) = i
  BY <1>1
<1> QED BY <1>2, <1>3

(* The characters that the URL adds are part of the alphabet; brackets and *)
(* blanks are not: urlsplit takes brackets for an address, and it, or the  *)
(* reader of the file, strips blanks.                                      *)
Alphabet(Char) ==
    /\ {"u", ":", "@", "h", "/", "d"} \subseteq Char
    /\ Char \cap {"[", "]", " "} = {}

(* The characters of the URL around the n characters of the password.      *)
Shape(Char, url, password, n) ==
    /\ url \in Seq(Char) /\ n \in Nat /\ Len(url) = n + 6
    /\ url[1] = "u" /\ url[2] = ":"
    /\ \A i \in 1..n : url[i + 2] = password[i]
    /\ url[n + 3] = "@" /\ url[n + 4] = "h" /\ url[n + 5] = "/" /\ url[n + 6] = "d"

LEMMA UrlShape ==
    ASSUME NEW Char, Alphabet(Char), NEW password \in Seq(Char)
    PROVE  Shape(Char, ConnectionUrlOf(password), password, Len(password))
<1>0. PICK url, n : url = ConnectionUrlOf(password) /\ n = Len(password)
  OBVIOUS
<1>1. PICK pre : pre = <<"u", ":">>
  OBVIOUS
<1>2. PICK post : post = <<"@", "h", "/", "d">>
  OBVIOUS
<1>3. pre \in Seq(Char) /\ post \in Seq(Char)
  <2>1. /\ "u" \in Char /\ ":" \in Char /\ "@" \in Char
        /\ "h" \in Char /\ "/" \in Char /\ "d" \in Char
    BY DEF Alphabet
  <2> QED BY <1>1, <1>2, <2>1
<1>4. /\ Len(pre) = 2 /\ pre[1] = "u" /\ pre[2] = ":"
      /\ Len(post) = 4 /\ post[1] = "@" /\ post[2] = "h" /\ post[3] = "/" /\ post[4] = "d"
  BY <1>1, <1>2
<1>5. n \in Nat
  BY <1>0, LenProperties
<1>6. PICK front : front = pre \o password
  OBVIOUS
<1>7. front \in Seq(Char) /\ Len(front) = n + 2
  <2>1. front \in Seq(Char)
    BY <1>3, <1>6, Joined
  <2>2. Len(front) = Len(pre) + Len(password)
    BY <1>3, <1>6, Joined
  <2> QED BY <1>0, <1>4, <1>5, <2>1, <2>2
<1>8. \A i \in 1..Len(pre) : front[i] = pre[i]
  BY <1>3, <1>6, Joined
<1>9. \A i \in 1..Len(password) : front[Len(pre) + i] = password[i]
  BY <1>3, <1>6, JoinedAfter
<1>10. url = front \o post
  BY <1>0, <1>1, <1>2, <1>6 DEF ConnectionUrlOf
<1>11. url \in Seq(Char) /\ Len(url) = n + 6
  <2>1. url \in Seq(Char)
    BY <1>3, <1>7, <1>10, Joined
  <2>2. Len(url) = Len(front) + Len(post)
    BY <1>3, <1>7, <1>10, Joined
  <2> QED BY <1>4, <1>5, <1>7, <2>1, <2>2
<1>12. \A i \in 1..Len(front) : url[i] = front[i]
  BY <1>3, <1>7, <1>10, Joined
<1>13. \A i \in 1..Len(post) : url[Len(front) + i] = post[i]
  BY <1>3, <1>7, <1>10, JoinedAfter
<1>14. url[1] = "u" /\ url[2] = ":"
  BY <1>4, <1>5, <1>7, <1>8, <1>12
<1>15. \A i \in 1..n : url[i + 2] = password[i]
  <2> TAKE i \in 1..n
  <2>1. front[2 + i] = password[i]
    BY <1>0, <1>4, <1>9
  <2>2. 2 + i = i + 2 /\ i + 2 \in 1..Len(front)
    BY <1>5, <1>7
  <2> QED BY <1>12, <2>1, <2>2
<1>16. \A i \in 1..4 : url[(n + 2) + i] = post[i]
  BY <1>4, <1>7, <1>13
<1>17. /\ (n + 2) + 1 = n + 3 /\ (n + 2) + 2 = n + 4
       /\ (n + 2) + 3 = n + 5 /\ (n + 2) + 4 = n + 6
  BY <1>5
<1>18. url[n + 3] = "@" /\ url[n + 4] = "h" /\ url[n + 5] = "/" /\ url[n + 6] = "d"
  <2>1. /\ url[(n + 2) + 1] = post[1] /\ url[(n + 2) + 2] = post[2]
        /\ url[(n + 2) + 3] = post[3] /\ url[(n + 2) + 4] = post[4]
    BY <1>16
  <2> QED BY <1>4, <1>17, <2>1
<1> QED BY <1>0, <1>5, <1>11, <1>14, <1>15, <1>18 DEF Shape

(* What is left of "u:..." behind its colon.                               *)
LEMMA AfterColon ==
    ASSUME NEW Char, NEW text \in Seq(Char), NEW m \in Nat, Len(text) = m + 2,
           text[1] = "u", text[2] = ":"
    PROVE  /\ After(text, ":") \in Seq(Char) /\ Len(After(text, ":")) = m
           /\ \A i \in 1..m : After(text, ":")[i] = text[i + 2]
<1>1. After(text, ":") = SubSeq(text, 3, Len(text))
  <2>1. 2 \in 1..Len(text) /\ \A i \in 1..(2 - 1) : text[i] # ":"
    OBVIOUS
  <2>2. After(text, ":") = SubSeq(text, 2 + 1, Len(text))
    BY <2>1, AfterFirst
  <2> QED BY <2>2
<1>2. /\ SubSeq(text, 3, m + 2) \in Seq(Char) /\ Len(SubSeq(text, 3, m + 2)) = m
      /\ \A i \in 1..m : SubSeq(text, 3, m + 2)[i] = text[i + 2]
  OBVIOUS
<1> QED BY <1>1, <1>2

(* What follows a mark is shorter than the whole.                          *)
LEMMA AfterShorter ==
    ASSUME NEW Char, NEW text \in Seq(Char), NEW mark
    PROVE  Len(After(text, mark)) < Len(text) \/ Len(After(text, mark)) = 0
<1>1. CASE \E i \in 1..Len(text) : text[i] = mark
  <2>1. PICK k \in 1..Len(text) : text[k] = mark /\ \A i \in 1..(k - 1) : text[i] # mark
    <3>1. \E i \in 1..Len(text) : text[i] \in {mark}
      BY <1>1
    <3> QED BY <3>1, FirstMark
  <2>2. After(text, mark) = SubSeq(text, k + 1, Len(text))
    BY <2>1, AfterFirst
  <2> QED BY <2>2
<1>2. CASE ~ \E i \in 1..Len(text) : text[i] = mark
  <2>1. {i \in 1..Len(text) : text[i] = mark} = {}
    BY <1>2
  <2>2. After(text, mark) = << >>
    BY <2>1 DEF After, SelectInSeq, NoText
  <2> QED BY <2>2
<1> QED BY <1>1, <1>2

(* ConfigParser refuses the URL for a percent sign of the password only.   *)
LEMMA RefusedForPercent ==
    ASSUME NEW Char, Alphabet(Char), NEW password \in Seq(Char)
    PROVE  Refused(ConnectionUrlOf(password))
               <=> \E i \in 1..Len(password) : password[i] = "%"
<1>1. PICK url, n : url = ConnectionUrlOf(password) /\ n = Len(password)
  OBVIOUS
<1> Shape(Char, url, password, n)
  BY <1>1, UrlShape
<1>2. /\ url \in Seq(Char) /\ n \in Nat /\ Len(url) = n + 6
      /\ url[1] = "u" /\ url[2] = ":"
      /\ \A i \in 1..n : url[i + 2] = password[i]
      /\ url[n + 3] = "@" /\ url[n + 4] = "h" /\ url[n + 5] = "/" /\ url[n + 6] = "d"
  BY DEF Shape
<1>3. ASSUME NEW i \in 1..Len(url), url[i] = "%"
      PROVE  \E j \in 1..n : password[j] = "%"
  <2>1. i # 1 /\ i # 2 /\ i # n + 3 /\ i # n + 4 /\ i # n + 5 /\ i # n + 6
    BY <1>2, <1>3
  <2>2. i - 2 \in 1..n /\ (i - 2) + 2 = i
    BY <1>2, <2>1
  <2> QED BY <1>2, <1>3, <2>2
<1>4. ASSUME NEW j \in 1..n, password[j] = "%"
      PROVE  \E i \in 1..Len(url) : url[i] = "%"
  BY <1>2, <1>4
<1> QED BY <1>1, <1>3, <1>4 DEF Refused, Contains

(* render-config recovers a password from the config exactly when it has   *)
(* neither "@" nor "%" (_recover_pg_password and ConfigParser).            *)
THEOREM RenderRecovers ==
    ASSUME NEW Char, Alphabet(Char), NEW password \in Seq(Char)
    PROVE  RecoverPgPassword(ConnectionUrlOf(password)) = password
               <=> \A i \in 1..Len(password) : password[i] \notin {"@", "%"}
<1>1. PICK url, n : url = ConnectionUrlOf(password) /\ n = Len(password)
  OBVIOUS
<1> Shape(Char, url, password, n)
  BY <1>1, UrlShape
<1>2. /\ url \in Seq(Char) /\ n \in Nat /\ Len(url) = n + 6
      /\ url[1] = "u" /\ url[2] = ":"
      /\ \A i \in 1..n : url[i + 2] = password[i]
      /\ url[n + 3] = "@" /\ url[n + 4] = "h" /\ url[n + 5] = "/" /\ url[n + 6] = "d"
  BY DEF Shape
<1>3. PICK k \in 1..Len(url) : /\ url[k] \in {"@"}
                               /\ \A i \in 1..(k - 1) : url[i] \notin {"@"}
  <2>1. n + 3 \in 1..Len(url) /\ url[n + 3] \in {"@"}
    BY <1>2
  <2> QED BY <1>2, <2>1, FirstMark
<1>4. k \in 3..(n + 3)
  <2>1. k # 1 /\ k # 2
    BY <1>2, <1>3
  <2>2. ~(k > n + 3)
    BY <1>2, <1>3
  <2> QED BY <1>2, <2>1, <2>2
<1>5. k = n + 3 <=> \A i \in 1..n : password[i] # "@"
  <2>1. ASSUME NEW i \in 1..n, password[i] = "@", k = n + 3 PROVE FALSE
    BY <1>2, <1>3, <2>1
  <2>2. ASSUME k # n + 3 PROVE \E i \in 1..n : password[i] = "@"
    <3>1. k - 2 \in 1..n /\ (k - 2) + 2 = k
      BY <1>2, <1>4, <2>2
    <3> QED BY <1>2, <1>3, <3>1
  <2> QED BY <2>1, <2>2
<1>6. PICK text : text = SubSeq(url, 1, k - 1)
  OBVIOUS
<1>7. Before(url, {"@"}) = text
  BY <1>2, <1>3, <1>6, BeforeFirst
<1>8. /\ text \in Seq(Char) /\ Len(text) = (k - 3) + 2
      /\ \A i \in 1..(k - 1) : text[i] = url[i]
  BY <1>2, <1>4, <1>6
<1>9. /\ After(text, ":") \in Seq(Char) /\ Len(After(text, ":")) = k - 3
      /\ \A i \in 1..(k - 3) : After(text, ":")[i] = text[i + 2]
  <2>1. k - 3 \in Nat /\ 1 \in 1..(k - 1) /\ 2 \in 1..(k - 1)
    BY <1>2, <1>4
  <2>2. text[1] = "u" /\ text[2] = ":"
    BY <1>2, <1>8, <2>1
  <2> QED BY <1>8, <2>1, <2>2, AfterColon
<1>10. After(text, ":") = password <=> k = n + 3
  <2>1. ASSUME k = n + 3 PROVE After(text, ":") = password
    <3>1. Len(After(text, ":")) = Len(password)
      BY <1>1, <1>2, <1>9, <2>1
    <3>2. \A i \in 1..n : After(text, ":")[i] = password[i]
      BY <1>2, <1>8, <1>9, <2>1
    <3> QED BY <1>1, <1>9, <3>1, <3>2, SeqEqual
  <2>2. ASSUME After(text, ":") = password PROVE k = n + 3
    BY <1>1, <1>2, <1>4, <1>9, <2>2
  <2> QED BY <2>1, <2>2
<1>11. CASE \E i \in 1..n : password[i] = "%"
  <2>1. RecoverPgPassword(url) = << >>
    BY <1>1, <1>11, RefusedForPercent DEF RecoverPgPassword, NoText
  <2>2. password # << >>
    BY <1>1, <1>11
  <2> QED BY <1>1, <1>11, <2>1, <2>2
<1>12. CASE ~ \E i \in 1..n : password[i] = "%"
  <2>1. RecoverPgPassword(url) = After(text, ":")
    BY <1>1, <1>7, <1>12, RefusedForPercent DEF RecoverPgPassword
  <2> QED BY <1>1, <1>5, <1>10, <1>12, <2>1
<1> QED BY <1>11, <1>12

(* The boot recovers one exactly when it has no "%", "/", "?" and "#":     *)
(* urlsplit ends the network location at the first of the last three and   *)
(* splits it at the last "@".                                              *)
THEOREM BootRecovers ==
    ASSUME NEW Char, Alphabet(Char), NEW password \in Seq(Char)
    PROVE  UrlsplitPassword(ConnectionUrlOf(password)) = password
               <=> \A i \in 1..Len(password) : password[i] \notin {"%", "/", "?", "#"}
<1> DEFINE stops == {"/", "?", "#"}
<1>1. PICK url, n : url = ConnectionUrlOf(password) /\ n = Len(password)
  OBVIOUS
<1> Shape(Char, url, password, n)
  BY <1>1, UrlShape
<1>2. /\ url \in Seq(Char) /\ n \in Nat /\ Len(url) = n + 6
      /\ url[1] = "u" /\ url[2] = ":"
      /\ \A i \in 1..n : url[i + 2] = password[i]
      /\ url[n + 3] = "@" /\ url[n + 4] = "h" /\ url[n + 5] = "/" /\ url[n + 6] = "d"
  BY DEF Shape
<1>3. PICK k \in 1..Len(url) : url[k] \in stops /\ \A i \in 1..(k - 1) : url[i] \notin stops
  <2>1. n + 5 \in 1..Len(url) /\ url[n + 5] \in stops
    BY <1>2
  <2> HIDE DEF stops
  <2> QED BY <1>2, <2>1, FirstMark
<1>4. k \in 3..(n + 5) /\ k # n + 3 /\ k # n + 4
  <2>1. k # 1 /\ k # 2 /\ k # n + 3 /\ k # n + 4
    BY <1>2, <1>3
  <2>2. ~(k > n + 5)
    BY <1>2, <1>3
  <2> QED BY <1>2, <2>1, <2>2
<1>5. PICK netloc : netloc = SubSeq(url, 1, k - 1)
  OBVIOUS
<1>6. Before(url, stops) = netloc
  <2> HIDE DEF stops
  <2> QED BY <1>2, <1>3, <1>5, BeforeFirst
<1>7. /\ netloc \in Seq(Char) /\ Len(netloc) = k - 1
      /\ \A i \in 1..(k - 1) : netloc[i] = url[i]
  BY <1>2, <1>4, <1>5
<1>8. PICK host : host = Before(Reverse(netloc), {"@"})
  OBVIOUS
<1>9. PICK userinfo : userinfo = SubSeq(netloc, 1, Len(netloc) - Len(host) - 1)
  OBVIOUS
<1>10. UrlsplitPassword(url) = IF Refused(url) \/ ~Contains(netloc, "@") THEN << >>
                               ELSE After(userinfo, ":")
  BY <1>6, <1>8, <1>9 DEF UrlsplitPassword, NoText
<1>11. PICK back : back = Reverse(netloc)
  OBVIOUS
<1>12. /\ back \in Seq(Char) /\ Len(back) = k - 1
       /\ \A i \in 1..(k - 1) : back[i] = netloc[(k - 1) - i + 1]
  BY <1>4, <1>7, <1>11 DEF Reverse
<1>13. Refused(url) <=> \E i \in 1..n : password[i] = "%"
  BY <1>1, RefusedForPercent
<1>14. CASE \E i \in 1..n : password[i] = "%"
  <2>1. password # << >>
    BY <1>1, <1>14
  <2> QED BY <1>1, <1>10, <1>13, <1>14, <2>1
<1>15. CASE ~(\E i \in 1..n : password[i] = "%") /\ k = n + 5
  <2>1. \A i \in 1..n : password[i] \notin stops
    BY <1>2, <1>3, <1>15
  <2>2. /\ n + 3 \in 1..(k - 1) /\ n + 4 \in 1..(k - 1)
        /\ (k - 1) - 1 + 1 = n + 4 /\ (k - 1) - 2 + 1 = n + 3
    BY <1>2, <1>15
  <2>3. Contains(netloc, "@")
    BY <1>2, <1>7, <2>2 DEF Contains
  <2>4. back[1] = "h" /\ back[2] = "@" /\ 1 \in 1..Len(back) /\ 2 \in 1..Len(back)
    BY <1>2, <1>7, <1>12, <1>15, <2>2
  <2>5. Before(back, {"@"}) = SubSeq(back, 1, 2 - 1)
    <3>1. back[2] \in {"@"} /\ \A i \in 1..(2 - 1) : back[i] \notin {"@"}
      BY <2>4
    <3> QED BY <1>12, <2>4, <3>1, BeforeFirst
  <2>6. Len(host) = 1
    BY <1>8, <1>11, <1>12, <2>4, <2>5
  <2>7. userinfo = SubSeq(netloc, 1, n + 2)
    BY <1>2, <1>7, <1>9, <1>15, <2>6
  <2>8. /\ userinfo \in Seq(Char) /\ Len(userinfo) = n + 2
        /\ \A i \in 1..(n + 2) : userinfo[i] = url[i]
    BY <1>2, <1>7, <1>15, <2>7
  <2>9. userinfo[1] = "u" /\ userinfo[2] = ":"
    BY <1>2, <2>8
  <2>10. /\ After(userinfo, ":") \in Seq(Char) /\ Len(After(userinfo, ":")) = n
         /\ \A i \in 1..n : After(userinfo, ":")[i] = userinfo[i + 2]
    BY <1>2, <2>8, <2>9, AfterColon
  <2>11. \A i \in 1..n : After(userinfo, ":")[i] = password[i]
    BY <1>2, <2>8, <2>10
  <2>12. After(userinfo, ":") = password
    BY <1>1, <2>10, <2>11, SeqEqual
  <2>13. UrlsplitPassword(url) = password
    BY <1>10, <1>13, <1>15, <2>3, <2>12
  <2> QED BY <1>1, <1>15, <2>1, <2>13
<1>16. CASE ~(\E i \in 1..n : password[i] = "%") /\ k # n + 5
  <2>1. k - 2 \in 1..n /\ (k - 2) + 2 = k
    BY <1>2, <1>4, <1>16
  <2>2. password[k - 2] \in stops
    BY <1>2, <1>3, <2>1
  <2>3. n > 0 /\ password # << >>
    BY <1>1, <1>2, <2>1
  <2>4. CASE ~Contains(netloc, "@")
    BY <1>1, <1>10, <2>1, <2>2, <2>3, <2>4
  <2>5. CASE Contains(netloc, "@")
    <3>1. PICK i \in 1..(k - 1) : netloc[i] = "@"
      BY <1>7, <2>5 DEF Contains
    <3>2. k - i \in 1..Len(back) /\ back[k - i] \in {"@"}
      <4>1. k - i \in 1..(k - 1) /\ (k - 1) - (k - i) + 1 = i
        BY <1>4
      <4> QED BY <1>12, <3>1, <4>1
    <3>3. PICK j \in 1..Len(back) : /\ back[j] \in {"@"}
                                    /\ \A m \in 1..(j - 1) : back[m] \notin {"@"}
      BY <1>12, <3>2, FirstMark
    <3>4. host = SubSeq(back, 1, j - 1)
      BY <1>8, <1>11, <1>12, <3>3, BeforeFirst
    <3>5. Len(host) = j - 1
      BY <1>4, <1>12, <3>4
    <3>6. Len(netloc) - Len(host) - 1 \in 0..(k - 2)
      BY <1>4, <1>7, <1>12, <3>5
    <3>7. userinfo \in Seq(Char) /\ Len(userinfo) <= k - 2
      BY <1>4, <1>7, <1>9, <3>6
    <3>8. Len(After(userinfo, ":")) < Len(userinfo) \/ Len(After(userinfo, ":")) = 0
      BY <3>7, AfterShorter
    <3>9. Len(After(userinfo, ":")) # n
      BY <1>2, <1>4, <2>1, <2>3, <3>7, <3>8, LenProperties
    <3> QED BY <1>1, <1>10, <1>13, <1>16, <2>1, <2>2, <2>5, <3>9
  <2> QED BY <2>4, <2>5
<1> QED BY <1>14, <1>15, <1>16
=============================================================================
