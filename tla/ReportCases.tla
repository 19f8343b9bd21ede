---------------------------- MODULE ReportCases ----------------------------
(***************************************************************************)
(* What the /report workflow promises the group, with no table, no chat,   *)
(* no clock and no failing call: members report messages, a message that   *)
(* enough of them report is put to the admins, and a member is punished    *)
(* either by still more reports or by an admin who was asked.  UserReports *)
(* implements it.                                                          *)
(***************************************************************************)
EXTENDS Integers, FiniteSets

CONSTANTS Users, Messages, Author, Threshold, AutoBanThreshold

VARIABLES
  reporters,  \* who stands by a report about each message now
  accused,    \* who ever reported each message
  asked,      \* the messages the admins were asked or told about
  punished    \* the members banned or restricted

vars == <<reporters, accused, asked, punished>>

Nobody == [m \in Messages |-> {}]

Init ==
  /\ reporters = Nobody
  /\ accused = Nobody
  /\ asked = {}
  /\ punished = {}

(* The report is noted, or m comes before the admins with all its reports. *)
Note(m, kept) ==
  /\ \/ asked' = asked
     \/ Cardinality(kept) >= Threshold /\ asked' = asked \cup {m}
  /\ reporters'[m] = kept
  /\ punished' = punished

(* The reports suffice to punish the author at once.                       *)
Sentence(m, kept) ==
  /\ AutoBanThreshold > 0 /\ Cardinality(kept) >= AutoBanThreshold
  /\ asked' \in {asked, asked \cup {m}}
  /\ reporters'[m] \in {kept, {}}
  /\ punished' \in {punished, punished \cup {Author[m]}}

(* u reports m.  Reports may expire at any time: "kept" is what is left    *)
(* of those about m, the new one included.                                 *)
Report(u, m) ==
  /\ accused' = [accused EXCEPT ![m] = @ \cup {u}]
  /\ reporters' \in [Messages -> SUBSET Users]
  /\ \A n \in Messages \ {m} : reporters'[n] \subseteq reporters[n]
  /\ \E kept \in SUBSET (reporters[m] \cup {u}) :
       Note(m, kept) \/ Sentence(m, kept)

(* An admin decides a case that was put to the admins and has reports.     *)
Open(m) == m \in asked /\ reporters[m] # {}

Decide(m) ==
  /\ Open(m)
  /\ reporters' \in {reporters, [reporters EXCEPT ![m] = {}]}
  /\ punished' \in {punished, punished \cup {Author[m]}}
  /\ UNCHANGED <<accused, asked>>

(* An admin bans one of those who reported m, and only his report goes.    *)
BanReporter(u, m) ==
  /\ Open(m)
  /\ u \in accused[m]
  /\ reporters' \in {reporters, [reporters EXCEPT ![m] = @ \ {u}]}
  /\ punished' \in {punished, punished \cup {u}}
  /\ UNCHANGED <<accused, asked>>

Next ==
  \E m \in Messages :
    \/ Decide(m)
    \/ \E u \in Users : Report(u, m) \/ BanReporter(u, m)

Spec == Init /\ [][Next]_vars

=============================================================================
