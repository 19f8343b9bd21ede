------------------------- MODULE UserReportsProofs -------------------------
(***************************************************************************)
(* Proofs about UserReports for any group, any thresholds, any modes and   *)
(* any settings, and so any failing calls: all its invariants, and that it *)
(* implements ReportCases in any settings without one failing call.        *)
(***************************************************************************)
EXTENDS UserReports, FiniteSetTheorems, TLAPS

-----------------------------------------------------------------------------
(* The parts of the inductive invariant.                                   *)

(* Each part is a relation between values, so that it can be stated of the *)
(* old and of the new ones alike.  PunishmentIsGrounded is not inductive:  *)
(* a press is handled long after the keyboard was made, when the reports   *)
(* that justified it may be gone.  What carries the justification is the   *)
(* history filed: the chat and the presses are right about it (ChatOK,     *)
(* ClicksOK), and the table holds nothing that was not filed (TableOK).    *)

QuorumIn(filings, m) == Cardinality(ReportersIn(filings, m)) >= Threshold

(* u is the author of m or one of those who ever reported it. *)
Involved(filings, m, u) == u = Author[m] \/ u \in ReportersIn(filings, m)

(* A button about m, or the press of one, names a reporter of m if it bans *)
(* a reporter, and the author of m otherwise.                              *)
Named(filings, m, key) ==
  IF key.button = "R!" THEN key.user \in ReportersIn(filings, m)
                       ELSE key.user = Author[m]

(* The table holds filed reports only, one per message and reporter, all   *)
(* made before now.                                                        *)
TableOK(table, clock, filings) ==
  /\ table \in SUBSET Row
  /\ \A r \in table : /\ r.at < clock
                      /\ \E x \in filings : x.msg = r.msg /\ x.by = r.by
  /\ \A r, s \in table : r.msg = s.msg /\ r.by = s.by => r = s

(* FirstReportSpeaksForAll as a relation of a table and a chat. *)
FlagsOK(table, chat) ==
  \A r \in table : r.sent =>
    /\ r.note \in DOMAIN chat
    /\ chat[r.note].msg = r.msg
    /\ \A s \in table : s.msg = r.msg =>
         IF s.sent THEN s.note = r.note ELSE r.at < s.at

(* Notifications are about messages many reported, and their buttons name  *)
(* people of the case; so do the presses.                                  *)
ChatOK(chat, filings) ==
  \A id \in DOMAIN chat :
    /\ QuorumIn(filings, chat[id].msg)
    /\ \A key \in chat[id].keyboard : Named(filings, chat[id].msg, key)

ClicksOK(presses, chat, filings) ==
  \A k \in presses : /\ k.note \in DOMAIN chat
                     /\ Named(filings, chat[k.note].msg, k)

(* PunishmentIsGrounded as a relation. *)
StandingOK(state, filings) ==
  \A u \in Users : state[u] # "member" =>
    \E m \in Messages : QuorumIn(filings, m) /\ Involved(filings, m, u)

(* TypeOK without the setting. *)
Typed ==
  /\ now \in Nat
  /\ rows \in SUBSET Row
  /\ notes \in Seq(Note)
  /\ clicks \in SUBSET Click
  /\ \A k \in clicks : k.note \in DOMAIN notes
  /\ approved \in SUBSET Users
  /\ standing \in [Users -> Standing]
  /\ deleted \in SUBSET Messages
  /\ learned \in SUBSET Messages
  /\ filed \in SUBSET Filing

IInv ==
  /\ Typed
  /\ TableOK(rows, now, filed)
  /\ FlagsOK(rows, notes)
  /\ ChatOK(notes, filed)
  /\ ClicksOK(clicks, notes, filed)
  /\ StandingOK(standing, filed)

-----------------------------------------------------------------------------
(* The table operations.                                                   *)

(* Deletions keep the table right: nothing in it depends on a row that     *)
(* might be missing.                                                       *)
LEMMA SubTable ==
  ASSUME NEW table, NEW less \in SUBSET table, NEW clock, NEW filings,
         NEW chat, TableOK(table, clock, filings), FlagsOK(table, chat)
  PROVE  TableOK(less, clock, filings) /\ FlagsOK(less, chat)
BY DEF TableOK, FlagsOK

(* Notifications are never removed and stay about their message. *)
Grown(chat, more) ==
  \A id \in DOMAIN chat : id \in DOMAIN more /\ more[id].msg = chat[id].msg

(* The flags of a table stay right while the chat grows. *)
LEMMA GrownFlags ==
  ASSUME NEW table, NEW chat, NEW more, FlagsOK(table, chat),
         Grown(chat, more)
  PROVE  FlagsOK(table, more)
BY DEF FlagsOK, Grown

(* Edit and Post when the call works, as functions of the chat. *)
Edited(chat, id, keyboard) == [chat EXCEPT ![id].keyboard = keyboard]

Posted(chat, n) == Append(chat, n)

(* What an edit of a keyboard leaves as it was. *)
LEMMA EditGrows ==
  ASSUME NEW chat \in Seq(Note), NEW id \in DOMAIN chat,
         NEW keyboard \in SUBSET Key, NEW more,
         more = Edited(chat, id, keyboard)
  PROVE  /\ more \in Seq(Note)
         /\ DOMAIN more = DOMAIN chat
         /\ Grown(chat, more)
         /\ more[id].keyboard = keyboard
         /\ \A j \in DOMAIN chat : j # id => more[j] = chat[j]
<1>1. chat[id] \in Note
  OBVIOUS
<1>2. [chat[id] EXCEPT !.keyboard = keyboard] \in Note
  BY <1>1 DEF Note
<1>3. more \in Seq(Note) /\ DOMAIN more = DOMAIN chat
  BY <1>2 DEF Edited
<1>4. more[id] = [chat[id] EXCEPT !.keyboard = keyboard]
  BY DEF Edited
<1>5. more[id].keyboard = keyboard /\ more[id].msg = chat[id].msg
  BY <1>1, <1>4 DEF Note
<1>6. \A j \in DOMAIN chat : j # id => more[j] = chat[j]
  BY DEF Edited
<1> QED
  BY <1>3, <1>5, <1>6 DEF Grown

(* What a new notification leaves as it was. *)
LEMMA PostGrows ==
  ASSUME NEW chat \in Seq(Note), NEW n \in Note, NEW more,
         more = Posted(chat, n)
  PROVE  /\ more \in Seq(Note)
         /\ Grown(chat, more)
         /\ Len(chat) + 1 \in DOMAIN more
         /\ more[Len(chat) + 1] = n
         /\ \A j \in DOMAIN more :
              j = Len(chat) + 1 \/ (j \in DOMAIN chat /\ more[j] = chat[j])
BY DEF Grown, Posted

(* A new report joins the table as an unflagged row, younger than all.     *)
LEMMA AddKeepsTable ==
  ASSUME IInv, NEW u \in Users, NEW m \in Messages, NEW fails,
         NEW filings,
         filings = IF Insert(u, m) = rows THEN filed
                   ELSE filed \cup {[msg |-> m, by |-> u, at |-> now]}
  PROVE  /\ TableOK(Add(u, m, fails), now + 1, filings)
         /\ FlagsOK(Add(u, m, fails), notes)
<1> DEFINE new == [msg |-> m, by |-> u, at |-> now, sent |-> FALSE, note |-> 0]
           x == [msg |-> m, by |-> u, at |-> now]
<1>0. now \in Nat /\ rows \in SUBSET Row
  BY DEF IInv, Typed
<1>1. new \in Row /\ x.msg = m /\ x.by = u /\ new.at = now /\ new.by = u
      /\ new.msg = m /\ ~new.sent
  BY <1>0 DEF Row
<1>2. TableOK(Insert(u, m), now + 1, filings) /\ FlagsOK(Insert(u, m), notes)
  <2>1. CASE \E r \in rows : r.msg = m /\ r.by = u
    <3>1. Insert(u, m) = rows /\ filings = filed
      BY <2>1 DEF Insert
    <3>2. \A r \in rows : r.at \in Nat
      BY <1>0 DEF Row
    <3> QED
      BY <3>1, <3>2, <1>0 DEF IInv, TableOK
  <2>2. CASE ~ \E r \in rows : r.msg = m /\ r.by = u
    <3>1. Insert(u, m) = rows \cup {new}
      BY <2>2 DEF Insert
    <3>2. new \notin rows
      BY <2>2, <1>1
    <3>3. filings = filed \cup {x}
      BY <3>1, <3>2
    <3>4. \A r \in rows : r.at \in Nat /\ r.at < now
      BY <1>0 DEF Row, IInv, TableOK
    <3>5. TableOK(rows \cup {new}, now + 1, filings)
      <4>1. rows \cup {new} \in SUBSET Row
        BY <1>0, <1>1
      <4>2. \A r \in rows \cup {new} :
              r.at < now + 1 /\ \E y \in filings : y.msg = r.msg /\ y.by = r.by
        <5>1. ASSUME NEW r \in rows
              PROVE  r.at < now + 1 /\
                     \E y \in filings : y.msg = r.msg /\ y.by = r.by
          BY <3>3, <3>4, <1>0 DEF IInv, TableOK
        <5>2. new.at < now + 1
          BY <1>0, <1>1
        <5>3. x \in filings /\ x.msg = new.msg /\ x.by = new.by
          BY <3>3, <1>1
        <5> HIDE DEF new, x
        <5> QED
          BY <5>1, <5>2, <5>3
      <4>3. \A r, s \in rows \cup {new} :
              r.msg = s.msg /\ r.by = s.by => r = s
        <5>1. \A r, s \in rows : r.msg = s.msg /\ r.by = s.by => r = s
          BY DEF IInv, TableOK
        <5>2. \A r \in rows : ~(r.msg = new.msg /\ r.by = new.by)
          BY <2>2, <1>1
        <5> HIDE DEF new
        <5> QED
          BY <5>1, <5>2
      <4> QED
        BY <4>1, <4>2, <4>3 DEF TableOK
    <3>6. FlagsOK(rows \cup {new}, notes)
      BY <3>4, <1>1 DEF IInv, FlagsOK
    <3> QED
      BY <3>1, <3>5, <3>6
  <2> QED
    BY <2>1, <2>2
<1>3. Add(u, m, fails) \in SUBSET Insert(u, m)
  BY DEF Add
<1> QED
  BY <1>2, <1>3, SubTable

(* Marking all reports about m with a new notification about m. *)
LEMMA MarkKeepsTable ==
  ASSUME NEW table, NEW m \in Messages, NEW fails, NEW clock, NEW filings,
         NEW chat, NEW id \in DOMAIN chat, id \in Nat,
         TableOK(table, clock, filings), FlagsOK(table, chat),
         chat[id].msg = m
  PROVE  /\ TableOK(UpdateAdminMsgID(table, m, id, fails), clock, filings)
         /\ FlagsOK(UpdateAdminMsgID(table, m, id, fails), chat)
<1>1. CASE "record" \in fails
  BY <1>1 DEF UpdateAdminMsgID
<1>2. CASE "record" \notin fails
  <2> DEFINE mark(r) == IF r.msg = m
                        THEN [r EXCEPT !.sent = TRUE, !.note = id] ELSE r
             marked == {mark(r) : r \in table}
  <2>1. UpdateAdminMsgID(table, m, id, fails) = marked
    BY <1>2 DEF UpdateAdminMsgID
  <2>2. \A r \in table :
          /\ mark(r) \in Row
          /\ mark(r).msg = r.msg /\ mark(r).by = r.by /\ mark(r).at = r.at
          /\ r.msg = m => mark(r).sent = TRUE /\ mark(r).note = id
          /\ r.msg # m => mark(r) = r
    BY DEF TableOK, Row
  <2> HIDE DEF mark
  <2>3. TableOK(marked, clock, filings)
    <3>1. marked \in SUBSET Row
      BY <2>2
    <3>2. \A r \in marked :
            r.at < clock /\ \E x \in filings : x.msg = r.msg /\ x.by = r.by
      BY <2>2 DEF TableOK
    <3>3. \A r, s \in marked : r.msg = s.msg /\ r.by = s.by => r = s
      BY <2>2 DEF TableOK
    <3> QED
      BY <3>1, <3>2, <3>3 DEF TableOK
  <2>4. FlagsOK(marked, chat)
    <3> SUFFICES ASSUME NEW r \in table, mark(r).sent
                 PROVE  /\ mark(r).note \in DOMAIN chat
                        /\ chat[mark(r).note].msg = mark(r).msg
                        /\ \A s \in table : mark(s).msg = mark(r).msg =>
                             IF mark(s).sent THEN mark(s).note = mark(r).note
                             ELSE mark(r).at < mark(s).at
      BY DEF FlagsOK
    <3>1. CASE r.msg = m
      BY <2>2, <3>1
    <3>2. CASE r.msg # m
      BY <2>2, <3>2 DEF FlagsOK
    <3> QED
      BY <3>1, <3>2
  <2> QED
    BY <2>1, <2>3, <2>4
<1> QED
  BY <1>1, <1>2

-----------------------------------------------------------------------------
(* Who reported, over time.                                                *)

(* The reporters of a message are finitely many: they are members. *)
LEMMA ReportersFinite ==
  ASSUME NEW filings \in SUBSET Filing, NEW m
  PROVE  /\ ReportersIn(filings, m) \in SUBSET Users
         /\ IsFiniteSet(ReportersIn(filings, m))
         /\ Cardinality(ReportersIn(filings, m)) \in Nat
<1>1. ReportersIn(filings, m) \in SUBSET Users
  BY DEF ReportersIn, Filing
<1> QED
  BY <1>1, FS_Subset, FS_CardinalityType, UserReportsAssumption

(* Nothing leaves the history, so a quorum once reached stays reached. *)
LEMMA QuorumStays ==
  ASSUME NEW more \in SUBSET Filing, NEW filings \in SUBSET more, NEW m
  PROVE  /\ QuorumIn(filings, m) => QuorumIn(more, m)
         /\ \A u : Involved(filings, m, u) => Involved(more, m, u)
         /\ \A key : Named(filings, m, key) => Named(more, m, key)
<1>1. ReportersIn(filings, m) \in SUBSET ReportersIn(more, m)
  BY DEF ReportersIn
<1>2. /\ IsFiniteSet(ReportersIn(more, m))
      /\ Cardinality(ReportersIn(more, m)) \in Nat
      /\ Cardinality(ReportersIn(filings, m)) \in Nat
  BY ReportersFinite
<1>3. Cardinality(ReportersIn(filings, m))
        <= Cardinality(ReportersIn(more, m))
  BY <1>1, <1>2, FS_Subset
<1> QED
  BY <1>1, <1>2, <1>3, UserReportsAssumption DEF QuorumIn, Involved, Named

(* The reports about a message come from as many distinct reporters. *)
LEMMA ReportsHaveReporters ==
  ASSUME NEW table, NEW clock, NEW filings \in SUBSET Filing,
         TableOK(table, clock, filings), NEW m
  PROVE  /\ IsFiniteSet(About(table, m))
         /\ Cardinality(About(table, m)) \in Nat
         /\ Cardinality(About(table, m))
              <= Cardinality(ReportersIn(filings, m))
<1> DEFINE R == About(table, m)
           S == ReportersIn(filings, m)
           f == [r \in R |-> r.by]
<1>1. IsFiniteSet(S) /\ Cardinality(S) \in Nat
  BY ReportersFinite
<1>2. \A r \in R : r \in table /\ r.msg = m
  BY DEF About
<1>3. \A r \in R : r.by \in S
  BY <1>2 DEF TableOK, ReportersIn
<1>4. \A r, s \in R : r.by = s.by => r = s
  BY <1>2 DEF TableOK
<1> HIDE DEF R, S
<1>5. f \in Injection(R, S)
  BY <1>3, <1>4 DEF Injection, IsInjective
<1>6. IsFiniteSet(R) /\ Cardinality(R) <= Cardinality(S)
  BY <1>1, <1>5, FS_Injection
<1>7. Cardinality(R) \in Nat
  BY <1>6, FS_CardinalityType
<1> QED
  BY <1>6, <1>7 DEF R, S

(* Threshold reports in the table make a quorum, and so do the more that   *)
(* an automatic ban takes.                                                 *)
LEMMA ReportsMakeQuorum ==
  ASSUME NEW table, NEW clock, NEW filings \in SUBSET Filing,
         TableOK(table, clock, filings), NEW m,
         \/ QuorumReached(About(table, m))
         \/ AutoBanReached(About(table, m))
  PROVE  QuorumIn(filings, m)
<1>1. /\ Cardinality(About(table, m)) \in Nat
      /\ Cardinality(About(table, m)) <= Cardinality(ReportersIn(filings, m))
  BY ReportsHaveReporters
<1>2. Cardinality(ReportersIn(filings, m)) \in Nat
  BY ReportersFinite
<1>3. Cardinality(About(table, m)) >= Threshold
  BY <1>1, UserReportsAssumption DEF QuorumReached, AutoBanReached
<1> QED
  BY <1>1, <1>2, <1>3, UserReportsAssumption DEF QuorumIn

-----------------------------------------------------------------------------
(* What any handler about message m may do to the chat and to the members, *)
(* and why that keeps the invariant.                                       *)

(* A keyboard whose buttons name people of the case. *)
KeysOf(m, keyboard, filings) ==
  /\ keyboard \in SUBSET Key
  /\ \A key \in keyboard : Named(filings, m, key)

(* At most one notification about m is edited or posted. *)
ChatStep(m, chat, more, filings) ==
  \/ more = chat
  \/ \E id \in DOMAIN chat, keyboard \in SUBSET Key :
       /\ chat[id].msg = m
       /\ KeysOf(m, keyboard, filings)
       /\ more = Edited(chat, id, keyboard)
  \/ \E keyboard \in SUBSET Key :
       /\ KeysOf(m, keyboard, filings)
       /\ more = Posted(chat, [msg |-> m, keyboard |-> keyboard])

(* At most one member of the case is punished. *)
StandingStep(m, state, next, filings) ==
  \/ next = state
  \/ \E u \in Users, s \in Standing :
       Involved(filings, m, u) /\ next = [state EXCEPT ![u] = s]

(* A handler about a message with a quorum keeps the chat right. *)
LEMMA ChatStepKeeps ==
  ASSUME NEW filings, NEW m \in Messages, NEW chat \in Seq(Note), NEW more,
         QuorumIn(filings, m), ChatOK(chat, filings),
         ChatStep(m, chat, more, filings)
  PROVE  more \in Seq(Note) /\ Grown(chat, more) /\ ChatOK(more, filings)
<1>1. CASE more = chat
  BY <1>1 DEF Grown
<1>2. ASSUME NEW id \in DOMAIN chat, NEW keyboard \in SUBSET Key,
             chat[id].msg = m, KeysOf(m, keyboard, filings),
             more = Edited(chat, id, keyboard)
      PROVE  more \in Seq(Note) /\ Grown(chat, more) /\ ChatOK(more, filings)
  <2>1. /\ more \in Seq(Note)
        /\ DOMAIN more = DOMAIN chat
        /\ Grown(chat, more)
        /\ more[id].keyboard = keyboard
        /\ \A j \in DOMAIN chat : j # id => more[j] = chat[j]
    BY <1>2, EditGrows
  <2>2. more[id].msg = m
    BY <1>2, <2>1 DEF Grown
  <2>3. ASSUME NEW j \in DOMAIN more
        PROVE  /\ QuorumIn(filings, more[j].msg)
               /\ \A key \in more[j].keyboard :
                    Named(filings, more[j].msg, key)
    <3>1. CASE j = id
      BY <1>2, <2>1, <2>2, <3>1 DEF KeysOf
    <3>2. CASE j # id
      <4>1. j \in DOMAIN chat /\ more[j] = chat[j]
        BY <2>1, <3>2
      <4> QED
        BY <4>1 DEF ChatOK
    <3> QED
      BY <3>1, <3>2
  <2>4. ChatOK(more, filings)
    BY <2>3 DEF ChatOK
  <2> QED
    BY <2>1, <2>4
<1>3. ASSUME NEW keyboard \in SUBSET Key, KeysOf(m, keyboard, filings),
             more = Posted(chat, [msg |-> m, keyboard |-> keyboard])
      PROVE  more \in Seq(Note) /\ Grown(chat, more) /\ ChatOK(more, filings)
  <2> DEFINE n == [msg |-> m, keyboard |-> keyboard]
  <2>1. n \in Note /\ n.msg = m /\ n.keyboard = keyboard
    BY DEF Note
  <2>2. more = Posted(chat, n)
    BY <1>3
  <2> HIDE DEF n
  <2>3. /\ more \in Seq(Note)
        /\ Grown(chat, more)
        /\ more[Len(chat) + 1] = n
        /\ \A j \in DOMAIN more :
             j = Len(chat) + 1 \/ (j \in DOMAIN chat /\ more[j] = chat[j])
    BY <2>1, <2>2, PostGrows
  <2>4. ASSUME NEW j \in DOMAIN more
        PROVE  /\ QuorumIn(filings, more[j].msg)
               /\ \A key \in more[j].keyboard :
                    Named(filings, more[j].msg, key)
    <3>1. CASE j = Len(chat) + 1
      BY <1>3, <2>1, <2>3, <3>1 DEF KeysOf
    <3>2. CASE j \in DOMAIN chat /\ more[j] = chat[j]
      BY <3>2 DEF ChatOK
    <3> QED
      BY <2>3, <3>1, <3>2
  <2>5. ChatOK(more, filings)
    BY <2>4 DEF ChatOK
  <2> QED
    BY <2>3, <2>5
<1> QED
  BY <1>1, <1>2, <1>3 DEF ChatStep

(* ... and punishes with reason. *)
LEMMA StandingStepKeeps ==
  ASSUME NEW filings, NEW m \in Messages, NEW state \in [Users -> Standing],
         NEW next, QuorumIn(filings, m), StandingOK(state, filings),
         StandingStep(m, state, next, filings)
  PROVE  next \in [Users -> Standing] /\ StandingOK(next, filings)
BY DEF StandingStep, StandingOK

(* The shape of a handler's step is enough: it concerns a message with a   *)
(* quorum, or leaves the chat and the members alone.                       *)
LEMMA HandlerStepKeeps ==
  ASSUME IInv, NEW m \in Messages, filed \subseteq filed',
         filed' \in SUBSET Filing,
         \/ UNCHANGED <<notes, standing>>
         \/ /\ QuorumIn(filed', m)
            /\ ChatStep(m, notes, notes', filed')
            /\ StandingStep(m, standing, standing', filed'),
         clicks' \in SUBSET clicks, now' \in Nat,
         TableOK(rows', now', filed'),
         FlagsOK(rows', notes) \/ FlagsOK(rows', notes'),
         approved' \in SUBSET Users, deleted' \in SUBSET Messages,
         learned' \in SUBSET Messages
  PROVE  IInv'
<1>1. /\ notes \in Seq(Note)
      /\ standing \in [Users -> Standing]
      /\ clicks \in SUBSET Click
  BY DEF IInv, Typed
<1>2. \A q : /\ QuorumIn(filed, q) => QuorumIn(filed', q)
             /\ \A u : Involved(filed, q, u) => Involved(filed', q, u)
             /\ \A key : Named(filed, q, key) => Named(filed', q, key)
  BY QuorumStays
<1>3. /\ ChatOK(notes, filed')
      /\ StandingOK(standing, filed')
      /\ ClicksOK(clicks, notes, filed')
  BY <1>2 DEF IInv, ChatOK, StandingOK, ClicksOK
<1>4. notes' \in Seq(Note) /\ Grown(notes, notes') /\ ChatOK(notes', filed')
  <2>1. CASE UNCHANGED <<notes, standing>>
    BY <1>1, <1>3, <2>1 DEF Grown
  <2>2. CASE QuorumIn(filed', m) /\ ChatStep(m, notes, notes', filed')
    BY <1>1, <1>3, <2>2, ChatStepKeeps
  <2> QED
    BY <2>1, <2>2
<1>5. standing' \in [Users -> Standing] /\ StandingOK(standing', filed')
  <2>1. CASE UNCHANGED <<notes, standing>>
    BY <1>1, <1>3, <2>1
  <2>2. CASE /\ QuorumIn(filed', m)
             /\ StandingStep(m, standing, standing', filed')
    BY <1>1, <1>3, <2>2, StandingStepKeeps
  <2> QED
    BY <2>1, <2>2
<1>6. ClicksOK(clicks', notes', filed') /\ clicks' \in SUBSET Click
  BY <1>1, <1>3, <1>4 DEF ClicksOK, Grown
<1>7. rows' \in SUBSET Row
  BY DEF TableOK
<1>8. FlagsOK(rows', notes')
  BY <1>4, GrownFlags
<1>9. Typed'
  BY <1>4, <1>5, <1>6, <1>7 DEF Typed, ClicksOK
<1> QED
  BY <1>4, <1>5, <1>6, <1>8, <1>9 DEF IInv

-----------------------------------------------------------------------------
(* The operators the handlers are built from make such steps.              *)

(* The keyboards name the author of the message or its reporters.          *)
LEMMA KeyboardsName ==
  ASSUME NEW m \in Messages, NEW filings, NEW clock,
         TableOK(rows, clock, filings)
  PROVE  /\ KeysOf(m, NoKeyboard, filings)
         /\ KeysOf(m, ActionKeyboard(m), filings)
         /\ KeysOf(m, ReporterKeyboard(m, About(rows, m)), filings)
<1>1. Author[m] \in Users
  BY UserReportsAssumption
<1>2. \A r \in About(rows, m) : r.by \in Users /\ r.by \in ReportersIn(filings, m)
  BY DEF About, TableOK, Row, ReportersIn
<1>3. KeysOf(m, ActionKeyboard(m), filings)
  BY <1>1 DEF KeysOf, ActionKeyboard, Key, Named
<1>4. KeysOf(m, ReporterKeyboard(m, About(rows, m)), filings)
  BY <1>1, <1>2 DEF KeysOf, ReporterKeyboard, Key, Named
<1> QED
  BY <1>3, <1>4 DEF KeysOf, NoKeyboard

(* An edit of a notification about m with such a keyboard.                 *)
LEMMA EditStep ==
  ASSUME NEW m, NEW filings, NEW keyboard, KeysOf(m, keyboard, filings),
         NEW id \in DOMAIN notes, notes[id].msg = m, NEW fails
  PROVE  ChatStep(m, notes, Edit(id, keyboard, fails), filings)
BY DEF ChatStep, Edit, Edited, KeysOf

(* A new notification about m with such a keyboard.                        *)
LEMMA PostStep ==
  ASSUME NEW m, NEW filings, NEW keyboard, KeysOf(m, keyboard, filings),
         NEW fails
  PROVE  ChatStep(m, notes, Post(m, keyboard, fails), filings)
BY DEF ChatStep, Post, Posted, KeysOf

(* The ban of somebody involved.                                           *)
LEMMA BanStep ==
  ASSUME NEW m, NEW filings, NEW u \in Users, Involved(filings, m, u),
         NEW restrict, NEW fails
  PROVE  StandingStep(m, standing, BanUser(u, restrict, fails), filings)
BY DEF StandingStep, BanUser, Standing

(* What PunishAuthor changes.                                              *)
LEMMA PunishStep ==
  ASSUME IInv, NEW m \in Messages, NEW filings, NEW fails,
         PunishAuthor(m, fails)
  PROVE  /\ StandingStep(m, standing, standing', filings)
         /\ approved' \in SUBSET Users
         /\ deleted' \in SUBSET Messages
         /\ learned' \in SUBSET Messages
<1>1. Author[m] \in Users /\ Involved(filings, m, Author[m])
  BY UserReportsAssumption DEF Involved
<1>2. StandingStep(m, standing, standing', filings)
  BY <1>1, BanStep DEF PunishAuthor
<1>3. /\ approved \in SUBSET Users
      /\ deleted \in SUBSET Messages
      /\ learned \in SUBSET Messages
  BY DEF IInv, Typed
<1> QED
  BY <1>2, <1>3 DEF PunishAuthor

-----------------------------------------------------------------------------
(* The actions.                                                            *)

(* A report keeps the invariant.                                           *)
LEMMA ReportStep ==
  ASSUME IInv, NEW u \in Users, NEW m \in Messages, NEW fails,
         DirectUserReport(u, m, fails)
  PROVE  IInv'
<1> DEFINE stored == Add(u, m, fails)
           reports == About(stored, m)
<1>1. /\ now' = now + 1 /\ now \in Nat
      /\ filed \subseteq filed' /\ filed' \in SUBSET Filing
      /\ clicks' = clicks
  BY DEF DirectUserReport, IInv, Typed, Filing
<1>2. TableOK(stored, now', filed') /\ FlagsOK(stored, notes)
  BY <1>1, AddKeepsTable DEF DirectUserReport
<1>3. /\ notes \in Seq(Note)
      /\ approved \in SUBSET Users
      /\ deleted \in SUBSET Messages
      /\ learned \in SUBSET Messages
  BY DEF IInv, Typed
<1>4. TableOK(rows, now, filed)
  BY DEF IInv
<1>5. KeysOf(m, NoKeyboard, filed') /\ KeysOf(m, ActionKeyboard(m), filed')
  BY <1>1, UserReportsAssumption
     DEF KeysOf, NoKeyboard, ActionKeyboard, Named, Key
<1>6. CheckReportThreshold(m, stored, fails)
  BY DEF DirectUserReport
<1> HIDE DEF stored
<1>7. CASE rows' = stored /\ UNCHANGED <<notes, effects>>
  BY <1>1, <1>2, <1>3, <1>7, HandlerStepKeeps DEF effects
<1>8. ASSUME NEW first \in Oldest(reports),
             QuorumReached(reports) \/ AutoBanReached(reports),
             \/ ExecuteAutoBan(m, first, stored, fails)
             \/ first.sent /\ UpdateReportNotification(m, first, stored, fails)
             \/ SendReportNotification(m, stored, fails)
      PROVE  IInv'
  <2>1. QuorumIn(filed', m)
    BY <1>1, <1>2, <1>8, ReportsMakeQuorum
  <2>2. first \in stored /\ first.msg = m
    BY DEF Oldest, About
  <2>3. first.sent => /\ first.note \in DOMAIN notes
                      /\ notes[first.note].msg = m
    BY <1>2, <2>2 DEF FlagsOK
  <2>4. CASE ExecuteAutoBan(m, first, stored, fails)
    <3>1. rows' \in SUBSET stored
      BY <2>4 DEF ExecuteAutoBan, DeleteByMessage
    <3>2. TableOK(rows', now', filed') /\ FlagsOK(rows', notes)
      BY <1>2, <3>1, SubTable
    <3>3. \/ notes' = notes
          \/ first.sent /\ notes' = Edit(first.note, NoKeyboard, fails)
          \/ notes' = Post(m, NoKeyboard, fails)
      BY <2>4 DEF ExecuteAutoBan
    <3>4. ChatStep(m, notes, notes', filed')
      <4>1. CASE notes' = notes
        BY <4>1 DEF ChatStep
      <4>2. CASE first.sent /\ notes' = Edit(first.note, NoKeyboard, fails)
        BY <1>5, <2>3, <4>2, EditStep
      <4>3. CASE notes' = Post(m, NoKeyboard, fails)
        BY <1>5, <4>3, PostStep
      <4> QED
        BY <3>3, <4>1, <4>2, <4>3
    <3>5. PunishAuthor(m, fails)
      BY <2>4 DEF ExecuteAutoBan
    <3> QED
      BY <1>1, <2>1, <3>2, <3>4, <3>5, PunishStep, HandlerStepKeeps
  <2>5. CASE first.sent /\ UpdateReportNotification(m, first, stored, fails)
    <3>1. ChatStep(m, notes, notes', filed')
      BY <1>5, <2>3, <2>5, EditStep DEF UpdateReportNotification
    <3>2. /\ rows' = stored
          /\ StandingStep(m, standing, standing', filed')
          /\ UNCHANGED effects
      BY <2>5 DEF UpdateReportNotification, StandingStep, effects
    <3> QED
      BY <1>1, <1>2, <1>3, <2>1, <3>1, <3>2, HandlerStepKeeps DEF effects
  <2>6. CASE SendReportNotification(m, stored, fails)
    <3>1. ChatStep(m, notes, notes', filed')
      BY <1>5, <2>6, PostStep DEF SendReportNotification
    <3>2. /\ StandingStep(m, standing, standing', filed')
          /\ UNCHANGED effects
      BY <2>6 DEF SendReportNotification, StandingStep, effects
    <3>3. TableOK(rows', now', filed') /\ FlagsOK(rows', notes')
      <4>1. CASE "send" \in fails
        BY <1>2, <2>6, <4>1 DEF SendReportNotification, Post
      <4>2. CASE "send" \notin fails
        <5> DEFINE n == [msg |-> m, keyboard |-> ActionKeyboard(m)]
        <5>1. n \in Note /\ n.msg = m
          BY <1>5 DEF Note, KeysOf
        <5>2. notes' = Posted(notes, n)
          BY <2>6, <4>2 DEF SendReportNotification, Post, Posted
        <5> HIDE DEF n
        <5>3. /\ Grown(notes, notes')
              /\ Len(notes) + 1 \in DOMAIN notes'
              /\ notes'[Len(notes) + 1] = n
          BY <1>3, <5>1, <5>2, PostGrows
        <5>4. Len(notes) + 1 \in Nat
          BY <1>3
        <5>5. FlagsOK(stored, notes')
          BY <1>2, <5>3, GrownFlags
        <5>6. rows' = UpdateAdminMsgID(stored, m, Len(notes) + 1, fails)
          BY <2>6, <4>2 DEF SendReportNotification
        <5> QED
          BY <1>2, <5>1, <5>3, <5>4, <5>5, <5>6, MarkKeepsTable
      <4> QED
        BY <4>1, <4>2
    <3> QED
      BY <1>1, <1>3, <2>1, <3>1, <3>2, <3>3, HandlerStepKeeps DEF effects
  <2> QED
    BY <1>8, <2>4, <2>5, <2>6
<1> QED
  BY <1>6, <1>7, <1>8 DEF CheckReportThreshold

(* A handled button press keeps the invariant.                             *)
LEMMA CallbackStep ==
  ASSUME IInv, NEW k \in clicks, NEW fails, HandleReportCallback(k, fails)
  PROVE  IInv'
<1> DEFINE m == CaseOf(k)
<1>1. /\ notes \in Seq(Note) /\ k.note \in DOMAIN notes /\ k \in Click
      /\ filed \in SUBSET Filing /\ now \in Nat
      /\ approved \in SUBSET Users
      /\ deleted \in SUBSET Messages
      /\ learned \in SUBSET Messages
  BY DEF IInv, Typed
<1>2. m \in Messages /\ notes[k.note].msg = m
  <2>1. notes[k.note] \in Note
    BY <1>1
  <2> QED
    BY <2>1 DEF CaseOf, Note
<1>3. QuorumIn(filed, m) /\ Involved(filed, m, k.user) /\ k.user \in Users
  BY <1>1 DEF IInv, ChatOK, ClicksOK, CaseOf, Click, Named, Involved
<1>4. TableOK(rows, now, filed) /\ FlagsOK(rows, notes)
  BY DEF IInv
<1>5. /\ KeysOf(m, NoKeyboard, filed)
      /\ KeysOf(m, ActionKeyboard(m), filed)
      /\ KeysOf(m, ReporterKeyboard(m, About(rows, m)), filed)
  BY <1>2, <1>4, KeyboardsName
<1>6. now' = now /\ filed' = filed /\ clicks' \in SUBSET clicks
  BY DEF HandleReportCallback, CallbackNoReports, CallbackReportBan,
         CallbackReportReject, CallbackReportBanReporterAsk,
         CallbackReportBanReporterConfirm, CallbackReportCancel, Handle
<1> HIDE DEF m
<1>7. SUFFICES
        /\ rows' \in SUBSET rows
        /\ ChatStep(m, notes, notes', filed)
        /\ StandingStep(m, standing, standing', filed)
        /\ approved' \in SUBSET Users
        /\ deleted' \in SUBSET Messages
        /\ learned' \in SUBSET Messages
  <2> SUFFICES ASSUME rows' \in SUBSET rows,
                      ChatStep(m, notes, notes', filed),
                      StandingStep(m, standing, standing', filed),
                      approved' \in SUBSET Users,
                      deleted' \in SUBSET Messages,
                      learned' \in SUBSET Messages
               PROVE  IInv'
    OBVIOUS
  <2>1. TableOK(rows', now, filed) /\ FlagsOK(rows', notes)
    BY <1>4, SubTable
  <2> QED
    BY <1>1, <1>2, <1>3, <1>6, <2>1, HandlerStepKeeps
<1>8. CASE CallbackNoReports(k, fails)
  BY <1>1, <1>8 DEF CallbackNoReports, ChatStep, StandingStep, effects
<1>9. CASE CallbackReportBan(k, fails)
  <2>1. /\ PunishAuthor(m, fails)
        /\ rows' = DeleteByMessage(rows, m, fails)
        /\ notes' = Edit(k.note, NoKeyboard, fails)
    BY <1>9 DEF CallbackReportBan, m
  <2>2. rows' \in SUBSET rows
    BY <2>1 DEF DeleteByMessage
  <2>3. ChatStep(m, notes, notes', filed)
    BY <1>1, <1>2, <1>5, <2>1, EditStep
  <2> QED
    BY <1>2, <2>1, <2>2, <2>3, PunishStep
<1>10. CASE CallbackReportReject(k, fails)
  <2>1. /\ rows' = DeleteByMessage(rows, m, fails)
        /\ notes' = Edit(k.note, NoKeyboard, fails)
        /\ UNCHANGED effects
    BY <1>10 DEF CallbackReportReject, m
  <2>2. ChatStep(m, notes, notes', filed)
    BY <1>1, <1>2, <1>5, <2>1, EditStep
  <2> QED
    BY <1>1, <2>1, <2>2 DEF DeleteByMessage, StandingStep, effects
<1>11. CASE CallbackReportBanReporterAsk(k, fails)
  <2>1. /\ notes' = Edit(k.note, ReporterKeyboard(m, About(rows, m)), fails)
        /\ UNCHANGED <<rows, effects>>
    BY <1>11 DEF CallbackReportBanReporterAsk, m
  <2>2. ChatStep(m, notes, notes', filed)
    BY <1>1, <1>2, <1>5, <2>1, EditStep
  <2> QED
    BY <1>1, <2>1, <2>2 DEF StandingStep, effects
<1>12. CASE CallbackReportBanReporterConfirm(k, fails)
  <2>1. /\ standing' = BanUser(k.user, FALSE, fails)
        /\ rows' \in SUBSET rows
        /\ \/ notes' = Edit(k.note, NoKeyboard, fails)
           \/ notes' = Edit(k.note, ActionKeyboard(m), fails)
        /\ UNCHANGED <<approved, deleted, learned>>
    BY <1>12 DEF CallbackReportBanReporterConfirm, DeleteReporter,
                 DeleteByMessage, m
  <2>2. ChatStep(m, notes, notes', filed)
    BY <1>1, <1>2, <1>5, <2>1, EditStep
  <2>3. StandingStep(m, standing, standing', filed)
    BY <1>3, <2>1, BanStep
  <2> QED
    BY <1>1, <2>1, <2>2, <2>3
<1>13. CASE CallbackReportCancel(k, fails)
  <2>1. /\ notes' = Edit(k.note, ActionKeyboard(m), fails)
        /\ UNCHANGED <<rows, effects>>
    BY <1>13 DEF CallbackReportCancel, m
  <2>2. ChatStep(m, notes, notes', filed)
    BY <1>1, <1>2, <1>5, <2>1, EditStep
  <2> QED
    BY <1>1, <2>1, <2>2 DEF StandingStep, effects
<1> QED
  BY <1>8, <1>9, <1>10, <1>11, <1>12, <1>13 DEF HandleReportCallback

(* A pressed button keeps the invariant: it was on the keyboard.           *)
LEMMA ClickStep ==
  ASSUME IInv, NEW a \in Admins, NEW id \in DOMAIN notes,
         NEW key \in notes[id].keyboard, AdminClick(a, id, key)
  PROVE  IInv'
<1> DEFINE k == [admin |-> a, note |-> id, button |-> key.button,
                 user |-> key.user]
<1>1. notes \in Seq(Note) /\ id \in Nat /\ notes[id] \in Note
  BY DEF IInv, Typed
<1>2. key \in Key
  BY <1>1 DEF Note
<1>3. k \in Click /\ k.note = id /\ k.user = key.user /\ k.button = key.button
  BY <1>1, <1>2 DEF Click, Key
<1>4. Named(filed, notes[id].msg, key)
  BY DEF IInv, ChatOK
<1>5. /\ clicks' = clicks \cup {k}
      /\ UNCHANGED <<now, rows, notes, effects, filed>>
  BY DEF AdminClick
<1> HIDE DEF k
<1>6. ClicksOK(clicks', notes, filed) /\ clicks' \in SUBSET Click
  BY <1>3, <1>4, <1>5 DEF IInv, Typed, ClicksOK, Named
<1>7. Typed'
  BY <1>5, <1>6 DEF IInv, Typed, ClicksOK, effects
<1> QED
  BY <1>5, <1>6, <1>7 DEF IInv, effects

(* Time may pass.                                                          *)
LEMMA TickStep ==
  ASSUME IInv, Tick
  PROVE  IInv'
<1>1. /\ now \in Nat /\ now' = now + 1
      /\ UNCHANGED <<rows, notes, clicks, effects, filed>>
  BY DEF IInv, Typed, Tick
<1>2. \A r \in rows : r.at \in Nat
  BY DEF IInv, Typed, Row
<1>3. TableOK(rows, now', filed)
  BY <1>1, <1>2 DEF IInv, TableOK
<1>4. Typed'
  BY <1>1 DEF IInv, Typed, effects
<1> QED
  BY <1>1, <1>3, <1>4 DEF IInv, effects

(* Initially nothing was reported and nobody punished.                     *)
LEMMA InitIInv == Init => IInv
<1> SUFFICES ASSUME Init PROVE IInv
  OBVIOUS
<1>1. Typed
  BY UserReportsAssumption DEF Init, Typed, Standing
<1> QED
  BY <1>1 DEF Init, IInv, TableOK, FlagsOK, ChatOK, ClicksOK, StandingOK

(* Every step keeps the invariant.                                         *)
LEMMA NextIInv == IInv /\ [Next]_vars => IInv'
<1> SUFFICES ASSUME IInv, [Next]_vars PROVE IInv'
  OBVIOUS
<1>1. CASE Tick
  BY <1>1, TickStep
<1>2. ASSUME NEW u \in Users, AddApprovedUser(u)
      PROVE  IInv'
  BY <1>2 DEF AddApprovedUser, IInv, Typed
<1>3. ASSUME NEW a \in Admins, NEW id \in DOMAIN notes,
             NEW key \in notes[id].keyboard, AdminClick(a, id, key)
      PROVE  IInv'
  BY <1>3, ClickStep
<1>4. ASSUME NEW fails, NEW u \in Users, NEW m \in Messages,
             DirectUserReport(u, m, fails)
      PROVE  IInv'
  BY <1>4, ReportStep
<1>5. ASSUME NEW fails, NEW k \in clicks, HandleReportCallback(k, fails)
      PROVE  IInv'
  BY <1>5, CallbackStep
<1>6. CASE UNCHANGED vars
  BY <1>6 DEF vars, IInv, Typed
<1> QED
  BY <1>1, <1>2, <1>3, <1>4, <1>5, <1>6 DEF Next

(* The inductive invariant holds always.                                   *)
THEOREM Invariance == Spec => []IInv
BY InitIInv, NextIInv, PTL DEF Spec

-----------------------------------------------------------------------------
(* Every variable keeps its type, and presses and reports refer to things  *)
(* that exist.                                                             *)
THEOREM TypeCorrect == Spec => []TypeOK
<1> DEFINE Chosen == setting \in Settings
<1>1. Init => Chosen
  BY DEF Init
<1>2. Chosen /\ [Next]_vars => Chosen'
  BY DEF Next, vars
<1>3. IInv /\ Chosen => TypeOK
  BY DEF IInv, Typed, TypeOK
<1> HIDE DEF Chosen
<1> QED
  BY <1>1, <1>2, <1>3, Invariance, PTL DEF Spec

(* The code may look at reports[0] alone, whatever calls fail.             *)
THEOREM FirstReportSpeaks == Spec => []FirstReportSpeaksForAll
<1>1. IInv => FirstReportSpeaksForAll
  BY DEF IInv, FlagsOK, FirstReportSpeaksForAll
<1> QED
  BY <1>1, Invariance, PTL

(* Nobody is punished on the strength of fewer than Threshold reporters.   *)
THEOREM PunishmentGrounded == Spec => []PunishmentIsGrounded
<1>1. IInv => PunishmentIsGrounded
  BY DEF IInv, StandingOK, QuorumIn, Involved, ReportersIn,
         PunishmentIsGrounded, HadQuorum, ReportersOf
<1> QED
  BY <1>1, Invariance, PTL

-----------------------------------------------------------------------------
(* Soft bans. *)

(* SoftBanSparesAuthors as a relation. *)
SoftOK(state, filings) ==
  SoftBan => \A u \in Users : state[u] = "banned" =>
    \E m \in Messages : QuorumIn(filings, m) /\ u \in ReportersIn(filings, m)

LEMMA SoftIsSparing ==
  /\ SoftOK(standing, filed) <=> SoftBanSparesAuthors
  /\ SoftOK(standing', filed') <=> SoftBanSparesAuthors'
BY DEF SoftOK, SoftBanSparesAuthors, QuorumIn, HadQuorum, ReportersOf

(* In soft-ban mode authors are restricted. *)
LEMMA SoftPunish ==
  ASSUME SoftOK(standing, filed), NEW m \in Messages, NEW fails,
         standing \in [Users -> Standing], filed' \in SUBSET Filing,
         filed \subseteq filed', PunishAuthor(m, fails)
  PROVE  SoftOK(standing', filed')
<1>1. \A q : /\ QuorumIn(filed, q) => QuorumIn(filed', q)
             /\ ReportersIn(filed, q) \subseteq ReportersIn(filed', q)
  BY QuorumStays DEF ReportersIn
<1>2. SoftBan => \A u \in Users : standing'[u] = "banned" => standing[u] = "banned"
  BY DEF PunishAuthor, BanUser
<1> QED
  BY <1>1, <1>2 DEF SoftOK

LEMMA SoftStep ==
  ASSUME IInv, SoftOK(standing, filed), [Next]_vars
  PROVE  SoftOK(standing', filed')
<1>1. standing \in [Users -> Standing] /\ filed \in SUBSET Filing
  BY DEF IInv, Typed
<1>2. IInv'
  BY NextIInv
<1>3. filed' \in SUBSET Filing
  BY <1>2 DEF IInv, Typed
<1>4. ASSUME standing' = standing, filed \subseteq filed'
      PROVE  SoftOK(standing', filed')
  <2>1. \A q : /\ QuorumIn(filed, q) => QuorumIn(filed', q)
               /\ ReportersIn(filed, q) \subseteq ReportersIn(filed', q)
    BY <1>3, <1>4, QuorumStays DEF ReportersIn
  <2> QED
    BY <1>4, <2>1 DEF SoftOK
<1>5. CASE UNCHANGED vars \/ Tick
  BY <1>4, <1>5 DEF vars, Tick, effects
<1>6. ASSUME NEW u \in Users, AddApprovedUser(u)
      PROVE  SoftOK(standing', filed')
  BY <1>4, <1>6 DEF AddApprovedUser
<1>7. ASSUME NEW a \in Admins, NEW id \in DOMAIN notes,
             NEW key \in notes[id].keyboard, AdminClick(a, id, key)
      PROVE  SoftOK(standing', filed')
  BY <1>4, <1>7 DEF AdminClick, effects
<1>8. ASSUME NEW fails, NEW u \in Users, NEW m \in Messages,
             DirectUserReport(u, m, fails)
      PROVE  SoftOK(standing', filed')
  <2>1. filed \subseteq filed' /\ (standing' = standing \/ PunishAuthor(m, fails))
    BY <1>8 DEF DirectUserReport, CheckReportThreshold, ExecuteAutoBan,
                UpdateReportNotification, SendReportNotification, effects
  <2> QED
    BY <1>1, <1>3, <1>4, <2>1, SoftPunish
<1>9. ASSUME NEW fails, NEW k \in clicks, HandleReportCallback(k, fails)
      PROVE  SoftOK(standing', filed')
  <2> DEFINE m == CaseOf(k)
  <2>1. notes[k.note] \in Note /\ k \in Click /\ k.note \in DOMAIN notes
    BY DEF IInv, Typed
  <2>2. m \in Messages /\ QuorumIn(filed, m) /\ k.user \in Users
        /\ (k.button = "R!" => k.user \in ReportersIn(filed, m))
    BY <2>1 DEF CaseOf, Note, Click, IInv, ChatOK, ClicksOK, Named
  <2>3. filed' = filed
    BY <1>9 DEF HandleReportCallback, CallbackNoReports, CallbackReportBan,
                CallbackReportReject, CallbackReportBanReporterAsk,
                CallbackReportBanReporterConfirm, CallbackReportCancel, Handle
  <2>4. CASE CallbackReportBan(k, fails)
    BY <1>1, <1>3, <2>2, <2>3, <2>4, SoftPunish DEF CallbackReportBan
  <2>5. CASE CallbackReportBanReporterConfirm(k, fails)
    <3>1. k.button = "R!" /\ standing' = BanUser(k.user, FALSE, fails)
      BY <2>5 DEF CallbackReportBanReporterConfirm, Handle
    <3>2. \A u \in Users : u # k.user => standing'[u] = standing[u]
      BY <1>1, <3>1 DEF BanUser
    <3> HIDE DEF m
    <3> QED
      BY <2>2, <2>3, <3>1, <3>2 DEF SoftOK
  <2>6. CASE ~CallbackReportBan(k, fails)
             /\ ~CallbackReportBanReporterConfirm(k, fails)
    <3>1. standing' = standing
      BY <1>9, <2>6 DEF HandleReportCallback, CallbackNoReports,
           CallbackReportReject, CallbackReportBanReporterAsk,
           CallbackReportCancel, effects
    <3> QED
      BY <1>4, <2>3, <3>1
  <2> QED
    BY <2>4, <2>5, <2>6
<1> QED
  BY <1>5, <1>6, <1>7, <1>8, <1>9 DEF Next

(* In soft-ban mode only reporters an admin singled out are banned for     *)
(* real, for any group and any calls that fail (reports.go, executeAutoBan *)
(* and callbackReportBan pass the mode on, callbackReportBanReporterConfirm *)
(* does not).                                                              *)
THEOREM SoftBanSparing == Spec => []SoftBanSparesAuthors
<1>1. Init => SoftOK(standing, filed)
  BY DEF Init, SoftOK
<1>2. IInv /\ SoftOK(standing, filed) /\ [Next]_vars => SoftOK(standing', filed')
  BY SoftStep
<1>3. Init => SoftBanSparesAuthors
  BY <1>1, SoftIsSparing
<1>4. IInv /\ SoftBanSparesAuthors /\ [Next]_vars => SoftBanSparesAuthors'
  BY <1>2, SoftIsSparing
<1> QED
  BY <1>3, <1>4, Invariance, PTL DEF Spec

-----------------------------------------------------------------------------
(* How many reports there are. *)

(* What recording a notification makes of a report. *)
Mark(r, m, id) ==
  IF r.msg = m THEN [r EXCEPT !.sent = TRUE, !.note = id] ELSE r

LEMMA MarkedRow ==
  ASSUME NEW r \in Row, NEW m, NEW id \in Nat
  PROVE  /\ Mark(r, m, id).msg = r.msg /\ Mark(r, m, id).by = r.by
         /\ Mark(r, m, id).at = r.at
         /\ r.msg = m => Mark(r, m, id).note = id
         /\ r.msg # m => Mark(r, m, id) = r
BY DEF Mark, Row

(* What a report leaves of the table with the new report in it: all of it, *)
(* a part of it, or all of it with the notification recorded.              *)
Left(after, table, m) ==
  \/ after \in SUBSET table
  \/ \E id \in Nat : after = {Mark(r, m, id) : r \in table}

LEMMA ReportLeaves ==
  ASSUME IInv, NEW u \in Users, NEW m \in Messages, NEW fails,
         DirectUserReport(u, m, fails)
  PROVE  Left(rows', Add(u, m, fails), m)
<1> DEFINE stored == Add(u, m, fails)
<1>1. CheckReportThreshold(m, stored, fails)
  BY DEF DirectUserReport
<1>2. Len(notes) + 1 \in Nat
  BY DEF IInv, Typed
<1> HIDE DEF stored
<1>3. ASSUME NEW first, ExecuteAutoBan(m, first, stored, fails)
      PROVE  rows' \in SUBSET stored
  BY <1>3 DEF ExecuteAutoBan, DeleteByMessage
<1>4. ASSUME NEW first, UpdateReportNotification(m, first, stored, fails)
      PROVE  rows' \in SUBSET stored
  BY <1>4 DEF UpdateReportNotification
<1>5. ASSUME SendReportNotification(m, stored, fails)
      PROVE  Left(rows', stored, m)
  <2>1. rows' = stored \/ rows' = {Mark(r, m, Len(notes) + 1) : r \in stored}
    BY <1>5 DEF SendReportNotification, UpdateAdminMsgID, Mark
  <2> QED
    BY <1>2, <2>1 DEF Left
<1> QED
  BY <1>1, <1>3, <1>4, <1>5 DEF CheckReportThreshold, Left, stored

(* There are no more reports afterwards, by whatever they are counted. *)
LEMMA ImageIsNoLarger ==
  ASSUME NEW S, IsFiniteSet(S), NEW m, NEW id
  PROVE  /\ IsFiniteSet({Mark(r, m, id) : r \in S})
         /\ Cardinality({Mark(r, m, id) : r \in S}) <= Cardinality(S)
<1> DEFINE T == {Mark(r, m, id) : r \in S}
           f == [r \in S |-> Mark(r, m, id)]
<1>1. f \in Surjection(S, T)
  BY DEF Surjection
<1> HIDE DEF f, T
<1>2. IsFiniteSet(T) /\ Cardinality(T) <= Cardinality(S)
  BY <1>1, FS_Surjection
<1> QED
  BY <1>2 DEF T

LEMMA LeavesNoMore ==
  ASSUME NEW table \in SUBSET Row, NEW m, NEW after, Left(after, table, m),
         NEW q, IsFiniteSet(About(table, q))
  PROVE  /\ IsFiniteSet(About(after, q))
         /\ Cardinality(About(after, q)) <= Cardinality(About(table, q))
<1>1. CASE after \in SUBSET table
  <2>1. About(after, q) \in SUBSET About(table, q)
    BY <1>1 DEF About
  <2> QED
    BY <2>1, FS_Subset
<1>2. ASSUME NEW id \in Nat, after = {Mark(r, m, id) : r \in table}
      PROVE  About(after, q) = {Mark(r, m, id) : r \in About(table, q)}
  <2>1. \A r \in table : Mark(r, m, id).msg = r.msg
    BY MarkedRow
  <2> QED
    BY <1>2, <2>1 DEF About
<1>3. CASE \E id \in Nat : after = {Mark(r, m, id) : r \in table}
  BY <1>2, <1>3, ImageIsNoLarger
<1> QED
  BY <1>1, <1>3 DEF Left

(* The new report is one about m by u, made now. *)
LEMMA AddedRow ==
  ASSUME IInv, NEW u \in Users, NEW m \in Messages, NEW fails
  PROVE  \E new \in Row :
           /\ new.msg = m /\ new.by = u /\ new.at = now /\ ~new.sent
           /\ Add(u, m, fails) \in SUBSET (rows \cup {new})
<1> DEFINE new == [msg |-> m, by |-> u, at |-> now, sent |-> FALSE, note |-> 0]
<1>1. new \in Row /\ new.msg = m /\ new.by = u /\ new.at = now /\ ~new.sent
  BY DEF IInv, Typed, Row
<1>2. Add(u, m, fails) \in SUBSET (rows \cup {new})
  BY DEF Add, Insert
<1> HIDE DEF new
<1> QED
  BY <1>1, <1>2

(* Whatever is not a report only takes reports away. *)
LEMMA OtherStepsTake ==
  ASSUME IInv, [Next]_vars,
         \A fails \in SUBSET setting.fails, u \in Users, m \in Messages :
           ~DirectUserReport(u, m, fails)
  PROVE  rows' \in SUBSET rows /\ now' >= now /\ now' \in Nat
<1>1. now \in Nat
  BY DEF IInv, Typed
<1>2. CASE UNCHANGED vars \/ Tick
  BY <1>1, <1>2 DEF vars, Tick
<1>3. ASSUME NEW u \in Users, AddApprovedUser(u)
      PROVE  rows' = rows /\ now' = now
  BY <1>3 DEF AddApprovedUser
<1>4. ASSUME NEW a \in Admins, NEW id \in DOMAIN notes,
             NEW key \in notes[id].keyboard, AdminClick(a, id, key)
      PROVE  rows' = rows /\ now' = now
  BY <1>4 DEF AdminClick
<1>5. ASSUME NEW fails, NEW k \in clicks, HandleReportCallback(k, fails)
      PROVE  rows' \in SUBSET rows /\ now' = now
  BY <1>5 DEF HandleReportCallback, CallbackNoReports, CallbackReportBan,
              CallbackReportReject, CallbackReportBanReporterAsk,
              CallbackReportBanReporterConfirm, CallbackReportCancel, Handle,
              DeleteByMessage, DeleteReporter
<1> QED
  BY <1>1, <1>2, <1>3, <1>4, <1>5 DEF Next

-----------------------------------------------------------------------------
(* The rate limit. *)

(* What the limit rests on: a report about a message without a quorum is   *)
(* in the table as long as it has not expired, for only the end of a case  *)
(* that came before the admins deletes reports.                            *)
KnownOK(table, clock, filings) ==
  /\ IsFiniteSet(table)
  /\ \A x \in filings :
       ~QuorumIn(filings, x.msg) /\ x.at >= clock - Retention =>
         \E r \in table : r.msg = x.msg /\ r.by = x.by /\ r.at = x.at

(* What a report does to the reports in the table about other messages and *)
(* about a message without a quorum: nothing, but for the notification.    *)
LEMMA ReportKeeps ==
  ASSUME IInv, NEW u \in Users, NEW m \in Messages, NEW fails,
         DirectUserReport(u, m, fails), filed' \in SUBSET Filing,
         NEW stored \in SUBSET Row, stored = Add(u, m, fails),
         TableOK(stored, now + 1, filed'),
         NEW r \in stored, r.msg # m \/ ~QuorumIn(filed', m)
  PROVE  \E s \in rows' : s.msg = r.msg /\ s.by = r.by /\ s.at = r.at
<1>1. CheckReportThreshold(m, stored, fails)
  BY DEF DirectUserReport
<1>2. CASE AutoBanReached(About(stored, m))
  <2>1. r.msg # m
    BY <1>2, ReportsMakeQuorum
  <2>2. CASE rows' = stored
    BY <2>2
  <2>3. CASE rows' # stored
    <3>1. PICK first : ExecuteAutoBan(m, first, stored, fails)
      BY <1>1, <1>2, <2>3 DEF CheckReportThreshold
    <3>2. rows' = {q \in stored : q.msg # m}
      BY <2>3, <3>1 DEF ExecuteAutoBan, DeleteByMessage
    <3> QED
      BY <2>1, <3>2
  <2> QED
    BY <2>2, <2>3
<1>3. CASE ~AutoBanReached(About(stored, m))
  <2>1. \/ rows' = stored
        \/ \E id \in Nat : rows' = {Mark(q, m, id) : q \in stored}
    <3>1. Len(notes) + 1 \in Nat
      BY DEF IInv, Typed
    <3>2. ASSUME SendReportNotification(m, stored, fails)
          PROVE  \/ rows' = stored
                 \/ rows' = {Mark(q, m, Len(notes) + 1) : q \in stored}
      BY <3>2 DEF SendReportNotification, UpdateAdminMsgID, Mark
    <3>3. ASSUME NEW first, UpdateReportNotification(m, first, stored, fails)
          PROVE  rows' = stored
      BY <3>3 DEF UpdateReportNotification
    <3> QED
      BY <1>1, <1>3, <3>1, <3>2, <3>3 DEF CheckReportThreshold
  <2>2. ASSUME NEW id \in Nat, rows' = {Mark(q, m, id) : q \in stored}
        PROVE  \E s \in rows' : s.msg = r.msg /\ s.by = r.by /\ s.at = r.at
    <3>1. Mark(r, m, id) \in rows'
      BY <2>2
    <3> QED
      BY <3>1, MarkedRow
  <2> QED
    BY <2>1, <2>2
<1> QED
  BY <1>2, <1>3

LEMMA KnownReport ==
  ASSUME IInv, KnownOK(rows, now, filed), NEW u \in Users, NEW m \in Messages,
         NEW fails, DirectUserReport(u, m, fails)
  PROVE  KnownOK(rows', now', filed')
<1> DEFINE y == [msg |-> m, by |-> u, at |-> now]
           new == [msg |-> m, by |-> u, at |-> now, sent |-> FALSE, note |-> 0]
<1>1. /\ now \in Nat /\ rows \in SUBSET Row /\ filed \in SUBSET Filing
      /\ Retention \in Nat /\ now' = now + 1
      /\ filed' = IF Insert(u, m) = rows THEN filed ELSE filed \cup {y}
  BY UserReportsAssumption DEF IInv, Typed, DirectUserReport
<1>2. /\ y \in Filing /\ y.msg = m /\ y.by = u /\ y.at = now
      /\ new.msg = m /\ new.by = u /\ new.at = now
  BY <1>1 DEF Filing
<1>3. filed' \in SUBSET Filing /\ filed \in SUBSET filed'
  BY <1>1, <1>2
<1>4. PICK stored : stored = Add(u, m, fails)
  OBVIOUS
<1>5. TableOK(stored, now + 1, filed')
  BY <1>1, <1>4, AddKeepsTable
<1>6. /\ stored \in SUBSET Row
      /\ \A r \in stored : r.msg # m \/ ~QuorumIn(filed', m) =>
           \E s \in rows' : s.msg = r.msg /\ s.by = r.by /\ s.at = r.at
  BY <1>3, <1>4, <1>5, ReportKeeps DEF TableOK
<1>7. \A r \in Insert(u, m) : r.at >= now - Retention => r \in stored
  BY <1>4 DEF Add
<1>8. rows \in SUBSET Insert(u, m) /\ (Insert(u, m) # rows => new \in Insert(u, m))
  BY DEF Insert
<1>9. ASSUME NEW x \in filed', ~QuorumIn(filed', x.msg),
             x.at >= now' - Retention
      PROVE  \E s \in rows' : s.msg = x.msg /\ s.by = x.by /\ s.at = x.at
  <2>1. PICK r \in stored : r.msg = x.msg /\ r.by = x.by /\ r.at = x.at
    <3>1. CASE x \in filed
      <4>1. ~QuorumIn(filed, x.msg)
        BY <1>3, <1>9, QuorumStays
      <4>2. x.at \in Nat
        BY <1>1, <3>1 DEF Filing
      <4>3. x.at >= now - Retention
        BY <1>1, <1>9, <4>2
      <4>4. PICK r \in rows : r.msg = x.msg /\ r.by = x.by /\ r.at = x.at
        BY <3>1, <4>1, <4>3 DEF KnownOK
      <4> QED
        BY <1>7, <1>8, <4>3, <4>4
    <3>2. CASE x \notin filed
      <4>1. x = y /\ new \in Insert(u, m)
        BY <1>1, <1>8, <3>2
      <4>2. new.at >= now - Retention
        BY <1>1, <1>2
      <4> HIDE DEF new, y
      <4>3. new \in stored
        BY <1>7, <4>1, <4>2
      <4> QED
        BY <1>2, <4>1, <4>3
    <3> QED
      BY <3>1, <3>2
  <2>2. r.msg # m \/ ~QuorumIn(filed', m)
    BY <1>9, <2>1
  <2>3. \E s \in rows' : s.msg = r.msg /\ s.by = r.by /\ s.at = r.at
    BY <1>6, <2>2
  <2> QED
    BY <2>1, <2>3
<1>10. IsFiniteSet(rows')
  <2>1. IsFiniteSet(rows)
    BY DEF KnownOK
  <2>2. PICK z : stored \in SUBSET (rows \cup {z})
    BY <1>4, AddedRow
  <2>3. IsFiniteSet(stored)
    BY <2>1, <2>2, FS_AddElement, FS_Subset
  <2>4. Left(rows', stored, m)
    BY <1>4, ReportLeaves
  <2> QED
    BY <2>3, <2>4, FS_Subset, ImageIsNoLarger DEF Left
<1> QED
  BY <1>9, <1>10 DEF KnownOK

(* A press is about a case with a quorum, and deletes reports of that case *)
(* only.                                                                   *)
LEMMA KnownCallback ==
  ASSUME IInv, KnownOK(rows, now, filed), NEW fails, NEW k \in clicks,
         HandleReportCallback(k, fails)
  PROVE  KnownOK(rows', now', filed')
<1> DEFINE m == CaseOf(k)
<1>1. QuorumIn(filed, m)
  BY DEF IInv, ChatOK, ClicksOK, CaseOf
<1>2. /\ now' = now /\ filed' = filed
      /\ rows' \in SUBSET rows /\ \A r \in rows : r.msg # m => r \in rows'
  BY DEF HandleReportCallback, CallbackNoReports, CallbackReportBan,
         CallbackReportReject, CallbackReportBanReporterAsk,
         CallbackReportBanReporterConfirm, CallbackReportCancel, Handle,
         DeleteByMessage, DeleteReporter
<1> HIDE DEF m
<1>3. IsFiniteSet(rows')
  BY <1>2, FS_Subset DEF KnownOK
<1>4. ASSUME NEW x \in filed, ~QuorumIn(filed, x.msg),
             x.at >= now - Retention
      PROVE  \E s \in rows' : s.msg = x.msg /\ s.by = x.by /\ s.at = x.at
  <2>1. PICK r \in rows : r.msg = x.msg /\ r.by = x.by /\ r.at = x.at
    BY <1>4 DEF KnownOK
  <2>2. r \in rows'
    BY <1>1, <1>2, <1>4, <2>1
  <2> QED
    BY <2>1, <2>2
<1> QED
  BY <1>2, <1>3, <1>4 DEF KnownOK

LEMMA KnownStep ==
  ASSUME IInv, KnownOK(rows, now, filed), [Next]_vars
  PROVE  KnownOK(rows', now', filed')
<1>1. now \in Nat /\ Retention \in Nat /\ filed \in SUBSET Filing
  BY UserReportsAssumption DEF IInv, Typed
<1>2. CASE Tick
  <2>1. now' = now + 1 /\ rows' = rows /\ filed' = filed
    BY <1>2 DEF Tick
  <2>2. \A x \in filed : x.at \in Nat
    BY <1>1 DEF Filing
  <2>3. \A x \in filed : x.at >= now' - Retention => x.at >= now - Retention
    BY <1>1, <2>1, <2>2
  <2> QED
    BY <2>1, <2>3 DEF KnownOK
<1>3. CASE UNCHANGED <<rows, now, filed>>
  BY <1>3
<1>4. ASSUME NEW fails, NEW u \in Users, NEW m \in Messages,
             DirectUserReport(u, m, fails)
      PROVE  KnownOK(rows', now', filed')
  BY <1>4, KnownReport
<1>5. ASSUME NEW fails, NEW k \in clicks, HandleReportCallback(k, fails)
      PROVE  KnownOK(rows', now', filed')
  BY <1>5, KnownCallback
<1> QED
  BY <1>2, <1>3, <1>4, <1>5
     DEF Next, vars, AddApprovedUser, AdminClick

(* UnbackedReportsWithinLimit, with the fact that there is something to    *)
(* count.                                                                  *)
Unbacked(filings, u, since) ==
  {x \in filings : x.by = u /\ x.at >= since /\ ~QuorumIn(filings, x.msg)}

LimitOK(filings, clock) ==
  RateLimit > 0 /\ RatePeriod <= Retention => \A u \in Users :
    /\ IsFiniteSet(Unbacked(filings, u, clock - RatePeriod))
    /\ Cardinality(Unbacked(filings, u, clock - RatePeriod)) <= RateLimit

(* The earlier reports that would count against the limit are rows that    *)
(* the rate limit counts.                                                  *)
LEMMA CountedByLimit ==
  ASSUME IInv, KnownOK(rows, now, filed), NEW u \in Users,
         ~RateLimited(u), RateLimit > 0, RatePeriod <= Retention
  PROVE  LET before == Unbacked(filed, u, now + 1 - RatePeriod)
         IN  /\ IsFiniteSet(before) /\ Cardinality(before) \in Nat
             /\ Cardinality(before) < RateLimit
<1> DEFINE before == Unbacked(filed, u, now + 1 - RatePeriod)
           R == {r \in rows : r.by = u /\ r.at > now - RatePeriod}
           row(x) == CHOOSE r \in R :
                       r.msg = x.msg /\ r.by = x.by /\ r.at = x.at
           f == [x \in before |-> row(x)]
<1>1. /\ now \in Nat /\ filed \in SUBSET Filing /\ RatePeriod \in Nat
      /\ RateLimit \in Nat /\ Retention \in Nat
  BY UserReportsAssumption DEF IInv, Typed
<1>2. IsFiniteSet(R) /\ Cardinality(R) \in Nat
  <2>1. R \in SUBSET rows /\ IsFiniteSet(rows)
    BY DEF KnownOK
  <2> HIDE DEF R
  <2> QED
    BY <2>1, FS_Subset, FS_CardinalityType
<1>3. Cardinality(R) < RateLimit
  <2>1. ~(Cardinality(R) >= RateLimit)
    BY DEF RateLimited
  <2> HIDE DEF R
  <2> QED
    BY <1>1, <1>2, <2>1
<1>4. ASSUME NEW x \in before
      PROVE  \E r \in R : r.msg = x.msg /\ r.by = x.by /\ r.at = x.at
  <2>1. /\ x \in filed /\ x.by = u /\ ~QuorumIn(filed, x.msg)
        /\ x.at >= now + 1 - RatePeriod
    BY <1>4 DEF Unbacked
  <2>2. x.at \in Nat
    BY <1>1, <2>1 DEF Filing
  <2>3. x.at >= now - Retention /\ x.at > now - RatePeriod
    BY <1>1, <2>1, <2>2
  <2>4. PICK r \in rows : r.msg = x.msg /\ r.by = x.by /\ r.at = x.at
    BY <2>1, <2>3 DEF KnownOK
  <2>5. r \in R
    BY <2>1, <2>3, <2>4
  <2> QED
    BY <2>4, <2>5
<1>5. \A x \in before : /\ row(x) \in R
                        /\ row(x).msg = x.msg /\ row(x).by = x.by
                        /\ row(x).at = x.at
  BY <1>4
<1>6. \A x, z \in before :
        x.msg = z.msg /\ x.by = z.by /\ x.at = z.at => x = z
  BY <1>1 DEF Unbacked, Filing
<1> HIDE DEF before, R, row
<1>7. f \in Injection(before, R)
  BY <1>5, <1>6 DEF Injection, IsInjective
<1>8. IsFiniteSet(before) /\ Cardinality(before) <= Cardinality(R)
  BY <1>2, <1>7, FS_Injection
<1>9. Cardinality(before) \in Nat
  BY <1>8, FS_CardinalityType
<1>10. Cardinality(before) < RateLimit
  BY <1>1, <1>2, <1>3, <1>8, <1>9
<1> QED
  BY <1>8, <1>9, <1>10 DEF before

(* Later, with more reports of others, no more of them count. *)
LEMMA FewerCount ==
  ASSUME IInv, LimitOK(filed, now), RateLimit > 0, RatePeriod <= Retention,
         NEW u \in Users, NEW S, S \in SUBSET Unbacked(filed, u, now - RatePeriod)
  PROVE  IsFiniteSet(S) /\ Cardinality(S) <= RateLimit
<1> DEFINE T == Unbacked(filed, u, now - RatePeriod)
<1>1. IsFiniteSet(T) /\ Cardinality(T) <= RateLimit
  BY DEF LimitOK
<1> HIDE DEF T
<1>2. S \in SUBSET T
  BY DEF T
<1>3. IsFiniteSet(S) /\ Cardinality(S) <= Cardinality(T)
  BY <1>1, <1>2, FS_Subset
<1>4. Cardinality(S) \in Nat /\ Cardinality(T) \in Nat /\ RateLimit \in Nat
  BY <1>1, <1>3, FS_CardinalityType, UserReportsAssumption
<1> QED
  BY <1>1, <1>3, <1>4

LEMMA LimitStep ==
  ASSUME IInv, KnownOK(rows, now, filed), LimitOK(filed, now), [Next]_vars
  PROVE  LimitOK(filed', now')
<1>1. /\ now \in Nat /\ filed \in SUBSET Filing /\ RatePeriod \in Nat
      /\ RateLimit \in Nat /\ \A x \in filed : x.at \in Nat
  BY UserReportsAssumption DEF IInv, Typed, Filing
<1> SUFFICES ASSUME RateLimit > 0, RatePeriod <= Retention, NEW v \in Users
             PROVE  LET S == Unbacked(filed', v, now' - RatePeriod)
                    IN  IsFiniteSet(S) /\ Cardinality(S) <= RateLimit
  BY DEF LimitOK
<1> DEFINE S == Unbacked(filed', v, now' - RatePeriod)
<1>2. CASE filed' = filed /\ now' \in {now, now + 1}
  <2>1. \A x \in filed : x.at >= now' - RatePeriod => x.at >= now - RatePeriod
    BY <1>1, <1>2
  <2>2. S \in SUBSET Unbacked(filed, v, now - RatePeriod)
    BY <1>2, <2>1 DEF Unbacked
  <2> HIDE DEF S
  <2> QED
    BY <2>2, FewerCount DEF S
<1>3. ASSUME NEW fails, NEW u \in Users, NEW m \in Messages,
             DirectUserReport(u, m, fails)
      PROVE  IsFiniteSet(S) /\ Cardinality(S) <= RateLimit
  <2> DEFINE y == [msg |-> m, by |-> u, at |-> now]
  <2>1. /\ now' = now + 1 /\ ~RateLimited(u) /\ filed \in SUBSET filed'
        /\ filed' \in SUBSET (filed \cup {y})
    BY <1>3 DEF DirectUserReport
  <2>2. filed' \in SUBSET Filing /\ y.by = u
    BY <1>1, <2>1 DEF Filing
  <2>3. \A q : ~QuorumIn(filed', q) => ~QuorumIn(filed, q)
    BY <2>1, <2>2, QuorumStays
  <2> HIDE DEF y
  <2>4. CASE v # u
    <3>1. \A x \in filed : x.at >= now' - RatePeriod => x.at >= now - RatePeriod
      BY <1>1, <2>1
    <3>2. S \in SUBSET Unbacked(filed, v, now - RatePeriod)
      BY <2>1, <2>2, <2>3, <2>4, <3>1 DEF Unbacked
    <3> HIDE DEF S
    <3> QED
      BY <3>2, FewerCount
  <2>5. CASE v = u
    <3> DEFINE before == Unbacked(filed, u, now + 1 - RatePeriod)
    <3>1. /\ IsFiniteSet(before) /\ Cardinality(before) \in Nat
          /\ Cardinality(before) < RateLimit
      BY <2>1, CountedByLimit
    <3>2. S \in SUBSET (before \cup {y})
      <4> SUFFICES ASSUME NEW x \in S, x # y PROVE x \in before
        OBVIOUS
      <4>1. /\ x \in filed' /\ x.by = v /\ x.at >= now' - RatePeriod
            /\ ~QuorumIn(filed', x.msg)
        BY DEF Unbacked
      <4>2. x \in filed /\ ~QuorumIn(filed, x.msg)
        BY <2>1, <2>3, <4>1
      <4>3. x.by = u /\ x.at >= now + 1 - RatePeriod
        BY <1>1, <2>1, <2>5, <4>1, <4>2
      <4> QED
        BY <4>2, <4>3 DEF Unbacked
    <3> HIDE DEF S, before
    <3>3. /\ IsFiniteSet(before \cup {y})
          /\ Cardinality(before \cup {y})
               = IF y \in before THEN Cardinality(before)
                                 ELSE Cardinality(before) + 1
      BY <3>1, FS_AddElement, Zenon
    <3>4. Cardinality(before \cup {y}) <= RateLimit
      BY <1>1, <3>1, <3>3
    <3>5. IsFiniteSet(S) /\ Cardinality(S) <= Cardinality(before \cup {y})
      BY <3>2, <3>3, FS_Subset
    <3>6. Cardinality(S) \in Nat /\ Cardinality(before \cup {y}) \in Nat
      BY <3>3, <3>5, FS_CardinalityType
    <3> QED
      BY <1>1, <3>4, <3>5, <3>6
  <2> QED
    BY <2>4, <2>5
<1>4. \/ filed' = filed /\ now' \in {now, now + 1}
      \/ \E u \in Users, m \in Messages : \E fails :
           DirectUserReport(u, m, fails)
  <2>1. ASSUME NEW fails, NEW k \in clicks, HandleReportCallback(k, fails)
        PROVE  filed' = filed /\ now' = now
    BY <2>1 DEF HandleReportCallback, CallbackNoReports, CallbackReportBan,
                CallbackReportReject, CallbackReportBanReporterAsk,
                CallbackReportBanReporterConfirm, CallbackReportCancel, Handle
  <2>2. \/ UNCHANGED <<filed, now>> \/ Tick
        \/ \E u \in Users, m \in Messages : \E fails :
             DirectUserReport(u, m, fails)
        \/ \E k \in clicks : \E fails : HandleReportCallback(k, fails)
    BY DEF Next, vars, AddApprovedUser, AdminClick
  <2>3. ASSUME Tick PROVE filed' = filed /\ now' = now + 1
    BY <2>3 DEF Tick
  <2> QED
    BY <2>1, <2>2, <2>3
<1> QED
  BY <1>2, <1>3, <1>4

(* The way round the rate limit takes a quorum: of a member's reports of   *)
(* one period, those about messages without one are never more than the    *)
(* limit, for any group, periods and failures (reports.go,                 *)
(* checkReportRateLimit; storage/reports.go, cleanupOldReports and         *)
(* DeleteByMessage).                                                       *)
THEOREM ReportsLimited == Spec => []UnbackedReportsWithinLimit
<1> DEFINE Limited == KnownOK(rows, now, filed) /\ LimitOK(filed, now)
<1>1. Init => Limited
  <2> SUFFICES ASSUME Init PROVE Limited
    OBVIOUS
  <2>1. rows = {} /\ filed = {}
    BY DEF Init
  <2>2. \A u, since : Unbacked(filed, u, since) = {}
    BY <2>1 DEF Unbacked
  <2>3. IsFiniteSet({}) /\ Cardinality({}) = 0
    BY FS_EmptySet
  <2>4. KnownOK(rows, now, filed)
    BY <2>1, <2>3 DEF KnownOK
  <2>5. LimitOK(filed, now)
    <3> SUFFICES ASSUME NEW u \in Users
                 PROVE  LET S == Unbacked(filed, u, now - RatePeriod)
                        IN  IsFiniteSet(S) /\ Cardinality(S) <= RateLimit
      BY DEF LimitOK
    <3>1. 0 <= RateLimit
      BY UserReportsAssumption
    <3>2. Unbacked(filed, u, now - RatePeriod) = {}
      BY <2>2
    <3> QED
      BY <2>3, <3>1, <3>2
  <2> QED
    BY <2>4, <2>5
<1>2. IInv /\ Limited /\ [Next]_vars => Limited'
  BY KnownStep, LimitStep
<1>3. Limited => UnbackedReportsWithinLimit
  BY DEF LimitOK, Unbacked, UnbackedReportsWithinLimit, HadQuorum, QuorumIn,
         ReportersOf
<1> HIDE DEF Limited
<1> QED
  BY <1>1, <1>2, <1>3, Invariance, PTL DEF Spec

-----------------------------------------------------------------------------
(* The automatic ban. *)

(* The history is made of members, so there are finitely many reports.     *)
LEMMA ReportsFinite ==
  ASSUME IInv, NEW m
  PROVE  IsFiniteSet(About(rows, m)) /\ Cardinality(About(rows, m)) \in Nat
<1>1. TableOK(rows, now, filed) /\ filed \in SUBSET Filing
  BY DEF IInv, Typed
<1> QED
  BY <1>1, ReportsHaveReporters

LEMMA StoredFinite ==
  ASSUME IInv, NEW u \in Users, NEW m \in Messages, NEW fails,
         NEW stored, stored = Add(u, m, fails), NEW q
  PROVE  /\ IsFiniteSet(About(stored, q)) /\ Cardinality(About(stored, q)) \in Nat
         /\ stored \in SUBSET Row
         /\ q # m => About(stored, q) \in SUBSET About(rows, q)
<1>1. PICK new \in Row :
           /\ new.msg = m /\ new.by = u /\ new.at = now /\ ~new.sent
           /\ Add(u, m, fails) \in SUBSET (rows \cup {new})
  BY AddedRow
<1>2. About(stored, q) \in SUBSET (About(rows, q) \cup {new})
  BY <1>1 DEF About
<1>3. IsFiniteSet(About(rows, q) \cup {new})
  BY ReportsFinite, FS_AddElement
<1>4. IsFiniteSet(About(stored, q))
  BY <1>2, <1>3, FS_Subset
<1>5. q # m => About(stored, q) \in SUBSET About(rows, q)
  BY <1>1 DEF About
<1>6. stored \in SUBSET Row
  BY <1>1 DEF IInv, Typed
<1> QED
  BY <1>4, <1>5, <1>6, FS_CardinalityType

LEMMA SettleReport ==
  ASSUME IInv, AutoBanSettles, NEW u \in Users, NEW m \in Messages,
         NEW fails, fails \cap Ending = {}, DirectUserReport(u, m, fails),
         setting.fails \cap Ending = {}, AutoBanThreshold > 0, NEW q \in Messages
  PROVE  Cardinality(About(rows', q)) < AutoBanThreshold
<1>1. PICK stored : stored = Add(u, m, fails)
  OBVIOUS
<1>2. /\ IsFiniteSet(About(stored, q)) /\ Cardinality(About(stored, q)) \in Nat
      /\ IsFiniteSet(About(rows, q)) /\ Cardinality(About(rows, q)) \in Nat
      /\ stored \in SUBSET Row
      /\ q # m => About(stored, q) \in SUBSET About(rows, q)
  BY <1>1, StoredFinite, ReportsFinite
<1>3. Left(rows', stored, m)
  BY <1>1, ReportLeaves
<1>4. /\ IsFiniteSet(About(rows', q))
      /\ Cardinality(About(rows', q)) <= Cardinality(About(stored, q))
  BY <1>2, <1>3, LeavesNoMore
<1>5. Cardinality(About(rows', q)) \in Nat /\ AutoBanThreshold \in Nat
  BY <1>4, FS_CardinalityType, UserReportsAssumption
<1>6. CASE q # m
  <2>1. Cardinality(About(stored, q)) <= Cardinality(About(rows, q))
    BY <1>2, <1>6, FS_Subset
  <2>2. Cardinality(About(rows, q)) < AutoBanThreshold
    BY DEF AutoBanSettles
  <2> QED
    BY <1>2, <1>4, <1>5, <2>1, <2>2
<1>7. CASE q = m
  <2>1. CheckReportThreshold(m, stored, fails)
    BY <1>1 DEF DirectUserReport
  <2>2. CASE AutoBanReached(About(stored, m))
    <3>1. PICK first : ExecuteAutoBan(m, first, stored, fails)
      BY <2>1, <2>2 DEF CheckReportThreshold, Ending
    <3>2. rows' = {r \in stored : r.msg # m}
      BY <3>1 DEF ExecuteAutoBan, DeleteByMessage, Ending
    <3>3. About(rows', q) = {}
      BY <1>7, <3>2 DEF About
    <3> QED
      BY <1>5, <3>3, FS_EmptySet
  <2>3. CASE ~AutoBanReached(About(stored, m))
    <3>1. Cardinality(About(stored, q)) < AutoBanThreshold
      BY <1>2, <1>5, <1>7, <2>3 DEF AutoBanReached
    <3> QED
      BY <1>2, <1>4, <1>5, <3>1
  <2> QED
    BY <2>2, <2>3
<1> QED
  BY <1>6, <1>7

LEMMA SettleStep ==
  ASSUME IInv, AutoBanSettles, [Next]_vars
  PROVE  AutoBanSettles'
<1>0. setting' = setting
  BY DEF Next, vars
<1> SUFFICES ASSUME setting.fails \cap Ending = {}
             PROVE  AutoBanSettles'
  BY <1>0 DEF AutoBanSettles
<1>1. CASE \A fails \in SUBSET setting.fails, u \in Users, m \in Messages :
              ~DirectUserReport(u, m, fails)
  <2>1. rows' \in SUBSET rows
    BY <1>1, OtherStepsTake
  <2>2. ASSUME NEW m \in Messages, AutoBanThreshold > 0
        PROVE  Cardinality(About(rows', m)) < AutoBanThreshold
    <3>1. About(rows', m) \in SUBSET About(rows, m)
      BY <2>1 DEF About
    <3>2. IsFiniteSet(About(rows, m)) /\ Cardinality(About(rows, m)) \in Nat
      BY ReportsFinite
    <3>3. IsFiniteSet(About(rows', m))
          /\ Cardinality(About(rows', m)) <= Cardinality(About(rows, m))
      BY <3>1, <3>2, FS_Subset
    <3>4. Cardinality(About(rows', m)) \in Nat
      BY <3>3, FS_CardinalityType
    <3>5. Cardinality(About(rows, m)) < AutoBanThreshold
      BY <2>2 DEF AutoBanSettles
    <3> QED
      BY <3>2, <3>3, <3>4, <3>5, UserReportsAssumption
  <2> QED
    BY <2>2 DEF AutoBanSettles
<1>2. ASSUME NEW fails \in SUBSET setting.fails, NEW u \in Users, NEW m \in Messages,
             DirectUserReport(u, m, fails)
      PROVE  AutoBanSettles'
  <2>1. fails \cap Ending = {}
    OBVIOUS
  <2> QED
    BY <1>2, <2>1, SettleReport DEF AutoBanSettles
<1> QED
  BY <1>1, <1>2

(* As long as the reports can be read, the admins told and the reports     *)
(* deleted, a message never keeps AutoBanThreshold reports, for any group  *)
(* and thresholds and whatever else fails (reports.go,                     *)
(* checkReportThreshold and executeAutoBan).                               *)
THEOREM AutoBanEnds == Spec => []AutoBanSettles
<1>1. Init => AutoBanSettles
  <2>1. Init => \A m : About(rows, m) = {}
    BY DEF Init, About
  <2>2. Cardinality({}) = 0
    BY FS_EmptySet
  <2> QED
    BY <2>1, <2>2, UserReportsAssumption DEF AutoBanSettles
<1>2. IInv /\ AutoBanSettles /\ [Next]_vars => AutoBanSettles'
  BY SettleStep
<1> QED
  BY <1>1, <1>2, Invariance, PTL DEF Spec

-----------------------------------------------------------------------------
(* The admins are asked. *)

(* Some notification about m has live buttons. *)
OpenIn(chat, m) ==
  \E id \in DOMAIN chat : chat[id].msg = m /\ chat[id].keyboard # NoKeyboard

(* QuorumIsNotified is not inductive: a quorum may come back when the      *)
(* notification its oldest report names is there already.  So that one     *)
(* must be open whenever a report names it.                                *)
CasesOpen(table, chat) ==
  /\ \A r \in table : r.sent => chat[r.note].keyboard # NoKeyboard
  /\ \A m \in Messages :
       Cardinality(About(table, m)) >= Threshold => OpenIn(chat, m)

(* A handler about m leaves the notifications of other messages alone, and *)
(* adds no reports about them.  For m it keeps the case open, or leaves no *)
(* reports.                                                                *)
LEMMA CaseStep ==
  ASSUME IInv, CasesOpen(rows, notes), NEW m,
         \A id \in DOMAIN notes : notes[id].msg # m =>
           id \in DOMAIN notes' /\ notes'[id] = notes[id],
         \A r \in rows' : r.msg # m => r \in rows,
         \/ About(rows', m) = {}
         \/ /\ \A r \in rows' : r.msg = m /\ r.sent =>
                 notes'[r.note].keyboard # NoKeyboard
            /\ Cardinality(About(rows', m)) >= Threshold => OpenIn(notes', m)
  PROVE  CasesOpen(rows', notes')
<1>3. FlagsOK(rows, notes) /\ \A q : IsFiniteSet(About(rows, q))
  BY ReportsFinite DEF IInv
<1>1. ASSUME NEW r \in rows', r.sent
      PROVE  notes'[r.note].keyboard # NoKeyboard
  <2>1. CASE r.msg = m
    BY <1>1, <2>1 DEF About
  <2>2. CASE r.msg # m
    <3>1. /\ r \in rows /\ r.note \in DOMAIN notes /\ notes[r.note].msg # m
          /\ notes[r.note].keyboard # NoKeyboard
      BY <1>1, <1>3, <2>2 DEF FlagsOK, CasesOpen
    <3> QED
      BY <3>1
  <2> QED
    BY <2>1, <2>2
<1>2. ASSUME NEW q \in Messages, Cardinality(About(rows', q)) >= Threshold
      PROVE  OpenIn(notes', q)
  <2>1. CASE q = m
    <3>1. About(rows', q) # {}
      <4>1. Cardinality({}) = 0
        BY FS_EmptySet
      <4>2. ~(0 >= Threshold)
        BY UserReportsAssumption
      <4> QED
        BY <1>2, <4>1, <4>2
    <3> QED
      BY <1>2, <2>1, <3>1
  <2>2. CASE q # m
    <3>1. About(rows', q) \in SUBSET About(rows, q)
      BY <2>2 DEF About
    <3>2. /\ Cardinality(About(rows', q)) <= Cardinality(About(rows, q))
          /\ IsFiniteSet(About(rows', q))
      BY <1>3, <3>1, FS_Subset
    <3>3. /\ Cardinality(About(rows', q)) \in Nat
          /\ Cardinality(About(rows, q)) \in Nat
      BY <1>3, <3>2, FS_CardinalityType
    <3>4. Cardinality(About(rows, q)) >= Threshold
      BY <1>2, <3>2, <3>3, UserReportsAssumption
    <3>5. PICK id \in DOMAIN notes :
             notes[id].msg = q /\ notes[id].keyboard # NoKeyboard
      BY <3>4 DEF CasesOpen, OpenIn
    <3>6. id \in DOMAIN notes' /\ notes'[id] = notes[id]
      BY <2>2, <3>5
    <3> QED
      BY <3>5, <3>6 DEF OpenIn
  <2> QED
    BY <2>1, <2>2
<1> QED
  BY <1>1, <1>2 DEF CasesOpen

(* An edit of a notification, or its failure, as far as others see it. *)
LEMMA EditedChat ==
  ASSUME notes \in Seq(Note), NEW id \in DOMAIN notes,
         NEW keyboard \in SUBSET Key, NEW fails, NEW more,
         more = Edit(id, keyboard, fails)
  PROVE  /\ DOMAIN more = DOMAIN notes /\ more[id].msg = notes[id].msg
         /\ more[id].keyboard \in {notes[id].keyboard, keyboard}
         /\ \A j \in DOMAIN notes :
              /\ more[j].msg = notes[j].msg
              /\ j # id => more[j] = notes[j]
              /\ keyboard # NoKeyboard /\ notes[j].keyboard # NoKeyboard =>
                   more[j].keyboard # NoKeyboard
<1>1. CASE "edit" \in fails
  BY <1>1 DEF Edit
<1>2. CASE "edit" \notin fails
  <2>1. more = Edited(notes, id, keyboard)
    BY <1>2 DEF Edit, Edited
  <2> QED
    BY <2>1, EditGrows DEF Grown
<1> QED
  BY <1>1, <1>2

(* The keyboards of a case are not empty. *)
LEMMA LiveKeyboards ==
  ASSUME NEW m \in Messages, TableOK(rows, now, filed)
  PROVE  /\ ActionKeyboard(m) # NoKeyboard
         /\ ReporterKeyboard(m, About(rows, m)) # NoKeyboard
         /\ NoKeyboard \in SUBSET Key /\ ActionKeyboard(m) \in SUBSET Key
         /\ ReporterKeyboard(m, About(rows, m)) \in SUBSET Key
<1>1. /\ NoKeyboard \in SUBSET Key /\ ActionKeyboard(m) \in SUBSET Key
      /\ ReporterKeyboard(m, About(rows, m)) \in SUBSET Key
  BY KeyboardsName DEF KeysOf
<1>2. [button |-> "R+", user |-> Author[m]] \in ActionKeyboard(m)
  BY DEF ActionKeyboard
<1>3. [button |-> "RX", user |-> Author[m]]
        \in ReporterKeyboard(m, About(rows, m))
  BY DEF ReporterKeyboard
<1> QED
  BY <1>1, <1>2, <1>3 DEF NoKeyboard

LEMMA AskedReport ==
  ASSUME IInv, HasAdminChat, CasesOpen(rows, notes), NEW u \in Users,
         NEW m \in Messages, NEW fails, fails \cap Asking = {},
         DirectUserReport(u, m, fails)
  PROVE  CasesOpen(rows', notes')
<1>1. PICK stored : stored = Add(u, m, fails)
  OBVIOUS
<1>2. PICK new \in Row :
           /\ new.msg = m /\ new.by = u /\ new.at = now /\ ~new.sent
           /\ Add(u, m, fails) \in SUBSET (rows \cup {new})
  BY AddedRow
<1>3. /\ notes \in Seq(Note) /\ FlagsOK(rows, notes) /\ TableOK(rows, now, filed)
      /\ \A q : IsFiniteSet(About(rows, q))
  BY ReportsFinite DEF IInv, Typed
<1>4. /\ \A r \in stored : (r.msg # m \/ r.sent) => r \in rows
      /\ stored \in SUBSET Row
  BY <1>1, <1>2, StoredFinite
<1>5. \A r \in stored : r.sent =>
        /\ r.note \in DOMAIN notes /\ notes[r.note].msg = r.msg
        /\ notes[r.note].keyboard # NoKeyboard
  BY <1>3, <1>4 DEF FlagsOK, CasesOpen
<1>6. \A first \in Oldest(About(stored, m)) : first \in stored /\ first.msg = m
  BY DEF Oldest, About
<1>7. CheckReportThreshold(m, stored, fails)
  BY <1>1 DEF DirectUserReport
<1>8. /\ ActionKeyboard(m) # NoKeyboard /\ ActionKeyboard(m) \in SUBSET Key
      /\ NoKeyboard \in SUBSET Key
  BY <1>3, LiveKeyboards
<1>9. ASSUME NEW keyboard \in SUBSET Key, notes' = Post(m, keyboard, fails)
      PROVE  /\ Len(notes) + 1 \in DOMAIN notes' /\ Grown(notes, notes')
             /\ notes'[Len(notes) + 1].msg = m
             /\ notes'[Len(notes) + 1].keyboard = keyboard
             /\ \A j \in DOMAIN notes : j \in DOMAIN notes' /\ notes'[j] = notes[j]
  <2> DEFINE n == [msg |-> m, keyboard |-> keyboard]
  <2>1. notes' = Posted(notes, n) /\ n \in Note /\ n.msg = m /\ n.keyboard = keyboard
    BY <1>9 DEF Post, Posted, Asking, Note
  <2> HIDE DEF n
  <2>2. /\ Grown(notes, notes') /\ Len(notes) + 1 \in DOMAIN notes'
        /\ notes'[Len(notes) + 1] = n
    BY <1>3, <2>1, PostGrows
  <2>3. \A j \in DOMAIN notes : j \in DOMAIN notes' /\ notes'[j] = notes[j]
    BY <1>3, <2>1 DEF Posted
  <2> QED
    BY <2>1, <2>2, <2>3
<1>10. ASSUME NEW first \in Oldest(About(stored, m)), NEW keyboard \in SUBSET Key,
              first.sent, notes' = Edit(first.note, keyboard, fails)
       PROVE  /\ \A id \in DOMAIN notes : notes[id].msg # m =>
                   id \in DOMAIN notes' /\ notes'[id] = notes[id]
              /\ keyboard # NoKeyboard => OpenIn(notes', m)
              /\ keyboard # NoKeyboard => \A id \in DOMAIN notes :
                   notes[id].keyboard # NoKeyboard =>
                     notes'[id].keyboard # NoKeyboard
  <2>1. /\ first.note \in DOMAIN notes /\ notes[first.note].msg = m
        /\ notes[first.note].keyboard # NoKeyboard
    BY <1>5, <1>6, <1>10
  <2>2. /\ DOMAIN notes' = DOMAIN notes
        /\ \A j \in DOMAIN notes :
              /\ notes'[j].msg = notes[j].msg
              /\ j # first.note => notes'[j] = notes[j]
              /\ keyboard # NoKeyboard /\ notes[j].keyboard # NoKeyboard =>
                   notes'[j].keyboard # NoKeyboard
    BY <1>3, <1>10, <2>1, EditedChat
  <2> QED
    BY <2>1, <2>2 DEF OpenIn
<1>11. CASE AutoBanReached(About(stored, m))
  <2>1. PICK first \in Oldest(About(stored, m)) :
           ExecuteAutoBan(m, first, stored, fails)
    BY <1>7, <1>11 DEF CheckReportThreshold, Asking
  <2>2. /\ notes' = IF first.sent THEN Edit(first.note, NoKeyboard, fails)
                    ELSE Post(m, NoKeyboard, fails)
        /\ rows' = IF first.sent /\ "edit" \in fails THEN stored
                   ELSE {r \in stored : r.msg # m}
    BY <2>1 DEF ExecuteAutoBan, DeleteByMessage, Asking
  <2>3. CASE first.sent /\ "edit" \in fails
    <3>1. notes' = notes /\ rows' = stored
      BY <2>2, <2>3 DEF Edit
    <3>2. OpenIn(notes, m)
      BY <1>5, <1>6, <2>3 DEF OpenIn
    <3> QED
      BY <1>3, <1>4, <1>5, <3>1, <3>2, CaseStep
  <2>4. CASE ~(first.sent /\ "edit" \in fails)
    <3>1. rows' = {r \in stored : r.msg # m}
      BY <2>2, <2>4
    <3>2. About(rows', m) = {} /\ \A r \in rows' : r.msg # m => r \in rows
      BY <1>4, <3>1 DEF About
    <3>3. \A id \in DOMAIN notes : notes[id].msg # m =>
             id \in DOMAIN notes' /\ notes'[id] = notes[id]
      BY <1>8, <1>9, <1>10, <2>2
    <3> QED
      BY <1>3, <3>2, <3>3, CaseStep
  <2> QED
    BY <2>3, <2>4
<1>12. CASE ~AutoBanReached(About(stored, m)) /\ QuorumReached(About(stored, m))
  <2>1. PICK first \in Oldest(About(stored, m)) :
           IF first.sent
           THEN UpdateReportNotification(m, first, stored, fails)
           ELSE SendReportNotification(m, stored, fails)
    BY <1>7, <1>12 DEF CheckReportThreshold, Asking
  <2>2. CASE first.sent
    <3>1. notes' = Edit(first.note, ActionKeyboard(m), fails) /\ rows' = stored
      BY <2>1, <2>2 DEF UpdateReportNotification
    <3>2. /\ \A id \in DOMAIN notes : notes[id].msg # m =>
               id \in DOMAIN notes' /\ notes'[id] = notes[id]
          /\ OpenIn(notes', m)
          /\ \A id \in DOMAIN notes : notes[id].keyboard # NoKeyboard =>
               notes'[id].keyboard # NoKeyboard
      BY <1>8, <1>10, <2>2, <3>1
    <3>3. \A r \in rows' : r.msg = m /\ r.sent => notes'[r.note].keyboard # NoKeyboard
      BY <1>5, <3>1, <3>2
    <3>4. \A r \in rows' : r.msg # m => r \in rows
      BY <1>4, <3>1
    <3>5. \/ About(rows', m) = {}
          \/ /\ \A r \in rows' : r.msg = m /\ r.sent =>
                   notes'[r.note].keyboard # NoKeyboard
             /\ Cardinality(About(rows', m)) >= Threshold => OpenIn(notes', m)
      BY <3>2, <3>3
    <3>6. \A id \in DOMAIN notes : notes[id].msg # m =>
             id \in DOMAIN notes' /\ notes'[id] = notes[id]
      BY <3>2
    <3> QED
      BY <1>3, <3>4, <3>5, <3>6, CaseStep
  <2>3. CASE ~first.sent
    <3>1. /\ notes' = Post(m, ActionKeyboard(m), fails)
          /\ rows' = UpdateAdminMsgID(stored, m, Len(notes) + 1, fails)
      BY <2>1, <2>3 DEF SendReportNotification, Asking
    <3>2. /\ Len(notes) + 1 \in DOMAIN notes' /\ notes'[Len(notes) + 1].msg = m
          /\ notes'[Len(notes) + 1].keyboard # NoKeyboard
          /\ \A j \in DOMAIN notes : j \in DOMAIN notes' /\ notes'[j] = notes[j]
      BY <1>8, <1>9, <3>1
    <3>3. OpenIn(notes', m)
      BY <3>2 DEF OpenIn
    <3>4. /\ \A r \in rows' : r.msg # m => r \in rows
          /\ \A r \in rows' : r.msg = m /\ r.sent =>
               notes'[r.note].keyboard # NoKeyboard
      <4>1. CASE rows' = stored
        BY <1>4, <1>5, <3>2, <4>1
      <4>2. CASE rows' = {Mark(r, m, Len(notes) + 1) : r \in stored}
        <5>1. Len(notes) + 1 \in Nat
          BY <1>3
        <5>2. ASSUME NEW r \in stored
              PROVE  LET s == Mark(r, m, Len(notes) + 1)
                     IN  /\ s.msg = r.msg
                         /\ s.msg # m => s \in rows
                         /\ s.msg = m => s.note = Len(notes) + 1
          BY <1>4, <5>1, MarkedRow
        <5> QED
          BY <3>2, <4>2, <5>2
      <4> QED
        BY <3>1, <4>1, <4>2 DEF UpdateAdminMsgID, Mark
    <3>5. \A id \in DOMAIN notes : notes[id].msg # m =>
             id \in DOMAIN notes' /\ notes'[id] = notes[id]
      BY <3>2
    <3>6. \/ About(rows', m) = {}
          \/ /\ \A r \in rows' : r.msg = m /\ r.sent =>
                   notes'[r.note].keyboard # NoKeyboard
             /\ Cardinality(About(rows', m)) >= Threshold => OpenIn(notes', m)
      BY <3>3, <3>4
    <3>7. \A r \in rows' : r.msg # m => r \in rows
      BY <3>4
    <3> QED
      BY <1>3, <3>5, <3>6, <3>7, CaseStep
  <2> QED
    BY <2>2, <2>3
<1>13. CASE ~AutoBanReached(About(stored, m)) /\ ~QuorumReached(About(stored, m))
  <2>1. rows' = stored /\ notes' = notes
    BY <1>7, <1>13 DEF CheckReportThreshold, Asking
  <2>2. ~(Cardinality(About(stored, m)) >= Threshold)
    BY <1>13 DEF QuorumReached
  <2> QED
    BY <1>3, <1>4, <1>5, <2>1, <2>2, CaseStep
<1> QED
  BY <1>11, <1>12, <1>13

LEMMA AskedCallback ==
  ASSUME IInv, CasesOpen(rows, notes), NEW k \in clicks, NEW fails,
         fails \cap Asking = {}, HandleReportCallback(k, fails)
  PROVE  CasesOpen(rows', notes')
<1> DEFINE m == CaseOf(k)
<1>1. /\ notes \in Seq(Note) /\ k.note \in DOMAIN notes
      /\ FlagsOK(rows, notes) /\ TableOK(rows, now, filed)
  BY DEF IInv, Typed
<1>2. m \in Messages /\ notes[k.note].msg = m
  <2>1. notes[k.note] \in Note
    BY <1>1
  <2> QED
    BY <2>1 DEF CaseOf, Note
<1>3. /\ ActionKeyboard(m) # NoKeyboard
      /\ ReporterKeyboard(m, About(rows, m)) # NoKeyboard
      /\ NoKeyboard \in SUBSET Key /\ ActionKeyboard(m) \in SUBSET Key
      /\ ReporterKeyboard(m, About(rows, m)) \in SUBSET Key
  BY <1>1, <1>2, LiveKeyboards
<1>4. CASE CallbackNoReports(k, fails)
  BY <1>4 DEF CallbackNoReports, CasesOpen
(* The case ends: no report is left. *)
<1>5. ASSUME rows' = {r \in rows : r.msg # m},
             notes' = Edit(k.note, NoKeyboard, fails)
      PROVE  CasesOpen(rows', notes')
  <2>1. About(rows', m) = {} /\ \A r \in rows' : r.msg # m => r \in rows
    BY <1>5 DEF About
  <2>2. \A id \in DOMAIN notes : notes[id].msg # m =>
          id \in DOMAIN notes' /\ notes'[id] = notes[id]
    BY <1>1, <1>2, <1>3, <1>5, EditedChat
  <2> QED
    BY <2>1, <2>2, CaseStep
(* The case goes on: nothing is closed. *)
<1>6. ASSUME rows' \in SUBSET rows, NEW keyboard \in SUBSET Key,
             keyboard # NoKeyboard, notes' = Edit(k.note, keyboard, fails)
      PROVE  CasesOpen(rows', notes')
  <2>1. /\ DOMAIN notes' = DOMAIN notes
        /\ \A j \in DOMAIN notes :
              /\ notes'[j].msg = notes[j].msg
              /\ j # k.note => notes'[j] = notes[j]
              /\ notes[j].keyboard # NoKeyboard => notes'[j].keyboard # NoKeyboard
    BY <1>1, <1>6, EditedChat
  <2>2. \A id \in DOMAIN notes : notes[id].msg # m =>
          id \in DOMAIN notes' /\ notes'[id] = notes[id]
    BY <1>2, <2>1
  <2>3. \A r \in rows' : r.sent => notes'[r.note].keyboard # NoKeyboard
    BY <1>1, <1>6, <2>1 DEF CasesOpen, FlagsOK
  <2>4. Cardinality(About(rows', m)) >= Threshold => OpenIn(notes', m)
    <3>1. About(rows', m) \in SUBSET About(rows, m)
      BY <1>6 DEF About
    <3>2. IsFiniteSet(About(rows, m)) /\ Cardinality(About(rows, m)) \in Nat
      BY ReportsFinite
    <3>3. /\ Cardinality(About(rows', m)) <= Cardinality(About(rows, m))
          /\ IsFiniteSet(About(rows', m))
      BY <3>1, <3>2, FS_Subset
    <3>4. Cardinality(About(rows', m)) \in Nat
      BY <3>3, FS_CardinalityType
    <3>5. Cardinality(About(rows', m)) >= Threshold => OpenIn(notes, m)
      BY <1>2, <3>2, <3>3, <3>4, UserReportsAssumption DEF CasesOpen
    <3> QED
      BY <2>1, <3>5 DEF OpenIn
  <2>5. \A r \in rows' : r.msg # m => r \in rows
    BY <1>6
  <2> QED
    BY <2>2, <2>3, <2>4, <2>5, CaseStep
<1>7. CASE CallbackReportBan(k, fails) \/ CallbackReportReject(k, fails)
  <2>1. /\ rows' = {r \in rows : r.msg # m}
        /\ notes' = Edit(k.note, NoKeyboard, fails)
    BY <1>7 DEF CallbackReportBan, CallbackReportReject, DeleteByMessage, Asking
  <2> QED
    BY <1>5, <2>1
<1>8. CASE CallbackReportBanReporterAsk(k, fails)
  <2>1. /\ rows' = rows
        /\ notes' = Edit(k.note, ReporterKeyboard(m, About(rows, m)), fails)
    BY <1>8 DEF CallbackReportBanReporterAsk
  <2> QED
    BY <1>3, <1>6, <2>1
<1>9. CASE CallbackReportBanReporterConfirm(k, fails)
  <2> DEFINE left == DeleteReporter(rows, k.user, m, fails)
             over == "reread" \in fails \/ About(left, m) = {}
  <2>1. /\ rows' = IF over THEN DeleteByMessage(left, m, fails) ELSE left
        /\ notes' = Edit(k.note, IF over THEN NoKeyboard ELSE ActionKeyboard(m),
                         fails)
    BY <1>9 DEF CallbackReportBanReporterConfirm
  <2>2. left \in SUBSET rows /\ \A r \in rows : r.msg # m => r \in left
    BY DEF DeleteReporter
  <2> HIDE DEF left, m
  <2>3. CASE over
    <3>1. /\ rows' = DeleteByMessage(left, m, fails)
          /\ notes' = Edit(k.note, NoKeyboard, fails)
      BY <2>1, <2>3
    <3>2. rows' = {r \in rows : r.msg # m}
      BY <2>2, <3>1 DEF DeleteByMessage, Asking
    <3> QED
      BY <1>5, <3>1, <3>2
  <2>4. CASE ~over
    <3>1. rows' = left /\ notes' = Edit(k.note, ActionKeyboard(m), fails)
      BY <2>1, <2>4
    <3> QED
      BY <1>3, <1>6, <2>2, <3>1
  <2> QED
    BY <2>3, <2>4
<1>10. CASE CallbackReportCancel(k, fails)
  <2>1. rows' = rows /\ notes' = Edit(k.note, ActionKeyboard(m), fails)
    BY <1>10 DEF CallbackReportCancel
  <2> QED
    BY <1>3, <1>6, <2>1
<1> QED
  BY <1>4, <1>7, <1>8, <1>9, <1>10 DEF HandleReportCallback

LEMMA AskedStep ==
  ASSUME setting.fails \cap Asking = {}, HasAdminChat, IInv,
         CasesOpen(rows, notes), [Next]_vars
  PROVE  CasesOpen(rows', notes')
<1>1. CASE UNCHANGED vars \/ Tick
  BY <1>1 DEF vars, Tick, CasesOpen
<1>2. ASSUME NEW u \in Users, AddApprovedUser(u)
      PROVE  CasesOpen(rows', notes')
  BY <1>2 DEF AddApprovedUser, CasesOpen
<1>3. ASSUME NEW a \in Admins, NEW id \in DOMAIN notes,
             NEW key \in notes[id].keyboard, AdminClick(a, id, key)
      PROVE  CasesOpen(rows', notes')
  BY <1>3 DEF AdminClick, CasesOpen
<1>4. ASSUME NEW fails \in SUBSET setting.fails, NEW u \in Users, NEW m \in Messages,
             DirectUserReport(u, m, fails)
      PROVE  CasesOpen(rows', notes')
  <2>1. fails \cap Asking = {}
    OBVIOUS
  <2> QED
    BY <1>4, <2>1, AskedReport
<1>5. ASSUME NEW fails \in SUBSET setting.fails, NEW k \in clicks,
             HandleReportCallback(k, fails)
      PROVE  CasesOpen(rows', notes')
  <2>1. fails \cap Asking = {}
    OBVIOUS
  <2> QED
    BY <1>5, <2>1, AskedCallback
<1> QED
  BY <1>1, <1>2, <1>3, <1>4, <1>5 DEF Next

(* As long as the reports can be read and deleted and messages posted, a   *)
(* message with a quorum of reports is in front of the admins with live    *)
(* buttons, for any group and whatever else fails, the recording and the   *)
(* edits of notifications included (reports.go, checkReportThreshold and   *)
(* the callbacks).                                                         *)
THEOREM QuorumNotified == Spec => []QuorumIsNotified
<1> DEFINE Kept == HasAdminChat /\ setting.fails \cap Asking = {} =>
                     CasesOpen(rows, notes)
<1>1. Init => Kept
  <2>1. Init => rows = {} /\ \A m : About(rows, m) = {}
    BY DEF Init, About
  <2>2. Cardinality({}) = 0
    BY FS_EmptySet
  <2>3. ~(0 >= Threshold)
    BY UserReportsAssumption
  <2> QED
    BY <2>1, <2>2, <2>3 DEF CasesOpen
<1>2. IInv /\ Kept /\ [Next]_vars => Kept'
  <2>1. [Next]_vars => setting' = setting
    BY DEF Next, vars
  <2> QED
    BY <2>1, AskedStep
<1>3. Kept => QuorumIsNotified
  BY DEF CasesOpen, OpenIn, QuorumIsNotified, Open
<1> HIDE DEF Kept
<1> QED
  BY <1>1, <1>2, <1>3, Invariance, PTL DEF Spec

-----------------------------------------------------------------------------
(* UserReports implements ReportCases, with any failing calls but the      *)
(* second read of a confirmed reporter ban.  Every handler takes one step  *)
(* of a case; the invariant above says why the step is allowed there.      *)
(* First the operators of UserReports under the refinement mapping.        *)

(* ReportCases counts with the same operator.                              *)
LEMMA SameCardinality ==
  ASSUME NEW S
  PROVE  Cases!Cardinality(S) = Cardinality(S)
BY DEF Cardinality, Cases!Cardinality

(* The reporters are members.                                              *)
LEMMA ReportersType ==
  ASSUME NEW table, NEW clock, NEW filings, TableOK(table, clock, filings)
  PROVE  Reporters(table) \in [Messages -> SUBSET Users]
BY DEF Reporters, About, TableOK, Row

(* As many reporters as reports: nobody reports a message twice.           *)
LEMMA ReportersCount ==
  ASSUME NEW table, NEW clock, NEW filings, TableOK(table, clock, filings),
         NEW m \in Messages
  PROVE  /\ Cardinality(About(table, m)) \in Nat
         /\ Cardinality(Reporters(table)[m]) \in Nat
         /\ Cardinality(About(table, m)) <= Cardinality(Reporters(table)[m])
<1> DEFINE R == About(table, m)
           S == {r.by : r \in R}
           f == [r \in R |-> r.by]
<1>1. Reporters(table)[m] = S
  BY DEF Reporters
<1>2. S \in SUBSET Users
  BY DEF About, TableOK, Row
<1>3. IsFiniteSet(S) /\ Cardinality(S) \in Nat
  BY <1>2, FS_Subset, FS_CardinalityType, UserReportsAssumption
<1>4. \A r, s \in R : r.by = s.by => r = s
  BY DEF About, TableOK
<1>5. \A r \in R : r.by \in S
  OBVIOUS
<1> HIDE DEF R, S
<1>6. f \in Injection(R, S)
  BY <1>4, <1>5 DEF Injection, IsInjective
<1>7. IsFiniteSet(R) /\ Cardinality(R) <= Cardinality(S)
  BY <1>3, <1>6, FS_Injection
<1>8. Cardinality(R) \in Nat
  BY <1>7, FS_CardinalityType
<1> QED
  BY <1>1, <1>3, <1>7, <1>8 DEF R

(* Deleting the reports about a message leaves those about the others.     *)
LEMMA DeleteReporters ==
  ASSUME NEW table, NEW m \in Messages, NEW fails
  PROVE  Reporters(DeleteByMessage(table, m, fails))
           \in {Reporters(table), [Reporters(table) EXCEPT ![m] = {}]}
<1>1. CASE "delete" \in fails
  BY <1>1 DEF DeleteByMessage
<1>2. CASE "delete" \notin fails
  <2> DEFINE less == {r \in table : r.msg # m}
  <2>1. \A n \in Messages :
          About(less, n) = IF n = m THEN {} ELSE About(table, n)
    BY DEF About
  <2> HIDE DEF less
  <2>2. Reporters(less) = [Reporters(table) EXCEPT ![m] = {}]
    BY <2>1 DEF Reporters
  <2> QED
    BY <1>2, <2>2 DEF DeleteByMessage, less
<1> QED
  BY <1>1, <1>2

(* Deleting the report of one member about a message leaves all others.    *)
LEMMA DeleteOneReporter ==
  ASSUME NEW table, NEW u, NEW m \in Messages, NEW fails
  PROVE  Reporters(DeleteReporter(table, u, m, fails))
           \in {Reporters(table), [Reporters(table) EXCEPT ![m] = @ \ {u}]}
<1>1. CASE "deleteOne" \in fails
  BY <1>1 DEF DeleteReporter
<1>2. CASE "deleteOne" \notin fails
  <2> DEFINE less == {r \in table : ~(r.msg = m /\ r.by = u)}
             by(reports) == {r.by : r \in reports}
  <2>1. \A n \in Messages : n # m => About(less, n) = About(table, n)
    BY DEF About
  <2>2. by(About(less, m)) = by(About(table, m)) \ {u}
    BY DEF About
  <2>3. /\ Reporters(less) = [n \in Messages |-> by(About(less, n))]
        /\ Reporters(table) = [n \in Messages |-> by(About(table, n))]
    BY DEF Reporters
  <2> HIDE DEF less, by
  <2>4. Reporters(less) = [Reporters(table) EXCEPT ![m] = @ \ {u}]
    BY <2>1, <2>2, <2>3
  <2> QED
    BY <1>2, <2>4 DEF DeleteReporter, less
<1> QED
  BY <1>1, <1>2

(* Marking reports with a notification changes no reporter.                *)
LEMMA MarkReporters ==
  ASSUME NEW table \in SUBSET Row, NEW m \in Messages, NEW id \in Nat,
         NEW fails
  PROVE  Reporters(UpdateAdminMsgID(table, m, id, fails)) = Reporters(table)
<1>1. CASE "record" \in fails
  BY <1>1 DEF UpdateAdminMsgID
<1>2. CASE "record" \notin fails
  <2> DEFINE mark(r) == IF r.msg = m
                        THEN [r EXCEPT !.sent = TRUE, !.note = id] ELSE r
             marked == {mark(r) : r \in table}
             by(reports) == {r.by : r \in reports}
  <2>1. \A r \in table : mark(r).msg = r.msg /\ mark(r).by = r.by
    BY DEF Row
  <2>2. UpdateAdminMsgID(table, m, id, fails) = marked
    BY <1>2 DEF UpdateAdminMsgID
  <2> HIDE DEF mark
  <2>3. \A n \in Messages : by(About(marked, n)) = by(About(table, n))
    BY <2>1 DEF About
  <2>4. /\ Reporters(marked) = [n \in Messages |-> by(About(marked, n))]
        /\ Reporters(table) = [n \in Messages |-> by(About(table, n))]
    BY DEF Reporters
  <2> HIDE DEF marked, by
  <2> QED
    BY <2>2, <2>3, <2>4
<1> QED
  BY <1>1, <1>2

(* A report adds its reporter; all else that happens to the table is that  *)
(* old reports go.                                                         *)
LEMMA AddReporters ==
  ASSUME IInv, NEW u \in Users, NEW m \in Messages, NEW fails,
         Reporters(Add(u, m, fails)) \in [Messages -> SUBSET Users]
  PROVE  \A n \in Messages :
           Reporters(Add(u, m, fails))[n]
             \subseteq Reporters(rows)[n] \cup (IF n = m THEN {u} ELSE {})
<1> DEFINE more == Insert(u, m)
           by(reports) == {r.by : r \in reports}
<1>1. Add(u, m, fails) \subseteq more
  BY DEF Add
<1>2. \A r \in more : r \in rows \/ (r.msg = m /\ r.by = u)
  BY DEF Insert
<1> HIDE DEF more
<1>3. \A n \in Messages : by(About(Add(u, m, fails), n))
        \subseteq by(About(rows, n)) \cup (IF n = m THEN {u} ELSE {})
  BY <1>1, <1>2 DEF About
<1>4. \A n \in Messages :
        /\ Reporters(Add(u, m, fails))[n] = by(About(Add(u, m, fails), n))
        /\ Reporters(rows)[n] = by(About(rows, n))
  BY DEF Reporters
<1> QED
  BY <1>3, <1>4

(* The history grows by that reporter, and only by it.                     *)
LEMMA ReportAccuses ==
  ASSUME IInv, NEW u \in Users, NEW m \in Messages, NEW filings,
         filings = IF Insert(u, m) = rows THEN filed
                   ELSE filed \cup {[msg |-> m, by |-> u, at |-> now]}
  PROVE  Accused(filings) = [Accused(filed) EXCEPT ![m] = @ \cup {u}]
<1> DEFINE new == [msg |-> m, by |-> u, at |-> now, sent |-> FALSE, note |-> 0]
           x == [msg |-> m, by |-> u, at |-> now]
<1>1. x.msg = m /\ x.by = u
  OBVIOUS
<1>2. /\ \A n \in Messages : n # m =>
           ReportersIn(filings, n) = ReportersIn(filed, n)
      /\ ReportersIn(filings, m) = ReportersIn(filed, m) \cup {u}
  <2>1. CASE \E r \in rows : r.msg = m /\ r.by = u
    <3>1. filings = filed
      BY <2>1 DEF Insert
    <3>2. u \in ReportersIn(filed, m)
      BY <2>1 DEF IInv, TableOK, ReportersIn
    <3> QED
      BY <3>1, <3>2
  <2>2. CASE ~ \E r \in rows : r.msg = m /\ r.by = u
    <3>1. new \notin rows
      BY <2>2
    <3>2. filings = filed \cup {x}
      BY <2>2, <3>1 DEF Insert
    <3> HIDE DEF x
    <3> QED
      BY <1>1, <3>2 DEF ReportersIn
  <2> QED
    BY <2>1, <2>2
<1> QED
  BY <1>2 DEF Accused

(* An edit asks nothing new.                                               *)
LEMMA EditAsks ==
  ASSUME notes \in Seq(Note), NEW id \in DOMAIN notes,
         NEW keyboard \in SUBSET Key, NEW fails
  PROVE  Asked(Edit(id, keyboard, fails)) = Asked(notes)
<1>1. CASE "edit" \in fails
  BY <1>1 DEF Edit
<1>2. CASE "edit" \notin fails
  <2> DEFINE more == Edited(notes, id, keyboard)
  <2>1. Edit(id, keyboard, fails) = more
    BY <1>2 DEF Edit, Edited
  <2>2. DOMAIN more = DOMAIN notes /\ Grown(notes, more)
    BY EditGrows
  <2> HIDE DEF more
  <2> QED
    BY <2>1, <2>2 DEF Asked, Grown
<1> QED
  BY <1>1, <1>2

(* A new notification is about one message.                                *)
LEMMA PostAsks ==
  ASSUME notes \in Seq(Note), NEW m \in Messages,
         NEW keyboard \in SUBSET Key, NEW fails
  PROVE  Asked(Post(m, keyboard, fails))
           \in {Asked(notes), Asked(notes) \cup {m}}
<1>1. CASE "send" \in fails
  BY <1>1 DEF Post
<1>2. CASE "send" \notin fails
  <2> DEFINE n == [msg |-> m, keyboard |-> keyboard]
             more == Posted(notes, n)
  <2>1. n \in Note /\ n.msg = m
    BY DEF Note
  <2>2. Post(m, keyboard, fails) = more
    BY <1>2 DEF Post, Posted
  <2> HIDE DEF n
  <2>3. /\ Grown(notes, more)
        /\ Len(notes) + 1 \in DOMAIN more
        /\ more[Len(notes) + 1] = n
        /\ \A j \in DOMAIN more :
             j = Len(notes) + 1 \/ (j \in DOMAIN notes /\ more[j] = notes[j])
    BY <2>1, PostGrows
  <2> HIDE DEF more
  <2>4. Asked(more) = Asked(notes) \cup {m}
    BY <2>1, <2>3 DEF Asked, Grown
  <2> QED
    BY <2>2, <2>4
<1> QED
  BY <1>1, <1>2

(* A ban punishes one member, or nobody.                                   *)
LEMMA BanPunishes ==
  ASSUME standing \in [Users -> Standing], NEW u \in Users, NEW restrict,
         NEW fails
  PROVE  Punished(BanUser(u, restrict, fails))
           \in {Punished(standing), Punished(standing) \cup {u}}
BY DEF Punished, BanUser, Standing

-----------------------------------------------------------------------------
(* The steps.                                                              *)

(* A report is a report, whatever it sets off.                             *)
LEMMA ReportImplements ==
  ASSUME IInv, NEW u \in Users, NEW m \in Messages, NEW fails,
         DirectUserReport(u, m, fails)
  PROVE  Cases!Report(u, m)
<1> DEFINE stored == Add(u, m, fails)
           kept == Reporters(stored)
<1>1. /\ notes \in Seq(Note)
      /\ standing \in [Users -> Standing]
      /\ CheckReportThreshold(m, stored, fails)
  BY DEF IInv, Typed, DirectUserReport
<1>2. TableOK(stored, now + 1, filed') /\ FlagsOK(stored, notes)
  BY AddKeepsTable DEF DirectUserReport
<1>3. kept \in [Messages -> SUBSET Users]
  BY <1>2, ReportersType
<1>4. /\ \A n \in Messages \ {m} : kept[n] \subseteq Reporters(rows)[n]
      /\ kept[m] \subseteq Reporters(rows)[m] \cup {u}
  BY <1>3, AddReporters
<1>5. Accused(filed)' = [Accused(filed) EXCEPT ![m] = @ \cup {u}]
  <2>1. Accused(filed') = [Accused(filed) EXCEPT ![m] = @ \cup {u}]
    BY ReportAccuses DEF DirectUserReport
  <2> QED
    BY <2>1
<1>6. /\ QuorumReached(About(stored, m)) => Cardinality(kept[m]) >= Threshold
      /\ AutoBanReached(About(stored, m)) =>
           AutoBanThreshold > 0 /\ Cardinality(kept[m]) >= AutoBanThreshold
  <2>1. /\ Cardinality(About(stored, m)) \in Nat
        /\ Cardinality(kept[m]) \in Nat
        /\ Cardinality(About(stored, m)) <= Cardinality(kept[m])
    BY <1>2, ReportersCount
  <2> QED
    BY <2>1, UserReportsAssumption DEF QuorumReached, AutoBanReached
<1>7. Author[m] \in Users
  BY UserReportsAssumption
<1>8. NoKeyboard \in SUBSET Key /\ ActionKeyboard(m) \in SUBSET Key
  BY <1>7 DEF NoKeyboard, ActionKeyboard, Key
<1>9. \A first \in Oldest(About(stored, m)) : first.sent =>
        first.note \in DOMAIN notes
  BY <1>2 DEF Oldest, About, FlagsOK
<1> HIDE DEF stored, kept
<1>10. SUFFICES /\ Reporters(rows') \in {kept, [kept EXCEPT ![m] = {}]}
                /\ Cases!Note(m, kept[m]) \/ Cases!Sentence(m, kept[m])
  <2>1. ASSUME Reporters(rows') \in {kept, [kept EXCEPT ![m] = {}]}
        PROVE  /\ Reporters(rows') \in [Messages -> SUBSET Users]
               /\ \A n \in Messages \ {m} :
                    Reporters(rows')[n] \subseteq Reporters(rows)[n]
    BY <1>3, <1>4, <2>1
  <2> QED
    BY <1>4, <1>5, <2>1 DEF Cases!Report
<1>11. CASE rows' = stored /\ UNCHANGED <<notes, effects>>
  <2>1. /\ Reporters(rows)' = kept
        /\ Asked(notes)' = Asked(notes)
        /\ Punished(standing)' = Punished(standing)
    BY <1>11 DEF kept, effects
  <2> QED
    BY <2>1 DEF Cases!Note
<1>12. ASSUME NEW first \in Oldest(About(stored, m)),
              AutoBanReached(About(stored, m)),
              ExecuteAutoBan(m, first, stored, fails)
       PROVE  /\ Reporters(rows') \in {kept, [kept EXCEPT ![m] = {}]}
              /\ Cases!Sentence(m, kept[m])
  <2>1. /\ \/ rows' = stored
           \/ rows' = DeleteByMessage(stored, m, fails)
        /\ \/ notes' = notes
           \/ first.sent /\ notes' = Edit(first.note, NoKeyboard, fails)
           \/ notes' = Post(m, NoKeyboard, fails)
        /\ standing' = BanUser(Author[m], SoftBan, fails)
    BY <1>12 DEF ExecuteAutoBan, PunishAuthor
  <2>2. Reporters(rows') \in {kept, [kept EXCEPT ![m] = {}]}
    BY <2>1, DeleteReporters DEF kept
  <2>3. Asked(notes') \in {Asked(notes), Asked(notes) \cup {m}}
    BY <1>1, <1>8, <1>9, <2>1, EditAsks, PostAsks
  <2>4. Punished(standing')
          \in {Punished(standing), Punished(standing) \cup {Author[m]}}
    BY <1>1, <1>7, <2>1, BanPunishes
  <2>5. Reporters(rows')[m] \in {kept[m], {}}
    BY <1>3, <2>2
  <2> QED
    BY <1>6, <1>12, <2>2, <2>3, <2>4, <2>5, SameCardinality
       DEF Cases!Sentence
<1>13. ASSUME NEW first \in Oldest(About(stored, m)), first.sent,
              UpdateReportNotification(m, first, stored, fails)
       PROVE  Reporters(rows') = kept /\ Cases!Note(m, kept[m])
  <2>1. /\ rows' = stored
        /\ notes' = Edit(first.note, ActionKeyboard(m), fails)
        /\ standing' = standing
    BY <1>13 DEF UpdateReportNotification, effects
  <2>2. Asked(notes') = Asked(notes)
    BY <1>1, <1>8, <1>9, <1>13, <2>1, EditAsks
  <2>3. /\ Reporters(rows)' = kept
        /\ Punished(standing)' = Punished(standing)
    BY <2>1 DEF kept
  <2> QED
    BY <2>2, <2>3 DEF Cases!Note
<1>14. ASSUME QuorumReached(About(stored, m)),
              SendReportNotification(m, stored, fails)
       PROVE  Reporters(rows') = kept /\ Cases!Note(m, kept[m])
  <2>1. /\ \/ rows' = stored
           \/ rows' = UpdateAdminMsgID(stored, m, Len(notes) + 1, fails)
        /\ notes' = Post(m, ActionKeyboard(m), fails)
        /\ standing' = standing
    BY <1>14 DEF SendReportNotification, effects
  <2>2. Asked(notes') \in {Asked(notes), Asked(notes) \cup {m}}
    BY <1>1, <1>8, <2>1, PostAsks
  <2>3. stored \in SUBSET Row /\ Len(notes) + 1 \in Nat
    BY <1>1, <1>2 DEF TableOK
  <2>4. Reporters(rows') = kept
    BY <2>1, <2>3, MarkReporters DEF kept
  <2>5. Punished(standing)' = Punished(standing)
    BY <2>1
  <2> QED
    BY <1>6, <1>14, <2>2, <2>4, <2>5, SameCardinality DEF Cases!Note
<1> QED
  BY <1>1, <1>11, <1>12, <1>13, <1>14 DEF CheckReportThreshold

(* A press decides an open case, bans one reporter, or changes nothing.    *)
LEMMA CallbackImplements ==
  ASSUME IInv, NEW k \in clicks, NEW fails, "reread" \notin fails,
         HandleReportCallback(k, fails)
  PROVE  \/ \E m \in Messages : Cases!Decide(m)
         \/ \E m \in Messages, u \in Users : Cases!BanReporter(u, m)
         \/ UNCHANGED Cases!vars
<1> DEFINE m == CaseOf(k)
<1>1. /\ notes \in Seq(Note) /\ k.note \in DOMAIN notes /\ k \in Click
      /\ standing \in [Users -> Standing]
  BY DEF IInv, Typed
<1>2. m \in Messages /\ m \in Asked(notes) /\ k.user \in Users
  <2>1. notes[k.note] \in Note
    BY <1>1
  <2> QED
    BY <1>1, <2>1 DEF CaseOf, Note, Asked, Click
<1>3. Author[m] \in Users
  BY <1>2, UserReportsAssumption
<1>4. Named(filed, m, k)
  BY DEF IInv, ClicksOK, CaseOf
<1>5. Found(k, fails) => Cases!Open(m)
  BY <1>2 DEF Found, Cases!Open, Reporters
<1>6. /\ NoKeyboard \in SUBSET Key /\ ActionKeyboard(m) \in SUBSET Key
      /\ ReporterKeyboard(m, About(rows, m)) \in SUBSET Key
  BY <1>3 DEF NoKeyboard, ActionKeyboard, ReporterKeyboard, Key, About,
              IInv, Typed, Row
<1>7. filed' = filed
  BY DEF HandleReportCallback, CallbackNoReports, CallbackReportBan,
         CallbackReportReject, CallbackReportBanReporterAsk,
         CallbackReportBanReporterConfirm, CallbackReportCancel, Handle
<1> HIDE DEF m
<1>8. CASE CallbackNoReports(k, fails)
  <2>1. UNCHANGED <<rows, notes, filed, standing>>
    BY <1>8 DEF CallbackNoReports, effects
  <2> QED
    BY <2>1 DEF Cases!vars
<1>9. CASE CallbackReportBan(k, fails)
  <2>1. /\ Found(k, fails)
        /\ rows' = DeleteByMessage(rows, m, fails)
        /\ notes' = Edit(k.note, NoKeyboard, fails)
        /\ standing' = BanUser(Author[m], SoftBan, fails)
    BY <1>9 DEF CallbackReportBan, PunishAuthor, m
  <2>2. Reporters(rows') \in {Reporters(rows),
                              [Reporters(rows) EXCEPT ![m] = {}]}
    BY <1>2, <2>1, DeleteReporters
  <2>3. Asked(notes') = Asked(notes)
    BY <1>1, <1>6, <2>1, EditAsks
  <2>4. Punished(standing')
          \in {Punished(standing), Punished(standing) \cup {Author[m]}}
    BY <1>1, <1>3, <2>1, BanPunishes
  <2>5. Cases!Decide(m)
    BY <1>5, <1>7, <2>1, <2>2, <2>3, <2>4 DEF Cases!Decide
  <2> QED
    BY <1>2, <2>5
<1>10. CASE CallbackReportReject(k, fails)
  <2>1. /\ Found(k, fails)
        /\ rows' = DeleteByMessage(rows, m, fails)
        /\ notes' = Edit(k.note, NoKeyboard, fails)
        /\ standing' = standing
    BY <1>10 DEF CallbackReportReject, effects, m
  <2>2. Reporters(rows') \in {Reporters(rows),
                              [Reporters(rows) EXCEPT ![m] = {}]}
    BY <1>2, <2>1, DeleteReporters
  <2>3. Asked(notes') = Asked(notes)
    BY <1>1, <1>6, <2>1, EditAsks
  <2>4. Cases!Decide(m)
    BY <1>5, <1>7, <2>1, <2>2, <2>3 DEF Cases!Decide
  <2> QED
    BY <1>2, <2>4
<1>11. CASE CallbackReportBanReporterAsk(k, fails)
  <2>1. /\ notes' = Edit(k.note, ReporterKeyboard(m, About(rows, m)), fails)
        /\ UNCHANGED <<rows, standing>>
    BY <1>11 DEF CallbackReportBanReporterAsk, effects, m
  <2>2. Asked(notes') = Asked(notes)
    BY <1>1, <1>6, <2>1, EditAsks
  <2> QED
    BY <1>7, <2>1, <2>2 DEF Cases!vars
<1>12. CASE CallbackReportBanReporterConfirm(k, fails)
  <2> DEFINE left == DeleteReporter(rows, k.user, m, fails)
  <2>1. /\ Found(k, fails)
        /\ standing' = BanUser(k.user, FALSE, fails)
        /\ rows' = IF About(left, m) = {}
                   THEN DeleteByMessage(left, m, fails) ELSE left
        /\ \/ notes' = Edit(k.note, NoKeyboard, fails)
           \/ notes' = Edit(k.note, ActionKeyboard(m), fails)
    BY <1>12 DEF CallbackReportBanReporterConfirm, m
  <2>2. rows' = left
    BY <2>1 DEF DeleteByMessage, About
  <2>3. Reporters(rows')
          \in {Reporters(rows), [Reporters(rows) EXCEPT ![m] = @ \ {k.user}]}
    BY <1>2, <2>2, DeleteOneReporter
  <2>4. Asked(notes') = Asked(notes)
    BY <1>1, <1>6, <2>1, EditAsks
  <2>5. Punished(standing')
          \in {Punished(standing), Punished(standing) \cup {k.user}}
    BY <1>1, <1>2, <2>1, BanPunishes
  <2>6. k.button = "R!"
    BY <1>12 DEF CallbackReportBanReporterConfirm, Handle
  <2>7. k.user \in Accused(filed)[m]
    BY <1>2, <1>4, <2>6 DEF Accused, Named
  <2>8. Cases!BanReporter(k.user, m)
    BY <1>5, <1>7, <2>1, <2>3, <2>4, <2>5, <2>7 DEF Cases!BanReporter
  <2> QED
    BY <1>2, <2>8
<1>13. CASE CallbackReportCancel(k, fails)
  <2>1. /\ notes' = Edit(k.note, ActionKeyboard(m), fails)
        /\ UNCHANGED <<rows, standing>>
    BY <1>13 DEF CallbackReportCancel, effects, m
  <2>2. Asked(notes') = Asked(notes)
    BY <1>1, <1>6, <2>1, EditAsks
  <2> QED
    BY <1>7, <2>1, <2>2 DEF Cases!vars
<1> QED
  BY <1>8, <1>9, <1>10, <1>11, <1>12, <1>13 DEF HandleReportCallback

-----------------------------------------------------------------------------
(* The mapped initial state is the initial state of ReportCases.           *)
LEMMA InitImplements == Init => Cases!Init
<1> SUFFICES ASSUME Init PROVE Cases!Init
  OBVIOUS
<1>1. Reporters(rows) = [m \in Messages |-> {}]
  BY DEF Init, Reporters, About
<1>2. Accused(filed) = [m \in Messages |-> {}]
  BY DEF Init, Accused, ReportersIn
<1>3. Asked(notes) = {} /\ Punished(standing) = {}
  BY DEF Init, Asked, Punished
<1> QED
  BY <1>1, <1>2, <1>3 DEF Cases!Init, Cases!Nobody

(* Every step maps to a step of ReportCases or to none.                    *)
LEMMA NextImplements ==
  ASSUME "reread" \notin setting.fails
  PROVE  IInv /\ [Next]_vars => [Cases!Next]_(Cases!vars)
<1> SUFFICES ASSUME IInv, [Next]_vars PROVE Cases!Next \/ UNCHANGED Cases!vars
  OBVIOUS
<1>1. CASE UNCHANGED <<rows, notes, filed, standing>>
  BY <1>1 DEF Cases!vars
<1>2. ASSUME NEW fails, NEW u \in Users, NEW m \in Messages,
             DirectUserReport(u, m, fails)
      PROVE  Cases!Next
  BY <1>2, ReportImplements DEF Cases!Next
<1>3. ASSUME NEW fails \in SUBSET setting.fails, NEW k \in clicks,
             HandleReportCallback(k, fails)
      PROVE  Cases!Next \/ UNCHANGED Cases!vars
  BY <1>3, CallbackImplements DEF Cases!Next
<1> QED
  BY <1>1, <1>2, <1>3 DEF Next, Tick, AddApprovedUser, AdminClick, vars,
                          effects

(* UserReports implements ReportCases: every behaviour of the code is one  *)
(* of the promise, as long as the second read of a confirmed reporter ban  *)
(* does not fail.                                                          *)
THEOREM Implements ==
  ASSUME \A s \in Settings : "reread" \notin s.fails
  PROVE  Spec => ImplementsCases
<1>1. TypeOK => "reread" \notin setting.fails
  BY DEF TypeOK
<1>2. IInv /\ TypeOK /\ [Next]_vars => [Cases!Next]_(Cases!vars)
  BY <1>1, NextImplements
<1> QED
  BY <1>2, Invariance, TypeCorrect, InitImplements, PTL
     DEF Spec, ImplementsCases, Cases!Spec

=============================================================================
