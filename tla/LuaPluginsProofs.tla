-------------------------- MODULE LuaPluginsProofs --------------------------
(***************************************************************************)
(* Proofs about LuaPlugins for any scripts, any contents and any number of *)
(* changes.                                                                *)
(***************************************************************************)
EXTENDS LuaPlugins, TLAPS

-----------------------------------------------------------------------------
(* The inductive invariant.  SettledIsCurrent says nothing of a script     *)
(* while it is looked at, which is when a change of the file can be lost:  *)
(* the other parts follow the script through its two readings.             *)

(* Nothing is noticed before the watcher runs. *)
NothingEarlier ==
  phase # "run" =>
    /\ seen = {} /\ notices = << >> /\ events = [s \in Scripts |-> "none"]

(* All is loaded when the watcher starts. *)
WatchIsIdle == phase = "watch" => Idle

(* What a pass has left to do has its event still. *)
TodoIsRipe == phase = "run" => \A s \in todo : events[s] = "ripe"

(* The old function of the script being loaded is gone. *)
CurrentIsOut ==
  phase = "run" /\ current # Absent => checkers[current] = Absent

(* A script that was fit is still, or is gone, or has a notice waiting. *)
FitOrNoticed ==
  phase = "run" /\ fit =>
    files[current] \in Working \cup {Absent} \/ current \in Range(notices)

IInv ==
  /\ TypeOK /\ NothingEarlier /\ WatchIsIdle /\ TodoIsRipe /\ CurrentIsOut
  /\ FitOrNoticed /\ SettledIsCurrent

-----------------------------------------------------------------------------
(* The queue of notices. *)
LEMMA RangeOfAppend ==
  ASSUME NEW S, NEW q \in Seq(S), NEW s \in S
  PROVE  /\ Append(q, s) \in Seq(S)
         /\ Range(Append(q, s)) = Range(q) \cup {s}
<1> DEFINE a == Append(q, s)
<1>1. a \in Seq(S) /\ Len(a) = Len(q) + 1 /\ Len(q) \in Nat
  OBVIOUS
<1>2. DOMAIN a = 1 .. Len(q) + 1 /\ DOMAIN q = 1 .. Len(q)
  OBVIOUS
<1>3. \A i \in 1 .. Len(q) : a[i] = q[i]
  OBVIOUS
<1>4. a[Len(q) + 1] = s
  OBVIOUS
<1>5. ASSUME NEW x \in Range(a) PROVE x \in Range(q) \cup {s}
  <2>1. PICK i \in DOMAIN a : x = a[i]
    BY DEF Range
  <2>2. CASE i \in 1 .. Len(q)
    BY <2>1, <2>2, <1>2, <1>3 DEF Range
  <2>3. CASE i = Len(q) + 1
    BY <2>1, <2>3, <1>4
  <2> QED
    BY <2>1, <2>2, <2>3, <1>1, <1>2
<1>6. ASSUME NEW x \in Range(q) PROVE x \in Range(a)
  <2>1. PICK i \in DOMAIN q : x = q[i]
    BY DEF Range
  <2> QED
    BY <2>1, <1>1, <1>2, <1>3 DEF Range
<1>7. s \in Range(a)
  BY <1>1, <1>2, <1>4 DEF Range
<1> QED
  BY <1>1, <1>5, <1>6, <1>7

LEMMA RangeOfTail ==
  ASSUME NEW S, NEW q \in Seq(S), q # << >>
  PROVE  /\ Tail(q) \in Seq(S) /\ Head(q) \in S
         /\ \A x \in Range(q) : x = Head(q) \/ x \in Range(Tail(q))
<1>1. Tail(q) \in Seq(S) /\ Head(q) \in S /\ Len(q) \in Nat \ {0}
  OBVIOUS
<1>2. DOMAIN q = 1 .. Len(q) /\ DOMAIN Tail(q) = 1 .. Len(q) - 1
  OBVIOUS
<1>3. \A i \in 1 .. Len(q) - 1 : Tail(q)[i] = q[i + 1]
  OBVIOUS
<1>4. ASSUME NEW x \in Range(q) PROVE x = Head(q) \/ x \in Range(Tail(q))
  <2>1. PICK i \in 1 .. Len(q) : x = q[i]
    BY <1>2 DEF Range
  <2>2. CASE i = 1
    BY <2>1, <2>2, <1>1
  <2>3. CASE i # 1
    <3>1. i - 1 \in 1 .. Len(q) - 1 /\ (i - 1) + 1 = i
      BY <2>3, <1>1
    <3> QED
      BY <3>1, <2>1, <1>2, <1>3 DEF Range
  <2> QED
    BY <2>2, <2>3
<1> QED
  BY <1>1, <1>4

-----------------------------------------------------------------------------
LEMMA InitInv == Init => IInv
<1> SUFFICES ASSUME Init PROVE IInv
  OBVIOUS
<1>1. /\ enabled \subseteq Scripts /\ dynamic \in BOOLEAN
      /\ files \in [Scripts -> Contents \cup {Absent}]
      /\ todo \subseteq Scripts
  BY DEF Init
<1>2. /\ notices \in Seq(Scripts)
      /\ events \in [Scripts -> {"none", "fresh", "ripe"}]
      /\ checkers \in [Scripts -> Working \cup {Absent}]
      /\ luaChecks \in [Scripts -> Working \cup {Absent}]
  BY DEF Init
<1>3. changes \in 0 .. MaxChanges
  BY LuaAssumption DEF Init
<1>4. TypeOK
  BY <1>1, <1>2, <1>3 DEF Init, TypeOK
<1> QED
  BY <1>4 DEF Init, IInv, NothingEarlier, WatchIsIdle, TodoIsRipe, CurrentIsOut,
              FitOrNoticed, SettledIsCurrent

(* A file changes: its notice makes it pending, unless it is gone, or      *)
(* nobody watches yet.                                                     *)
LEMMA ChangeInv ==
  ASSUME IInv, NEW s \in Scripts, NEW content \in Contents \cup {Absent},
         Change(s, content),
         Notify(s) \/ (content = Absent /\ UNCHANGED <<notices, seen>>)
  PROVE  IInv'
<1> USE DEF IInv
<1>0. /\ Append(notices, s) \in Seq(Scripts)
      /\ Range(Append(notices, s)) = Range(notices) \cup {s}
  BY RangeOfAppend DEF TypeOK
<1>1. /\ notices' \in Seq(Scripts) /\ seen' \subseteq Scripts
      /\ Range(notices) \subseteq Range(notices')
  BY <1>0 DEF TypeOK, Notify
<1>2. phase = "run" => s \in Range(notices') \/ content = Absent
  BY <1>0 DEF TypeOK, Notify
<1>3. \A t \in Scripts \ {s} : t \in seen' <=> t \in seen
  BY DEF Notify
<1>4. /\ files' = [files EXCEPT ![s] = content]
      /\ UNCHANGED <<enabled, dynamic, phase, events, todo, current, fit,
                     global, checkers, luaChecks>>
  BY DEF Change, lua
<1>5. TypeOK'
  <2>1. changes' \in 0 .. MaxChanges
    BY LuaAssumption DEF TypeOK, Change
  <2> QED
    BY <1>1, <1>4, <2>1 DEF TypeOK
<1>6. NothingEarlier'
  BY <1>4 DEF NothingEarlier, Notify
<1>7. WatchIsIdle' /\ TodoIsRipe' /\ CurrentIsOut'
  BY <1>4 DEF WatchIsIdle, Idle, TodoIsRipe, CurrentIsOut
<1>8. FitOrNoticed'
  BY <1>1, <1>2, <1>4 DEF FitOrNoticed, TypeOK
<1>9. SettledIsCurrent'
  <2> SUFFICES ASSUME NEW t \in seen', ~Pending(t)', files'[t] # Absent
               PROVE  checkers'[t] = Expected(files[t])'
    BY DEF SettledIsCurrent
  <2>1. t \in Scripts
    BY <1>1
  <2>2. phase = "run"
    BY <1>4, <1>6 DEF NothingEarlier
  <2>3. t # s
    BY <1>2, <1>4, <2>2 DEF Pending, TypeOK
  <2>4. t \in seen /\ ~Pending(t) /\ files'[t] = files[t]
    BY <1>1, <1>3, <1>4, <2>1, <2>3 DEF Pending, TypeOK
  <2> QED
    BY <1>4, <2>4 DEF SettledIsCurrent, Expected
<1> QED
  BY <1>5, <1>6, <1>7, <1>8, <1>9

LEMMA HandleEventInv == IInv /\ HandleEvent => IInv'
<1> SUFFICES ASSUME IInv, HandleEvent PROVE IInv'
  OBVIOUS
<1> USE DEF IInv
<1>1. /\ notices' \in Seq(Scripts) /\ Head(notices) \in Scripts
      /\ \A x \in Range(notices) : x = Head(notices) \/ x \in Range(notices')
  BY RangeOfTail DEF TypeOK, HandleEvent
<1>2. /\ events' = [events EXCEPT ![Head(notices)] = "fresh"]
      /\ UNCHANGED <<enabled, dynamic, phase, files, todo, current, fit,
                     global, checkers, luaChecks, changes, seen>>
      /\ phase = "run" /\ todo = {} /\ current = Absent
  BY DEF HandleEvent, lua, Idle
<1>3. TypeOK'
  BY <1>1, <1>2 DEF TypeOK
<1>4. \A t \in Scripts : Pending(t) => Pending(t)'
  BY <1>1, <1>2 DEF Pending, TypeOK
<1>5. ~fit
  BY <1>2 DEF TypeOK
<1>6. SettledIsCurrent'
  BY <1>2, <1>4 DEF SettledIsCurrent, Expected, TypeOK
<1> QED
  BY <1>2, <1>3, <1>5, <1>6
     DEF NothingEarlier, WatchIsIdle, TodoIsRipe, CurrentIsOut, FitOrNoticed

LEMMA RipenInv ==
  ASSUME IInv, NEW s \in Scripts, Ripen(s) PROVE IInv'
<1> USE DEF IInv
<1>1. /\ events[s] = "fresh" /\ events' = [events EXCEPT ![s] = "ripe"]
      /\ UNCHANGED <<enabled, dynamic, phase, files, notices, todo, current,
                     fit, global, checkers, luaChecks, changes, seen>>
  BY DEF Ripen, lua
<1>2. TypeOK'
  BY <1>1 DEF TypeOK
<1>3. phase = "run"
  BY <1>1 DEF NothingEarlier
<1>4. SettledIsCurrent'
  BY <1>1 DEF SettledIsCurrent, Pending, Expected, TypeOK
<1> QED
  BY <1>1, <1>2, <1>3, <1>4
     DEF NothingEarlier, WatchIsIdle, TodoIsRipe, CurrentIsOut, FitOrNoticed, TypeOK

(* A pass starts, or skips a file that is gone. *)
LEMMA PassInv ==
  ASSUME IInv, Tick \/ \E s \in Scripts : Skip(s) PROVE IInv'
<1> USE DEF IInv
<1>1. /\ phase = "run" /\ todo' \subseteq Scripts /\ current = Absent
      /\ \A t \in todo' : events[t] = "ripe"
      /\ UNCHANGED <<enabled, dynamic, phase, files, notices, events, current,
                     fit, global, checkers, luaChecks, changes, seen>>
  BY DEF Tick, Skip, Idle, TodoIsRipe, TypeOK
<1>2. TypeOK' /\ ~fit
  BY <1>1 DEF TypeOK
<1>3. SettledIsCurrent'
  BY <1>1 DEF SettledIsCurrent, Pending, Expected
<1> QED
  BY <1>1, <1>2, <1>3
     DEF NothingEarlier, WatchIsIdle, TodoIsRipe, CurrentIsOut, FitOrNoticed

LEMMA ReloadScriptInv ==
  ASSUME IInv, NEW s \in Scripts, ReloadScript(s) PROVE IInv'
<1> USE DEF IInv
<1>1. /\ phase = "run" /\ s \in todo /\ current = Absent /\ current' = s
      /\ checkers' = [checkers EXCEPT ![s] = Absent]
      /\ UNCHANGED <<enabled, dynamic, phase, files, notices, events, todo,
                     fit, global, luaChecks, changes, seen>>
  BY DEF ReloadScript
<1>2. ~fit /\ events[s] = "ripe"
  BY <1>1 DEF TypeOK, TodoIsRipe
<1>3. TypeOK'
  BY <1>1, <1>2 DEF TypeOK
<1>4. SettledIsCurrent'
  BY <1>1, <1>2 DEF SettledIsCurrent, Pending, Expected, TypeOK
<1> QED
  BY <1>1, <1>2, <1>3, <1>4
     DEF NothingEarlier, WatchIsIdle, TodoIsRipe, CurrentIsOut, FitOrNoticed, TypeOK

(* Before the watcher runs only the types matter. *)
LEMMA EarlierInv ==
  ASSUME IInv, TypeOK', phase # "run",
         phase' \in {"watch", "run"} => Idle',
         UNCHANGED <<notices, events, seen>>
  PROVE  IInv'
<1> USE DEF IInv
<1>1. seen' = {}
  BY DEF NothingEarlier
<1>2. fit' => current' # Absent
  BY DEF TypeOK
<1>3. phase' = "run" => todo' = {} /\ current' = Absent
  BY DEF Idle
<1> QED
  BY <1>1, <1>2, <1>3 DEF NothingEarlier, WatchIsIdle, TodoIsRipe, CurrentIsOut,
                    FitOrNoticed, SettledIsCurrent

LEMMA LoadScriptInv ==
  ASSUME IInv, NEW s \in Scripts, LoadScript(s) PROVE IInv'
<1> USE DEF IInv
<1>1. TypeOK'
  BY LuaAssumption DEF LoadScript, TypeOK
<1> QED
  BY <1>1, EarlierInv DEF LoadScript, TypeOK

LEMMA RegisterInv == IInv /\ (Register \/ Watch) => IInv'
<1> SUFFICES ASSUME IInv, Register \/ Watch PROVE IInv'
  OBVIOUS
<1> USE DEF IInv
<1>1. CASE Register
  <2>1. luaChecks' \in [Scripts -> Working \cup {Absent}]
    BY <1>1 DEF Register, TypeOK
  <2>2. phase' \in {"failed", "watch", "static"}
    BY <1>1 DEF Register
  <2>3. TypeOK'
    BY <1>1, <2>1, <2>2 DEF Register, TypeOK, lua
  <2> QED
    BY <1>1, <2>2, <2>3, EarlierInv DEF Register, lua, Idle
<1>2. CASE Watch
  <2>1. TypeOK'
    BY <1>2 DEF Watch, TypeOK, lua
  <2> QED
    BY <1>2, <2>1, EarlierInv DEF Watch, lua, WatchIsIdle, Idle
<1> QED
  BY <1>1, <1>2

(* The script is done with: the watcher has forgotten its event, and the   *)
(* engine has the function of the file, unless another notice waits.       *)
LEMMA FinishInv ==
  ASSUME IInv, NEW failed \in BOOLEAN, Finish(failed), current # Absent,
         phase = "run", TypeOK',
         NEW function, checkers' = [checkers EXCEPT ![current] = function],
         \/ function = Expected(files[current]) \/ files[current] = Absent
         \/ current \in Range(notices),
         UNCHANGED <<files, notices, seen>>
  PROVE  IInv'
<1> USE DEF IInv
<1>1. /\ current' = Absent /\ ~fit' /\ phase' = "run"
      /\ todo' = todo \ {current} /\ current \in Scripts
      /\ events' = [events EXCEPT ![current] = "none"]
  BY DEF Finish, TypeOK
<1>2. TodoIsRipe'
  BY <1>1 DEF TodoIsRipe, TypeOK
<1>3. SettledIsCurrent'
  <2> SUFFICES ASSUME NEW t \in seen', ~Pending(t)', files'[t] # Absent
               PROVE  checkers'[t] = Expected(files[t])'
    BY DEF SettledIsCurrent
  <2>1. t \in Scripts /\ t \in seen
    BY DEF TypeOK
  <2>2. CASE t = current
    BY <1>1, <2>1, <2>2 DEF Pending, Expected, TypeOK
  <2>3. CASE t # current
    BY <1>1, <2>1, <2>3 DEF SettledIsCurrent, Pending, Expected, TypeOK
  <2> QED
    BY <2>2, <2>3
<1> QED
  BY <1>1, <1>2, <1>3 DEF NothingEarlier, WatchIsIdle, CurrentIsOut,
                          FitOrNoticed

LEMMA ReadFirstInv == IInv /\ ReadFirst => IInv'
<1> SUFFICES ASSUME IInv, ReadFirst PROVE IInv'
  OBVIOUS
<1> USE DEF IInv
<1>1. TypeOK'
  <2>1. UNCHANGED <<enabled, dynamic, files, notices, global, checkers,
                    luaChecks, changes, seen>>
    BY DEF ReadFirst
  <2>2. CASE files[current] \in Working
    BY <2>1, <2>2 DEF ReadFirst, TypeOK
  <2>3. CASE files[current] \notin Working
    BY <2>1, <2>3 DEF ReadFirst, Finish, TypeOK
  <2> QED
    BY <2>2, <2>3
<1>2. CASE phase # "run"
  <2>1. phase' \notin {"watch", "run"} /\ events' = events
    BY <1>2 DEF ReadFirst, Finish, WatchIsIdle, Idle, TypeOK
  <2> QED
    BY <1>1, <1>2, <2>1, EarlierInv DEF ReadFirst
<1>3. CASE phase = "run" /\ files[current] \in Working
  <2>1. UNCHANGED <<phase, events, todo, current, files, notices, checkers,
                    seen>>
    BY <1>3 DEF ReadFirst
  <2>2. SettledIsCurrent'
    BY <2>1 DEF SettledIsCurrent, Pending, Expected
  <2> QED
    BY <1>1, <1>3, <2>1, <2>2 DEF NothingEarlier, WatchIsIdle, Idle,
       TodoIsRipe, CurrentIsOut, FitOrNoticed
<1>4. CASE phase = "run" /\ files[current] \notin Working
  <2>1. Finish(TRUE) /\ current # Absent
    BY <1>4 DEF ReadFirst
  <2>2. checkers' = [checkers EXCEPT ![current] = Absent]
    BY <1>4, <2>1 DEF ReadFirst, CurrentIsOut, TypeOK
  <2>3. Expected(files[current]) = Absent
    BY <1>4 DEF Expected
  <2> QED
    BY <1>1, <1>4, <2>1, <2>2, <2>3, FinishInv DEF ReadFirst
<1> QED
  BY <1>2, <1>3, <1>4

LEMMA ReadAgainInv == IInv /\ ReadAgain => IInv'
<1> SUFFICES ASSUME IInv, ReadAgain PROVE IInv'
  OBVIOUS
<1> USE DEF IInv
<1>0. current \in Scripts /\ current # Absent /\ fit
  BY DEF ReadAgain, TypeOK
<1>1. PICK failed \in BOOLEAN : Finish(failed)
  BY DEF ReadAgain
<1>2. global' \in Working \cup {Absent}
  BY DEF ReadAgain, TypeOK
<1>3. TypeOK'
  <2>1. checkers' \in [Scripts -> Working \cup {Absent}]
    BY <1>2 DEF ReadAgain, TypeOK
  <2> QED
    BY <1>1, <1>2, <2>1 DEF ReadAgain, Finish, TypeOK
<1>4. CASE phase # "run"
  <2>1. phase' \notin {"watch", "run"} /\ events' = events
    BY <1>0, <1>1, <1>4 DEF Finish, WatchIsIdle, Idle, TypeOK
  <2> QED
    BY <1>3, <1>4, <2>1, EarlierInv DEF ReadAgain
<1>5. CASE phase = "run"
  <2>1. PICK function : /\ checkers' = [checkers EXCEPT ![current] = function]
                        /\ files[current] \in Working \/ function = Absent
                             \/ files[current] \in Silent
                        /\ files[current] \in Working =>
                             function = files[current]
    <3>1. CASE files[current] \in Working
      BY <1>0, <3>1, LuaAssumption DEF ReadAgain, TypeOK
    <3>2. CASE files[current] \in Silent \ Working
      <4>1. checkers' = [checkers EXCEPT ![current] = checkers'[current]]
        BY <1>0 DEF ReadAgain, TypeOK
      <4> QED
        BY <3>2, <4>1
    <3>3. CASE files[current] \notin Silent \cup Working
      <4>1. checkers' = [checkers EXCEPT ![current] = Absent]
        BY <1>0, <1>5, <3>3 DEF ReadAgain, CurrentIsOut, TypeOK
      <4> QED
        BY <3>3, <4>1
    <3> QED
      BY <3>1, <3>2, <3>3
  <2>2. \/ function = Expected(files[current]) \/ files[current] = Absent
        \/ current \in Range(notices)
    BY <1>0, <1>5, <2>1 DEF FitOrNoticed, Expected
  <2> QED
    BY <1>0, <1>1, <1>3, <1>5, <2>1, <2>2, FinishInv DEF ReadAgain
<1> QED
  BY <1>4, <1>5

-----------------------------------------------------------------------------
LEMMA NextInv == IInv /\ [Next]_vars => IInv'
<1> SUFFICES ASSUME IInv, [Next]_vars PROVE IInv'
  OBVIOUS
<1>1. CASE \E s \in Scripts : \E content \in Contents : Write(s, content)
  BY <1>1, ChangeInv DEF Write
<1>2. CASE \E s \in Scripts : RemoveFile(s) \/ MoveAway(s)
  BY <1>2, ChangeInv DEF RemoveFile, MoveAway
<1>3. CASE \E s \in Scripts : Ripen(s) \/ Process(s) \/ LoadScript(s)
  BY <1>3, RipenInv, PassInv, ReloadScriptInv, LoadScriptInv DEF Process
<1>4. CASE HandleEvent \/ Tick \/ ReadFirst \/ ReadAgain \/ Register \/ Watch
  BY <1>4, HandleEventInv, PassInv, ReadFirstInv, ReadAgainInv, RegisterInv
<1>5. CASE UNCHANGED vars
  <2>1. /\ TypeOK' /\ NothingEarlier' /\ WatchIsIdle' /\ TodoIsRipe'
        /\ CurrentIsOut' /\ FitOrNoticed'
    BY <1>5 DEF vars, lua, IInv, TypeOK, NothingEarlier, WatchIsIdle, Idle,
       TodoIsRipe, CurrentIsOut, FitOrNoticed
  <2>2. SettledIsCurrent'
    BY <1>5 DEF vars, lua, IInv, SettledIsCurrent, Pending, Expected
  <2> QED
    BY <2>1, <2>2 DEF IInv
<1> QED
  BY <1>1, <1>2, <1>3, <1>4, <1>5 DEF Next

(* The inductive invariant holds in every state. *)
THEOREM Inductive == Spec => []IInv
BY InitInv, NextInv, PTL DEF Spec

(* Every variable keeps its type, and only functions of scripts that work  *)
(* are ever taken (ReadFirst, ReadAgain, Register).                        *)
THEOREM TypeCorrect == Spec => []TypeOK
<1>1. IInv => TypeOK
  BY DEF IInv
<1> QED
  BY <1>1, Inductive, PTL

(* However many scripts there are and however often they change while the  *)
(* watcher reads them (processEvents, LoadScript), what it settles on is   *)
(* the file as it is.                                                      *)
THEOREM WatcherSettles == Spec => []SettledIsCurrent
<1>1. IInv => SettledIsCurrent
  BY DEF IInv
<1> QED
  BY <1>1, Inductive, PTL

-----------------------------------------------------------------------------
=============================================================================
