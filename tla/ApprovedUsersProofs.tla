------------------------ MODULE ApprovedUsersProofs ------------------------
(***************************************************************************)
(* Proofs about ApprovedUsers for any members, any FirstMessagesCount, any *)
(* use of the web UI and any failing operations on the table.              *)
(***************************************************************************)
EXTENDS ApprovedUsers, TLAPS

-----------------------------------------------------------------------------
(* The inductive invariant.  ApprovalHasGrounds and ApprovalIsSaved speak  *)
(* of the chat's memory alone, but a restart fills the memory from the     *)
(* table and the second step of a removal empties the table: so the rows   *)
(* need grounds too, and a member in mid-removal must be out of the        *)
(* memory.                                                                 *)

(* What the chat remembers, or will after a restart, has grounds. *)
Grounded == \A u \in Users :
  memory["chat"][u] > 0 \/ u \in stored => grounds[u] > 0

(* A member the chat is removing is out of its memory already. *)
Leaving == \A u \in Users : <<"chat", u>> \in removing => memory["chat"][u] = 0

(* What the chat remembers is in the table, mishaps aside. *)
Saved == \A u \in Users \ mishaps : memory["chat"][u] > 0 => u \in stored

IInv == TypeOK /\ Grounded /\ Leaving /\ Saved

-----------------------------------------------------------------------------
(* The next count is a count, and never 0. *)
LEMMA NextCount ==
  ASSUME NEW n \in 0 .. Full
  PROVE  Next1(n) \in 0 .. Full /\ Next1(n) > 0
BY ApprovedUsersAssumption DEF Next1, Full

LEMMA FullIsCount == Full \in 0 .. Full /\ Full > 0
BY ApprovedUsersAssumption DEF Full

(* A member counted while it was written, or could not be, is saved or a   *)
(* mishap; the others keep their rows and their mishaps.                   *)
LEMMA WriteKeeps ==
  ASSUME TypeOK, NEW u \in Users, NEW fails, Write(u, fails)
  PROVE  /\ stored' \in SUBSET Users /\ mishaps' \in SUBSET Users
         /\ u \in stored' \/ u \in mishaps'
         /\ stored' \subseteq stored \cup {u}
         /\ \A v \in Users \ {u} : /\ v \in stored' <=> v \in stored
                                   /\ v \in mishaps' <=> v \in mishaps
BY DEF TypeOK, Write

(* The common part of Check and AddApprovedUser: a count of u becomes n,   *)
(* possibly 0 only in the web UI, the row is written, and u gains grounds. *)
LEMMA Counted ==
  ASSUME IInv, NEW d \in Detectors, NEW u \in Users, NEW fails,
         NEW n \in 0 .. Full, NEW g \in 0 .. Full, g > 0,
         Free(d),
         memory' = [memory EXCEPT ![d][u] = n],
         Write(u, fails),
         grounds' = [grounds EXCEPT ![u] = g],
         removing' = removing
  PROVE  IInv'
<1> USE DEF IInv
<1>1. TypeOK'
  BY WriteKeeps DEF TypeOK
<1>2. \A v \in Users : v # u \/ d # "chat" => memory'["chat"][v] = memory["chat"][v]
  BY DEF TypeOK, Detectors
<1>3. \A v \in Users : grounds'[v] = IF v = u THEN g ELSE grounds[v]
  BY DEF TypeOK
<1>4. Grounded'
  BY <1>1, <1>2, <1>3, WriteKeeps DEF Grounded
<1>5. Leaving'
  BY <1>2 DEF Leaving, Free
<1>6. Saved'
  BY <1>2, WriteKeeps DEF Saved
<1> QED
  BY <1>1, <1>4, <1>5, <1>6

-----------------------------------------------------------------------------
(* The steps.                                                              *)

LEMMA InitInv == Init => IInv
BY ApprovedUsersAssumption
   DEF Init, IInv, TypeOK, Grounded, Leaving, Saved, Detectors, Full

LEMMA CheckInv ==
  ASSUME IInv, NEW d \in Detectors, NEW u \in Users, NEW overturned, NEW fails,
         Check(d, u, overturned, fails)
  PROVE  IInv'
<1>1. memory[d][u] \in 0 .. Full /\ grounds[u] \in 0 .. Full
  BY DEF IInv, TypeOK
<1>2. PICK n \in 0 .. Full : memory' = [memory EXCEPT ![d][u] = n]
  BY <1>1, NextCount DEF Check
<1>3. Next1(grounds[u]) \in 0 .. Full /\ Next1(grounds[u]) > 0
  BY <1>1, NextCount
<1>4. grounds' = [grounds EXCEPT ![u] = Next1(grounds[u])]
  BY DEF Check
<1> QED
  BY <1>2, <1>3, <1>4, Counted DEF Check

LEMMA AddInv ==
  ASSUME IInv, NEW d \in Detectors, NEW u \in Users, NEW fails,
         AddApprovedUser(d, u, fails)
  PROVE  IInv'
BY FullIsCount, Counted DEF AddApprovedUser

LEMMA RemoveInv ==
  ASSUME IInv, NEW d \in Detectors, NEW u \in Users, RemoveApprovedUser(d, u)
  PROVE  IInv'
<1> USE DEF IInv, RemoveApprovedUser
<1>1. TypeOK'
  BY FullIsCount DEF TypeOK
<1>2. \A v \in Users : \/ memory'["chat"][v] = memory["chat"][v]
                       \/ memory'["chat"][v] = 0
  BY DEF TypeOK, Detectors
<1>3. d = "chat" => memory'["chat"][u] = 0
  BY DEF TypeOK
<1>4. Grounded' /\ Leaving' /\ Saved'
  BY <1>2, <1>3 DEF Grounded, Leaving, Saved
<1> QED
  BY <1>1, <1>4

LEMMA DeleteInv ==
  ASSUME IInv, NEW d \in Detectors, NEW u \in Users, NEW fails,
         Delete(d, u, fails)
  PROVE  IInv'
<1> USE DEF IInv, Delete
<1>1. TypeOK'
  BY FullIsCount DEF TypeOK
<1>2. CASE "delete" \in fails
  BY <1>1, <1>2 DEF Grounded, Leaving, Saved
<1>3. CASE "delete" \notin fails /\ d = "chat"
  <2>1. memory["chat"][u] = 0
    BY <1>3 DEF Leaving
  <2>2. \A v \in Users : v # u => grounds'[v] = grounds[v]
    BY <1>3 DEF TypeOK
  <2> QED
    BY <1>1, <1>3, <2>1, <2>2 DEF Grounded, Leaving, Saved
<1>4. CASE "delete" \notin fails /\ d # "chat"
  BY <1>1, <1>4 DEF Grounded, Leaving, Saved, Detectors
<1> QED
  BY <1>2, <1>3, <1>4

LEMMA RestartInv == ASSUME IInv, Restart PROVE IInv'
<1> USE DEF IInv, Restart
<1>1. TypeOK'
  BY FullIsCount DEF TypeOK
<1>2. \A u \in Users : memory'["chat"][u] > 0 => u \in stored
  BY DEF Detectors
<1>3. Grounded' /\ Leaving' /\ Saved'
  BY <1>2 DEF Grounded, Leaving, Saved
<1> QED
  BY <1>1, <1>3

LEMMA StutterInv == ASSUME IInv, UNCHANGED vars PROVE IInv'
BY DEF IInv, vars, TypeOK, Grounded, Leaving, Saved

(* The conjunction is an invariant of every behaviour. *)
THEOREM Invariance == Spec => []IInv
<1>1. Init => IInv
  BY InitInv
<1>2. IInv /\ [Next]_vars => IInv'
  <2> SUFFICES ASSUME IInv, [Next]_vars PROVE IInv'
    OBVIOUS
  <2>1. CASE Restart
    BY <2>1, RestartInv
  <2>2. ASSUME NEW d \in Detectors, NEW u \in Users, RemoveApprovedUser(d, u)
        PROVE  IInv'
    BY <2>2, RemoveInv
  <2>3. ASSUME NEW d \in Detectors, NEW u \in Users,
               NEW fails \in SUBSET MayFail, NEW overturned \in BOOLEAN,
               Check(d, u, overturned, fails)
        PROVE  IInv'
    BY <2>3, CheckInv
  <2>4. ASSUME NEW d \in Detectors, NEW u \in Users,
               NEW fails \in SUBSET MayFail, AddApprovedUser(d, u, fails)
        PROVE  IInv'
    BY <2>4, AddInv
  <2>5. ASSUME NEW d \in Detectors, NEW u \in Users,
               NEW fails \in SUBSET MayFail, Delete(d, u, fails)
        PROVE  IInv'
    BY <2>5, DeleteInv
  <2>6. CASE UNCHANGED vars
    BY <2>6, StutterInv
  <2> QED
    BY <2>1, <2>2, <2>3, <2>4, <2>5, <2>6 DEF Next
<1> QED
  BY <1>1, <1>2, PTL DEF Spec

(* All variables keep their types: no interleaving of the two detectors,   *)
(* no failure and no restart takes a count out of its range.               *)
THEOREM TypeCorrect == Spec => []TypeOK
<1>1. IInv => TypeOK
  BY DEF IInv
<1> QED
  BY <1>1, Invariance, PTL

(* A member the chat removed, and whose row went with it, is checked again *)
(* until somebody speaks for it, whatever the web UI does at the same time *)
(* and however often the process restarts.                                 *)
THEOREM ApprovalGrounded == Spec => []ApprovalHasGrounds
<1>1. IInv => ApprovalHasGrounds
  BY ApprovedUsersAssumption
     DEF IInv, TypeOK, Grounded, ApprovalHasGrounds, PreApproved, Detectors
<1> QED
  BY <1>1, Invariance, PTL

(* A member the chat lets pass is in the table and survives a restart,     *)
(* unless its row could not be written or the web UI deleted it.           *)
THEOREM ApprovalSaved == Spec => []ApprovalIsSaved
<1>1. IInv => ApprovalIsSaved
  BY ApprovedUsersAssumption
     DEF IInv, TypeOK, Saved, ApprovalIsSaved, PreApproved, Detectors
<1> QED
  BY <1>1, Invariance, PTL

=============================================================================
