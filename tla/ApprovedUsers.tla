--------------------------- MODULE ApprovedUsers ---------------------------
(***************************************************************************)
(* Who is approved (lib/tgspam/detector.go over the table of               *)
(* app/storage/approved_users.go) in a bot with one group and a web UI.    *)
(*                                                                         *)
(* main.go builds two detectors over the same rows of the table: the one   *)
(* of the chat, which the listener uses from its only goroutine, and the   *)
(* one of the web UI, used by any number of requests at a time.  Each      *)
(* keeps its own count of good messages per member; the table keeps only   *)
(* the names.  Removing a member drops the count under the detector's lock *)
(* and the row after it: anything may happen between the two steps.  The   *)
(* process may stop and start at any time.                                 *)
(***************************************************************************)
EXTENDS Integers

CONSTANTS
  Users,
  FirstMessagesCount,  \* good messages before a member is left alone
  WebActs,             \* what the clients of the web UI do
  MayFail              \* the operations on the table that may fail

ASSUME ApprovedUsersAssumption ==
  /\ FirstMessagesCount \in Nat \ {0}
  /\ WebActs \subseteq {"check", "add", "remove"}
  /\ MayFail \subseteq {"write", "delete"}

VARIABLES
  memory,    \* per detector, the count of each member, 0 = not in the map
  stored,    \* the members in the table
  removing,  \* the removals between their two steps: <<detector, member>>
  grounds,   \* history: good messages and approvals since the last removal
             \* by the chat that went through
  mishaps    \* history: those whose row the chat could not write, or the
             \* web UI deleted, since it was last written

vars == <<memory, stored, removing, grounds, mishaps>>

Detectors == {"chat", "web"}

Full == FirstMessagesCount + 1

(* Mutant: one step past Full. *)
Next1Past(n) == IF n <= Full THEN n + 1 ELSE Full

(* Counts are only compared with FirstMessagesCount: Full stands for all   *)
(* that exceed it.                                                         *)
Next1(n) == IF n < Full THEN n + 1 ELSE Full

-----------------------------------------------------------------------------
(* Check lets the messages of these members pass unread.                   *)
PreApproved(d, u) == memory[d][u] >= FirstMessagesCount

(* The listener does one thing at a time.                                  *)
Free(d) == d = "chat" => \A u \in Users : <<"chat", u>> \notin removing

(* The web UI is used for this.                                            *)
Allowed(d, act) == d = "web" => act \in WebActs

(* Mutant: Check forgets the table. *)
WriteNothing(u, fails) ==
  UNCHANGED <<stored, mishaps>>

(* Write: INSERT OR REPLACE of the row.  A failure is ignored by Check and *)
(* reported, with the count left as it is, by AddApprovedUser.             *)
Write(u, fails) ==
  IF "write" \in fails
  THEN stored' = stored /\ mishaps' = mishaps \cup ({u} \ stored)
  ELSE stored' = stored \cup {u} /\ mishaps' = mishaps \ {u}

-----------------------------------------------------------------------------
Init ==
  /\ memory = [d \in Detectors |-> [u \in Users |-> 0]]
  /\ stored = {}
  /\ removing = {}
  /\ grounds = [u \in Users |-> 0]
  /\ mishaps = {}

(* The end of Check for a good message that is long enough: it counts.     *)
(* The message of a pre-approved member gets there when the duplicate      *)
(* check took it for spam and a language model overturned that.  Checks of *)
(* the web UI write the map under a read lock: the count of one may        *)
(* overwrite that of another.                                              *)
Check(d, u, overturned, fails) ==
  /\ Free(d) /\ Allowed(d, "check")
  /\ ~PreApproved(d, u) \/ overturned
  /\ \E n \in {Next1(memory[d][u])}
               \cup (IF d = "web" THEN {memory[d][u]} \ {0} ELSE {}) :
       memory' = [memory EXCEPT ![d][u] = n]
  /\ Write(u, fails)
  /\ grounds' = [grounds EXCEPT ![u] = Next1(@)]
  /\ UNCHANGED removing

(* AddApprovedUser: an unban in the admin chat, POST /users/add.           *)
AddApprovedUser(d, u, fails) ==
  /\ Free(d) /\ Allowed(d, "add")
  /\ memory' = [memory EXCEPT ![d][u] = Full]
  /\ Write(u, fails)
  /\ grounds' = [grounds EXCEPT ![u] = Full]
  /\ UNCHANGED removing

(* Mutant: only the row is deleted. *)
RemoveApprovedUserLater(d, u) ==
  /\ Free(d) /\ Allowed(d, "remove")
  /\ <<d, u>> \notin removing
  /\ removing' = removing \cup {<<d, u>>}
  /\ UNCHANGED <<memory, stored, grounds, mishaps>>

(* RemoveApprovedUser up to its Unlock: a ban in the chat, POST            *)
(* /users/delete ...                                                       *)
RemoveApprovedUser(d, u) ==
  /\ Free(d) /\ Allowed(d, "remove")
  /\ <<d, u>> \notin removing
  /\ memory' = [memory EXCEPT ![d][u] = 0]
  /\ removing' = removing \cup {<<d, u>>}
  /\ UNCHANGED <<stored, grounds, mishaps>>

(* ... and the rest of it: Delete.  A missing row is an error that changes *)
(* nothing.                                                                *)
Delete(d, u, fails) ==
  /\ <<d, u>> \in removing
  /\ removing' = removing \ {<<d, u>>}
  /\ stored' = IF "delete" \in fails THEN stored ELSE stored \ {u}
  /\ grounds' = IF d = "chat" /\ "delete" \notin fails
                THEN [grounds EXCEPT ![u] = 0] ELSE grounds
  /\ mishaps' = IF d = "web" /\ "delete" \notin fails
                THEN mishaps \cup {u} ELSE mishaps
  /\ UNCHANGED memory

(* The process stops, wherever it is, and starts again: WithUserStorage    *)
(* reads the table.                                                        *)
Restart ==
  /\ memory' = [d \in Detectors |->
                  [u \in Users |-> IF u \in stored THEN Full ELSE 0]]
  /\ removing' = {}
  /\ UNCHANGED <<stored, grounds, mishaps>>

Next ==
  \/ Restart
  \/ \E d \in Detectors, u \in Users :
       \/ RemoveApprovedUser(d, u)
       \/ \E fails \in SUBSET MayFail :
            \/ \E overturned \in BOOLEAN : Check(d, u, overturned, fails)
            \/ AddApprovedUser(d, u, fails)
            \/ Delete(d, u, fails)

Spec == Init /\ [][Next]_vars

-----------------------------------------------------------------------------
(* All variables keep their types. *)
TypeOK ==
  /\ memory \in [Detectors -> [Users -> 0 .. Full]]
  /\ stored \in SUBSET Users
  /\ removing \in SUBSET (Detectors \X Users)
  /\ grounds \in [Users -> 0 .. Full]
  /\ mishaps \in SUBSET Users

(* Once the chat removed a member and the removal went through, the member *)
(* is checked again, over restarts and whatever the web UI did meanwhile,  *)
(* until a good message or an admin speaks for it: RemoveApprovedUser and  *)
(* the reload never let a removed member slip back.                        *)
ApprovalHasGrounds ==
  \A u \in Users : PreApproved("chat", u) => grounds[u] > 0

(* A member the chat lets pass is in the table, so that a restart does not *)
(* forget it, unless its row could not be written or the web UI deleted    *)
(* it; no interleaving of removals loses a row.                            *)
ApprovalIsSaved ==
  \A u \in Users \ mishaps : PreApproved("chat", u) => u \in stored

=============================================================================
