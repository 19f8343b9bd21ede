----------------------------- MODULE Duplicates -----------------------------
(***************************************************************************)
(* duplicateDetector and reactionDetector (lib/tgspam/duplicate.go,        *)
(* reaction.go): what the detector of a chat remembers of each member to   *)
(* see the same text posted over and over, or a burst of reactions.  Both  *)
(* keep their memory in caches bounded in members, in entries and in time. *)
(***************************************************************************)
EXTENDS Integers, FiniteSets

CONSTANTS
  Users,            \* the members who post and react
  DuplicateWindow,  \* how long a message counts (--duplicates.window)
  ReactionWindow,   \* how long a count of reactions lasts
  MaxUsers,         \* members a cache holds (10000)
  MaxEntries,       \* messages remembered of one member (200)
  MaxIDs            \* ids handed over for deletion (100)

ASSUME DuplicatesAssumption ==
  /\ IsFiniteSet(Users)
  /\ {DuplicateWindow, ReactionWindow} \subseteq Nat
  /\ {MaxUsers, MaxEntries, MaxIDs} \subseteq Nat \ {0}

(* What the code keeps in slices and in the order of a cache carries the   *)
(* instant it was put there: no two things come in the same instant.       *)
VARIABLES
  history,    \* the messages remembered of each member: [text, id, at]
  cached,     \* the members in the cache, and when each was set: [user, at]
  reactions   \* the cached counts: [user, count, first, at]

-----------------------------------------------------------------------------
(* The end of a slice, or what a full cache keeps: the n newest. *)
Newest(entries, n) ==
  {e \in entries : Cardinality({d \in entries : d.at > e.at}) < n}

(* filterExpiredEntries *)
Live(entries, now) ==
  {e \in entries : e.at > now - DuplicateWindow}

(* Mutant: an edited message stays under its old text. *)
WithoutOldNever(entries, text, id) == entries

(* An edit that changed the text takes the message away from the old one.  *)
(* Requests of the web UI have the id 0, which is never an edit.           *)
WithoutOld(entries, text, id) ==
  {e \in entries : id = 0 \/ e.id # id \/ e.text = text}

IsEdit(entries, text, id) ==
  id > 0 /\ \E e \in entries : e.id = id /\ e.text = text

(* Mutant: nothing makes room. *)
LimitedNever(entries) == entries

(* limitEntries *)
Limited(entries) == Newest(entries, MaxEntries)

(* trackMessage, for the entries of the sender. *)
Kept(u, text, id, now) == WithoutOld(Live(history[u], now), text, id)

Tracked(u, text, id, now) ==
  LET kept == Kept(u, text, id, now)
  IN IF IsEdit(kept, text, id) THEN kept
     ELSE Limited(kept \cup {[text |-> text, id |-> id, at |-> now]})

(* performCleanup: who has nothing left leaves the cache, and the order of *)
(* the others stays.                                                       *)
Tidied(now) == [u \in Users |-> Live(history[u], now)]

TidiedCache(now) == {c \in cached : Live(history[c.user], now) # {}}

(* The cache takes the member in, or sets it anew, and drops the one set   *)
(* longest ago when there are too many.  "tidy": the clean-up came first,  *)
(* as it does after ten minutes without one.                               *)
TrackMessage(u, text, id, now, tidy) ==
  LET before == IF tidy THEN TidiedCache(now) ELSE cached
  IN /\ cached' = Newest({c \in before : c.user # u}
                           \cup {[user |-> u, at |-> now]}, MaxUsers)
     /\ history' =
          [v \in Users |->
             IF v \notin {c.user : c \in cached'} THEN {}
             ELSE IF v = u THEN Tracked(u, text, id, now)
             ELSE IF tidy THEN Tidied(now)[v] ELSE history[v]]

Repeats(entries, text) == {e \in entries : e.text = text}

(* The verdict of check: the message itself is no edit of one it knows.    *)
IsDuplicate(threshold, u, text, id, now) ==
  /\ threshold > 0
  /\ ~IsEdit(Kept(u, text, id, now), text, id)
  /\ Cardinality(Repeats(Tracked(u, text, id, now), text)) >= threshold

(* Mutant: all that the member has in memory. *)
ExtraIDsAll(u, text, id, now) ==
  {e.id : e \in {d \in Tracked(u, text, id, now) : d.id \notin {0, id}}}

(* ExtraDeleteIDs: the messages it repeats, for deletion with it: all but  *)
(* the newest, whether that is the message itself or not.                  *)
ExtraIDs(u, text, id, now) ==
  LET repeats == Repeats(Tracked(u, text, id, now), text)
      own == {e \in repeats : e.id > 0}
      ids == IF id > 0 THEN Newest(own, MaxIDs) ELSE own
  IN {e.id : e \in ids \ Newest(ids, 1)}

-----------------------------------------------------------------------------
(* Mutant: the window slides with every reaction. *)
CountSliding(entry, now) ==
  IF entry.count = 0 \/ now > entry.first + ReactionWindow
  THEN [entry EXCEPT !.count = 1, !.first = now, !.at = now]
  ELSE [entry EXCEPT !.count = @ + 1, !.first = now, !.at = now]

(* check: a count starts with a reaction and lasts for the window. *)
Count(entry, now) ==
  IF entry.count = 0 \/ now > entry.first + ReactionWindow
  THEN [entry EXCEPT !.count = 1, !.first = now, !.at = now]
  ELSE [entry EXCEPT !.count = @ + 1, !.at = now]

Counted(u, now) ==
  LET known == {e \in reactions : e.user = u}
  IN Count(IF known = {} THEN [user |-> u, count |-> 0, first |-> 0, at |-> 0]
           ELSE CHOOSE e \in known : TRUE, now)

RecordReaction(u, now) ==
  reactions' = Newest({e \in reactions : e.user # u} \cup {Counted(u, now)},
                      MaxUsers)

=============================================================================
