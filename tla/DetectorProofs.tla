--------------------------- MODULE DetectorProofs ---------------------------
(***************************************************************************)
(* Proofs about Detector, for any members, texts, windows, limits, set-ups *)
(* of language models and answers, and any updates in any order: what the  *)
(* verdicts rest on is what the chat has, and the models overrule the      *)
(* checks by consensus only.                                               *)
(***************************************************************************)
EXTENDS Detector, FiniteSetTheorems, WellFoundedInduction, TLAPS

-----------------------------------------------------------------------------
(* Sets of things with an instant each, and the n newest of them.          *)

LEMMA LeastNumber ==
  ASSUME NEW S \in SUBSET Nat, S # {}
  PROVE  \E n \in S : \A m \in S : n <= m
<1>1. PICK x \in S : \A y \in S : ~(<<y, x>> \in OpToRel(<, Nat))
  BY NatLessThanWellFounded, WFMin, Zenon
<1>2. \A y \in S : ~(y < x)
  BY <1>1 DEF OpToRel
<1> QED
  BY <1>2

LEMMA OldestExists ==
  ASSUME NEW S, S # {}, \A e \in S : e.at \in Nat
  PROVE  \E e \in S : \A d \in S : e.at <= d.at
<1> DEFINE T == {e.at : e \in S}
<1>1. T \in SUBSET Nat /\ T # {}
  OBVIOUS
<1>2. PICK n \in T : \A m \in T : n <= m
  BY <1>1, LeastNumber
<1>3. PICK e \in S : n = e.at
  BY <1>2
<1>4. \A d \in S : d.at \in T
  OBVIOUS
<1> QED
  BY <1>2, <1>3, <1>4

LEMMA LatestExists ==
  ASSUME NEW S, S # {}, NEW bound \in Nat, \A e \in S : e.at \in 0 .. bound
  PROVE  \E e \in S : \A d \in S : d.at <= e.at
<1> DEFINE T == {bound - e.at : e \in S}
<1>1. T \in SUBSET Nat /\ T # {}
  OBVIOUS
<1>2. PICK n \in T : \A m \in T : n <= m
  BY <1>1, LeastNumber
<1>3. PICK e \in S : n = bound - e.at
  BY <1>2
<1>4. \A d \in S : bound - d.at \in T
  OBVIOUS
<1>5. \A d \in S : bound - e.at <= bound - d.at
  BY <1>2, <1>3, <1>4
<1> QED
  BY <1>5

LEMMA NewestIsSubset ==
  ASSUME NEW S, NEW n
  PROVE  Newest(S, n) \in SUBSET S
BY DEF Newest

(* There are at most n of them.                                            *)
LEMMA NewestBound ==
  ASSUME NEW S, IsFiniteSet(S), NEW n \in Nat, \A e \in S : e.at \in Nat,
         \A e, d \in S : e.at = d.at => e = d
  PROVE  IsFiniteSet(Newest(S, n)) /\ Cardinality(Newest(S, n)) <= n
<1> DEFINE N == Newest(S, n)
<1>1. N \in SUBSET S /\ IsFiniteSet(N)
  BY NewestIsSubset, FS_Subset
<1>2. CASE N = {}
  BY <1>1, <1>2, FS_EmptySet
<1>3. CASE N # {}
  <2>1. PICK e \in N : \A d \in N : e.at <= d.at
    BY <1>1, <1>3, OldestExists
  <2> DEFINE L == {d \in S : d.at > e.at}
  <2>2. Cardinality(L) < n /\ IsFiniteSet(L) /\ Cardinality(L) \in Nat
    BY <2>1, FS_Subset, FS_CardinalityType DEF Newest
  <2>3. N \ {e} \in SUBSET L
    BY <1>1, <2>1
  <2>4. Cardinality(N \ {e}) <= Cardinality(L)
    BY <2>2, <2>3, FS_Subset
  <2>5. Cardinality(N \ {e}) = Cardinality(N) - 1 /\ Cardinality(N) \in Nat
    BY <1>1, <2>1, FS_RemoveElement, FS_CardinalityType
  <2> HIDE DEF L, N
  <2>6. Cardinality(N) <= n
    BY <2>2, <2>4, <2>5
  <2> QED
    BY <1>1, <2>6 DEF N
<1> QED
  BY <1>2, <1>3

(* What comes last is among them.                                          *)
LEMMA LatestIsNewest ==
  ASSUME NEW S, NEW n \in Nat \ {0}, NEW e \in S,
         \A d \in S : ~(d.at > e.at)
  PROVE  e \in Newest(S, n)
<1>1. {d \in S : d.at > e.at} = {}
  OBVIOUS
<1> QED
  BY <1>1, FS_EmptySet DEF Newest

(* If there are no more than n, all are.                                   *)
LEMMA NewestIsAll ==
  ASSUME NEW S, IsFiniteSet(S), NEW n \in Nat, Cardinality(S) <= n,
         \A e \in S : e.at \in Nat
  PROVE  Newest(S, n) = S
<1> SUFFICES ASSUME NEW e \in S PROVE e \in Newest(S, n)
  BY NewestIsSubset
<1> DEFINE L == {d \in S : d.at > e.at}
<1>1. L \in SUBSET (S \ {e})
  OBVIOUS
<1>2. /\ IsFiniteSet(S \ {e}) /\ Cardinality(S \ {e}) = Cardinality(S) - 1
      /\ Cardinality(S) \in Nat
  BY FS_RemoveElement, FS_CardinalityType
<1>3. Cardinality(L) <= Cardinality(S \ {e}) /\ Cardinality(L) \in Nat
  BY <1>1, <1>2, FS_Subset, FS_CardinalityType
<1> HIDE DEF L
<1>4. Cardinality(L) < n
  BY <1>2, <1>3
<1> QED
  BY <1>4 DEF Newest, L

(* A set whose members are told apart by f, within a finite set.           *)
LEMMA FewerThan ==
  ASSUME NEW S, NEW T, IsFiniteSet(T), NEW f \in [S -> T],
         \A x, y \in S : f[x] = f[y] => x = y
  PROVE  IsFiniteSet(S) /\ Cardinality(S) <= Cardinality(T)
BY FS_Injection DEF Injection, IsInjective

-----------------------------------------------------------------------------
(* The inductive invariant, in parts by the variables they are about.      *)

ClockOK == setting \in Settings /\ now \in 0 .. MaxTime

CountsOK == approvedUsers \in [Users -> Nat]

Post == [id : Nat, user : Users, text : Texts, at : Nat, touched : Nat,
         had : SUBSET Texts, passed : BOOLEAN]

ChatOK ==
  /\ chat \in SUBSET Post /\ IsFiniteSet(chat)
  /\ \A p \in chat : /\ p.id \in 1 .. now /\ p.text \in p.had
                     /\ p.at \in 1 .. p.touched /\ p.touched \in 1 .. now
  /\ \A p, q \in chat : p.id = q.id => p = q

(* The rows of the locator are of messages that were posted with the text. *)
Row == [text : Texts, user : Users, named : BOOLEAN, at : Nat, id : Nat]

RowsOK ==
  /\ messages \in SUBSET Row /\ IsFiniteSet(messages)
  /\ \A r \in messages : /\ r.at \in 1 .. now
                         /\ \E p \in chat : /\ p.id = r.id /\ p.user = r.user
                                            /\ r.text \in p.had

(* What was posted recently still has its row, or one that is newer.       *)
RowsRemember ==
  setting.fails = {} =>
    \A p \in chat : p.touched >= now - TTL =>
      \E r \in messages : r.text = p.text /\ r.at >= p.touched

(* The memory of the duplicate detector. *)
Entry == [text : Texts, id : Nat, at : Nat]

(* An entry is of a message that has had the text ever since.              *)
Seen(e, u) == \E p \in chat : /\ p.user = u /\ p.id = e.id /\ p.text = e.text
                              /\ p.at <= e.at /\ p.touched >= e.at

HistoryOK ==
  /\ history \in [Users -> SUBSET Entry]
  /\ \A u \in Users :
       /\ IsFiniteSet(history[u]) /\ Cardinality(history[u]) <= MaxEntries
       /\ setting.duplicates = 0 => history[u] = {}
       /\ \A e \in history[u] :
            /\ e.at \in 1 .. now
            /\ e.id > 0 => Seen(e, u)
            /\ "check" \notin setting.updates => e.id > 0
            /\ \E c \in cached : c.user = u /\ c.at >= e.at
       /\ \A e, d \in history[u] :
            e.at = d.at \/ (e.id > 0 /\ e.id = d.id) => e = d

CacheOK ==
  /\ cached \in SUBSET [user : Users, at : Nat]
  /\ IsFiniteSet(cached) /\ Cardinality(cached) <= MaxUsers
  /\ \A c \in cached :
       /\ c.at \in 1 .. now
       /\ "check" \notin setting.updates =>
            \E p \in chat : p.user = c.user /\ p.touched >= c.at
  /\ \A c, d \in cached : c.user = d.user \/ c.at = d.at => c = d

(* DuplicatesAreRemembered, in these terms: what a member, and which       *)
(* others, have posted since a message got its text.                       *)
OwnSince(p) == {q \in chat : q.touched > p.at /\ q.user = p.user} \ {p}

OthersSince(p) == {q.user : q \in {r \in chat : r.touched > p.at}} \ {p.user}

Remembered ==
  setting.duplicates > 0 /\ setting.updates \cap {"restart", "check"} = {} =>
    \A p \in chat :
      /\ p.at > now - DuplicateWindow
      /\ Cardinality(OwnSince(p)) < MaxEntries
      /\ Cardinality(OthersSince(p)) < MaxUsers
      => \E e \in history[p.user] : e.id = p.id

(* The counts of reactions, and what each reaction was told.               *)
CountEntry == [user : Users, count : Nat, first : Nat, at : Nat]

Reacted == [user : Users, at : Nat, first : Nat, spam : BOOLEAN]

ReactionsSince(u, from) == {r \in reacted : r.user = u /\ r.at >= from}

ReactionsOK ==
  /\ reactions \in SUBSET CountEntry
  /\ IsFiniteSet(reactions) /\ Cardinality(reactions) <= MaxUsers
  /\ \A e \in reactions :
       /\ e.user \in setting.users
       /\ e.first \in 1 .. e.at /\ e.at \in 1 .. now /\ e.count \in 1 .. e.at
       /\ e.count <= Cardinality(ReactionsSince(e.user, e.first))
  /\ \A e, d \in reactions : e.user = d.user \/ e.at = d.at => e = d

ReactedOK ==
  /\ reacted \in SUBSET Reacted /\ IsFiniteSet(reacted)
  /\ \A r \in reacted :
       /\ r.at \in 1 .. now
       /\ r.spam => Cardinality(ReactionsOf(r.user, r.at - ReactionWindow, r.at))
                      >= setting.reactions

(* Without restarts, and with room for all, no count is ever lost.         *)
Unbroken ==
  "restart" \notin setting.updates /\ Cardinality(setting.users) <= MaxUsers

(* Each reaction was counted from the start of its window; the windows of  *)
(* a member follow each other.                                             *)
WindowsFollow ==
  Unbroken =>
    /\ \A r \in reacted :
         /\ r.first \in 1 .. r.at
         /\ r.spam = (Cardinality(ReactionsOf(r.user, r.first, r.at))
                        >= setting.reactions)
         /\ \E e \in reactions : e.user = r.user
         /\ \A s \in reacted : s.user = r.user /\ s.at < r.first =>
              s.first + ReactionWindow < r.first
    /\ \A e \in reactions :
         /\ e.count = Cardinality(ReactionsSince(e.user, e.first))
         /\ \A r \in reacted : r.user = e.user =>
              IF r.at < e.first THEN r.first + ReactionWindow < e.first
              ELSE r.first = e.first

IInv ==
  /\ ClockOK /\ CountsOK /\ ChatOK /\ RowsOK /\ RowsRemember
  /\ HistoryOK /\ CacheOK /\ Remembered
  /\ ReactionsOK /\ ReactedOK /\ WindowsFollow
  /\ ExtrasAreRepeats /\ OverruledByConsensus /\ FloodIsStopped

-----------------------------------------------------------------------------
(* The memory of the duplicate detector. *)

(* What is tracked of a member is what was live and not edited away, and   *)
(* perhaps the message at hand.                                            *)
LEMMA TrackedEntries ==
  ASSUME NEW u \in Users, NEW text, NEW id, NEW t,
         NEW e \in Tracked(u, text, id, t)
  PROVE  \/ e \in history[u] /\ (id = 0 \/ e.id # id \/ e.text = text)
         \/ /\ e = [text |-> text, id |-> id, at |-> t]
            /\ ~IsEdit(Kept(u, text, id, t), text, id)
BY NewestIsSubset DEF Tracked, Limited, Kept, WithoutOld, Live

LEMMA TrackedTyped ==
  ASSUME HistoryOK, NEW u \in Users, NEW text \in Texts, NEW id \in Nat,
         now \in Nat, NEW t \in Nat, now < t
  PROVE  /\ Tracked(u, text, id, t) \in SUBSET Entry
         /\ IsFiniteSet(Tracked(u, text, id, t))
         /\ Cardinality(Tracked(u, text, id, t)) <= MaxEntries
         /\ \A e, d \in Tracked(u, text, id, t) :
              e.at = d.at \/ (e.id > 0 /\ e.id = d.id) => e = d
<1> DEFINE kept == Kept(u, text, id, t)
           new == [text |-> text, id |-> id, at |-> t]
           T == Tracked(u, text, id, t)
<1>1. /\ kept \in SUBSET history[u] /\ history[u] \in SUBSET Entry
      /\ IsFiniteSet(history[u]) /\ Cardinality(history[u]) <= MaxEntries
      /\ \A e \in history[u] : e.at \in 1 .. now
      /\ \A e, d \in history[u] :
           e.at = d.at \/ (e.id > 0 /\ e.id = d.id) => e = d
  BY DEF HistoryOK, Kept, WithoutOld, Live
<1>2. /\ IsFiniteSet(kept) /\ Cardinality(kept) <= Cardinality(history[u])
      /\ Cardinality(kept) \in Nat /\ Cardinality(history[u]) \in Nat
  BY <1>1, FS_Subset, FS_CardinalityType
<1>0. MaxEntries \in Nat \ {0} /\ new \in Entry
  BY DuplicatesAssumption DEF Entry
<1>3. CASE IsEdit(kept, text, id)
  <2>1. T = kept
    BY <1>3 DEF Tracked
  <2>2. Cardinality(kept) <= MaxEntries
    BY <1>0, <1>1, <1>2
  <2> QED
    BY <1>1, <1>2, <2>1, <2>2
<1>4. CASE ~IsEdit(kept, text, id)
  <2> DEFINE S == kept \cup {new}
  <2>1. T = Newest(S, MaxEntries)
    BY <1>4 DEF Tracked, Limited
  <2>2. IsFiniteSet(S)
    BY <1>2, FS_AddElement
  <2>3. S \in SUBSET Entry
    BY <1>0, <1>1
  <2>4. \A e \in kept : e.id # id \/ id = 0
    <3> SUFFICES ASSUME NEW e \in kept, e.id = id, id # 0 PROVE FALSE
      OBVIOUS
    <3>1. e.text = text
      BY DEF Kept, WithoutOld
    <3> QED
      BY <1>4, <3>1 DEF IsEdit
  <2>5. \A e, d \in S : e.at = d.at \/ (e.id > 0 /\ e.id = d.id) => e = d
    <3> SUFFICES ASSUME NEW e \in S, NEW d \in S,
                        e.at = d.at \/ (e.id > 0 /\ e.id = d.id)
                 PROVE  e = d
      OBVIOUS
    <3>1. new.at = t /\ new.id = id
      OBVIOUS
    <3> HIDE DEF new
    <3>2. \A c \in kept : c.at # new.at /\ ~(new.id > 0 /\ c.id = new.id)
      BY <1>1, <2>4, <3>1
    <3> QED
      BY <1>1, <3>2
  <2>6. \A e \in S : e.at \in Nat
    BY <2>3 DEF Entry
  <2> HIDE DEF S
  <2>7. IsFiniteSet(T) /\ Cardinality(T) <= MaxEntries /\ T \in SUBSET S
    BY <1>0, <2>1, <2>2, <2>5, <2>6, NewestBound, NewestIsSubset
  <2> QED
    BY <2>3, <2>5, <2>7
<1> QED
  BY <1>3, <1>4

(* The cache takes the member in, and others it has room for.              *)
LEMMA CacheTyped ==
  ASSUME CacheOK, NEW u \in Users, now \in Nat, NEW t \in Nat, now < t,
         NEW before \in SUBSET cached,
         cached' = Newest({c \in before : c.user # u}
                            \cup {[user |-> u, at |-> t]}, MaxUsers)
  PROVE  /\ cached' \in SUBSET [user : Users, at : Nat]
         /\ IsFiniteSet(cached') /\ Cardinality(cached') <= MaxUsers
         /\ [user |-> u, at |-> t] \in cached'
         /\ \A c \in cached' : \/ c \in before /\ c.user # u
                               \/ c = [user |-> u, at |-> t]
         /\ \A c, d \in cached' : c.user = d.user \/ c.at = d.at => c = d
<1> DEFINE new == [user |-> u, at |-> t]
           S == {c \in before : c.user # u} \cup {new}
<1>1. /\ before \in SUBSET cached /\ cached \in SUBSET [user : Users, at : Nat]
      /\ IsFiniteSet(cached)
      /\ \A c \in cached : c.at \in 1 .. now
      /\ \A c, d \in cached : c.user = d.user \/ c.at = d.at => c = d
  BY DEF CacheOK
<1>2. new.user = u /\ new.at = t /\ new \in [user : Users, at : Nat]
  OBVIOUS
<1>3. MaxUsers \in Nat \ {0}
  BY DuplicatesAssumption
<1>4. IsFiniteSet(S)
  <2>1. {c \in before : c.user # u} \in SUBSET cached
    BY <1>1
  <2>2. IsFiniteSet({c \in before : c.user # u})
    BY <1>1, <2>1, FS_Subset
  <2> QED
    BY <2>2, FS_AddElement
<1> HIDE DEF new
<1>5. S \in SUBSET [user : Users, at : Nat]
  BY <1>1, <1>2
<1>6. \A c \in before : c.at # new.at /\ c.at < new.at
  BY <1>1, <1>2
<1>7. \A c, d \in S : c.user = d.user \/ c.at = d.at => c = d
  BY <1>1, <1>2, <1>6
<1>8. \A c \in S : c.at \in Nat /\ ~(c.at > new.at)
  BY <1>2, <1>5, <1>6
<1>9. new \in S /\ \A c \in S : (c \in before /\ c.user # u) \/ c = new
  OBVIOUS
<1> HIDE DEF S
<1>10. cached' = Newest(S, MaxUsers)
  BY DEF S, new
<1>11. /\ IsFiniteSet(cached') /\ Cardinality(cached') <= MaxUsers
       /\ cached' \in SUBSET S /\ new \in cached'
  <2>1. \A c, d \in S : c.at = d.at => c = d
    BY <1>7
  <2>2. IsFiniteSet(cached') /\ Cardinality(cached') <= MaxUsers
    BY <1>3, <1>4, <1>8, <1>10, <2>1, NewestBound
  <2>3. cached' \in SUBSET S
    BY <1>10, NewestIsSubset
  <2>4. new \in cached'
    BY <1>3, <1>8, <1>9, <1>10, LatestIsNewest
  <2> QED
    BY <2>2, <2>3, <2>4
<1> QED
  BY <1>5, <1>7, <1>9, <1>11 DEF new

(* The chat still has what the memory is of, but for what an edit changed, *)
(* and it has the message at hand.                                         *)
ChatFollows(u, text, id, t) ==
  /\ \A v \in Users : \A e \in history[v] :
       /\ e.id > 0 /\ Seen(e, v)
       /\ v = u => id = 0 \/ e.id # id \/ e.text = text
       => Seen(e, v)'
  /\ id > 0 => \E p \in chat' : /\ p.user = u /\ p.id = id /\ p.text = text
                                /\ p.at <= t /\ p.touched >= t
  /\ \A c \in cached :
       (\E p \in chat : p.user = c.user /\ p.touched >= c.at)
         => \E p \in chat' : p.user = c.user /\ p.touched >= c.at

(* The members after trackMessage. *)
LEMMA TrackKeeps ==
  ASSUME HistoryOK, CacheOK, NEW u \in Users, NEW text \in Texts,
         NEW id \in Nat, NEW t \in Nat, now \in Nat, now' = t, t = now + 1,
         NEW tidy \in BOOLEAN, setting.duplicates # 0, TrackMessage(u, text, id, t, tidy),
         setting' = setting, id = 0 => "check" \in setting.updates,
         ChatFollows(u, text, id, t)
  PROVE  HistoryOK' /\ CacheOK'
<1> DEFINE before == IF tidy THEN TidiedCache(t) ELSE cached
           new == [user |-> u, at |-> t]
           T == Tracked(u, text, id, t)
<1>1. /\ before \in SUBSET cached
      /\ cached' = Newest({c \in before : c.user # u} \cup {new}, MaxUsers)
  BY DEF TrackMessage, TidiedCache
<1> HIDE DEF before
<1>2. /\ cached' \in SUBSET [user : Users, at : Nat]
      /\ IsFiniteSet(cached') /\ Cardinality(cached') <= MaxUsers
      /\ new \in cached'
      /\ \A c \in cached' : (c \in before /\ c.user # u) \/ c = new
      /\ \A c, d \in cached' : c.user = d.user \/ c.at = d.at => c = d
  <2>1. now < t
    OBVIOUS
  <2> QED
    BY <1>1, <2>1, CacheTyped
<1>3. CacheOK'
  <2> SUFFICES ASSUME NEW c \in cached'
               PROVE  /\ c.at \in 1 .. t
                      /\ "check" \notin setting.updates =>
                           \E p \in chat' : p.user = c.user /\ p.touched >= c.at
    BY <1>2 DEF CacheOK
  <2>1. CASE c \in before
    BY <1>1, <2>1 DEF CacheOK, ChatFollows
  <2>2. CASE c = new
    BY <2>2 DEF ChatFollows
  <2> QED
    BY <1>2, <2>1, <2>2
<1>4. /\ T \in SUBSET Entry /\ IsFiniteSet(T) /\ Cardinality(T) <= MaxEntries
      /\ \A e, d \in T : e.at = d.at \/ (e.id > 0 /\ e.id = d.id) => e = d
  <2>1. now < t
    OBVIOUS
  <2> QED
    BY <2>1, TrackedTyped
<1>5. ASSUME NEW v \in Users
      PROVE  /\ history'[v] \in SUBSET Entry
             /\ IsFiniteSet(history'[v]) /\ Cardinality(history'[v]) <= MaxEntries
             /\ \A e, d \in history'[v] :
                  e.at = d.at \/ (e.id > 0 /\ e.id = d.id) => e = d
             /\ \A e \in history'[v] :
                  /\ \/ e \in history[v] /\ (v = u => id = 0 \/ e.id # id
                                                       \/ e.text = text)
                     \/ v = u /\ e = [text |-> text, id |-> id, at |-> t]
                  /\ \E c \in cached' : c.user = v
  <2>0. MaxEntries \in Nat
    BY DuplicatesAssumption
  <2>1. CASE v \notin {c.user : c \in cached'}
    <3>1. history'[v] = {}
      BY <2>1 DEF TrackMessage
    <3> QED
      BY <2>0, <3>1, FS_EmptySet
  <2>2. CASE v \in {c.user : c \in cached'} /\ v = u
    <3>1. history'[v] = T
      BY <2>2 DEF TrackMessage
    <3>2. \A e \in T : \/ e \in history[u] /\ (id = 0 \/ e.id # id \/ e.text = text)
                       \/ e = [text |-> text, id |-> id, at |-> t]
      BY TrackedEntries
    <3> HIDE DEF T
    <3> QED
      BY <1>4, <2>2, <3>1, <3>2
  <2>3. CASE v \in {c.user : c \in cached'} /\ v # u
    <3>1. history'[v] = IF tidy THEN Live(history[v], t) ELSE history[v]
      BY <2>3 DEF TrackMessage, Tidied
    <3>2. history'[v] \in SUBSET history[v]
      BY <3>1 DEF Live
    <3>3. /\ history[v] \in SUBSET Entry
          /\ IsFiniteSet(history[v]) /\ Cardinality(history[v]) <= MaxEntries
          /\ \A e, d \in history[v] :
               e.at = d.at \/ (e.id > 0 /\ e.id = d.id) => e = d
      BY DEF HistoryOK
    <3>4. /\ IsFiniteSet(history'[v]) /\ Cardinality(history'[v]) \in Nat
          /\ Cardinality(history'[v]) <= Cardinality(history[v])
          /\ Cardinality(history[v]) \in Nat
      BY <3>2, <3>3, FS_Subset, FS_CardinalityType
    <3>5. Cardinality(history'[v]) <= MaxEntries
      BY <2>0, <3>3, <3>4
    <3> QED
      BY <2>3, <3>2, <3>3, <3>4, <3>5
  <2> QED
    BY <2>1, <2>2, <2>3
<1>6. ASSUME NEW v \in Users, NEW e \in history'[v]
      PROVE  /\ e.at \in 1 .. t
             /\ e.id > 0 => Seen(e, v)'
             /\ "check" \notin setting.updates => e.id > 0
             /\ \E c \in cached' : c.user = v /\ c.at >= e.at
  <2>1. PICK c \in cached' : c.user = v
    BY <1>5
  <2>2. CASE e \in history[v] /\ (v = u => id = 0 \/ e.id # id \/ e.text = text)
    <3>1. /\ e.at \in 1 .. now /\ (e.id > 0 => Seen(e, v))
          /\ "check" \notin setting.updates => e.id > 0
      BY <2>2 DEF HistoryOK
    <3>2. PICK d \in cached : d.user = v /\ d.at >= e.at
      BY <2>2 DEF HistoryOK
    <3>3. c.at >= e.at
      <4>1. CASE c = new
        BY <3>1, <4>1
      <4>2. CASE c \in before
        <5>1. c \in cached
          BY <1>1, <4>2
        <5>2. c = d
          BY <2>1, <3>2, <5>1 DEF CacheOK
        <5> QED
          BY <3>2, <5>2
      <4> QED
        BY <1>2, <4>1, <4>2
    <3>4. e.id > 0 => Seen(e, v)'
      BY <2>2, <3>1 DEF ChatFollows
    <3>5. e.at \in 1 .. t
      BY <3>1
    <3> HIDE DEF Seen
    <3> QED
      BY <2>1, <3>1, <3>3, <3>4, <3>5
  <2>3. CASE v = u /\ e = [text |-> text, id |-> id, at |-> t]
    <3>1. e.at = t /\ e.id = id /\ e.text = text
      BY <2>3
    <3>2. new.user = u /\ new.at = t
      OBVIOUS
    <3>3. e.id > 0 => Seen(e, v)'
      BY <2>3, <3>1 DEF Seen, ChatFollows
    <3>4. e.at \in 1 .. t /\ ("check" \notin setting.updates => e.id > 0)
      BY <3>1
    <3> HIDE DEF new
    <3>5. \E d \in cached' : d.user = v /\ d.at >= e.at
      BY <1>2, <2>3, <3>1, <3>2
    <3> QED
      BY <3>3, <3>4, <3>5
  <2> QED
    BY <1>5, <2>2, <2>3
<1>7. history' \in [Users -> SUBSET Entry]
  <2>1. history' = [v \in Users |-> history'[v]]
    BY DEF TrackMessage
  <2>2. \A v \in Users : history'[v] \in SUBSET Entry
    BY <1>5
  <2> QED
    BY <2>1, <2>2
<1>8. HistoryOK'
  BY <1>5, <1>6, <1>7 DEF HistoryOK
<1> QED
  BY <1>3, <1>8

-----------------------------------------------------------------------------
(* A message that is posted, or edited.                                    *)

(* The chat takes p in, for what it had under its id.                      *)
PostedAs(u, text, id, t, p) ==
  /\ chat' = {q \in chat : q.id # id} \cup {p}
  /\ p \in Post /\ p.id = id /\ p.user = u /\ p.text = text /\ text \in p.had
  /\ p.at \in 1 .. t /\ p.touched = t /\ p.passed = ~last'.spam
  /\ \A q \in chat : q.id = id =>
       /\ q.user = u /\ q.had \subseteq p.had
       /\ p.at = IF q.text = text THEN q.at ELSE t

LEMMA NewIsPosted ==
  ASSUME ClockOK, ChatOK, NEW u \in Users, NEW text \in Texts, NEW t \in Nat,
         now' = t, t = now + 1, NEW p,
         p = [id |-> t, user |-> u, text |-> text, at |-> t,
              touched |-> t, had |-> {text}, passed |-> ~last'.spam],
         chat' = chat \cup {p}
  PROVE  PostedAs(u, text, t, t, p)
<1>1. \A q \in chat : q.id # t
  BY DEF ChatOK, ClockOK
<1>2. {q \in chat : q.id # t} = chat
  BY <1>1
<1>3. /\ p.id = t /\ p.user = u /\ p.text = text /\ p.had = {text}
      /\ p.at = t /\ p.touched = t /\ p.passed = ~last'.spam
  OBVIOUS
<1>4. p \in Post
  <2>1. (~last'.spam) \in BOOLEAN
    OBVIOUS
  <2> QED
    BY <2>1 DEF Post
<1>5. t \in 1 .. t
  BY DEF ClockOK
<1> QED
  BY <1>1, <1>2, <1>3, <1>4, <1>5 DEF PostedAs

LEMMA EditIsPosted ==
  ASSUME ClockOK, ChatOK, NEW old \in chat, NEW text \in Texts, NEW t \in Nat,
         now' = t, t = now + 1, NEW p,
         p = [old EXCEPT !.text = text,
                         !.at = IF text = old.text THEN old.at ELSE t,
                         !.touched = t, !.had = @ \cup {text},
                         !.passed = ~last'.spam],
         chat' = (chat \ {old}) \cup {p}
  PROVE  PostedAs(old.user, text, old.id, t, p)
<1>1. {q \in chat : q.id # old.id} = chat \ {old}
  BY DEF ChatOK
<1>2. /\ old \in Post /\ old.at \in 1 .. old.touched /\ old.touched \in 1 .. now
      /\ old.text \in old.had /\ now \in Nat
  BY DEF ChatOK, ClockOK
<1>3. /\ p.id = old.id /\ p.user = old.user /\ p.text = text
      /\ p.had = old.had \cup {text} /\ p.touched = t
      /\ p.at = IF text = old.text THEN old.at ELSE t
  BY <1>2 DEF Post
<1>4. p.passed = ~last'.spam
  BY <1>2 DEF Post
<1>5. p.at \in 1 .. t /\ p.at \in Nat
  BY <1>2, <1>3
<1>6. p \in Post
  <2>1. (~last'.spam) \in BOOLEAN /\ (old.had \cup {text}) \in SUBSET Texts
    BY <1>2 DEF Post
  <2>2. (IF text = old.text THEN old.at ELSE t) \in Nat
    BY <1>3, <1>5
  <2> QED
    BY <1>2, <2>1, <2>2 DEF Post
<1>7. \A q \in chat : q.id = old.id => q = old
  BY DEF ChatOK
<1> HIDE DEF Post
<1>8. text \in p.had /\ old.had \subseteq p.had
  BY <1>3
<1>9. \A q \in chat : q.id = old.id =>
        /\ q.user = old.user /\ q.had \subseteq p.had
        /\ p.at = IF q.text = text THEN q.at ELSE t
  BY <1>3, <1>7, <1>8
<1> QED
  BY <1>1, <1>3, <1>4, <1>5, <1>6, <1>8, <1>9 DEF PostedAs

LEMMA PostedChat ==
  ASSUME ClockOK, ChatOK, NEW u, NEW text, NEW id \in Nat, NEW t \in Nat,
         now' = t, t = now + 1, id \in 1 .. t, NEW p, PostedAs(u, text, id, t, p)
  PROVE  ChatOK'
<1>1. /\ chat \in SUBSET Post /\ IsFiniteSet(chat) /\ now \in Nat
      /\ \A q \in chat : /\ q.id \in 1 .. now /\ q.text \in q.had
                         /\ q.at \in 1 .. q.touched /\ q.touched \in 1 .. now
      /\ \A q, r \in chat : q.id = r.id => q = r
  BY DEF ChatOK, ClockOK
<1>2. /\ chat' = {q \in chat : q.id # id} \cup {p}
      /\ p \in Post /\ p.id = id /\ p.text = text /\ text \in p.had
      /\ p.at \in 1 .. t /\ p.touched = t
  BY DEF PostedAs
<1> HIDE DEF Post
<1>3. chat' \in SUBSET Post
  BY <1>1, <1>2
<1>4. IsFiniteSet(chat')
  <2>1. IsFiniteSet({q \in chat : q.id # id})
    BY <1>1, FS_Subset
  <2> QED
    BY <1>2, <2>1, FS_AddElement
<1>5. ASSUME NEW q \in chat'
      PROVE  /\ q.id \in 1 .. t /\ q.text \in q.had
             /\ q.at \in 1 .. q.touched /\ q.touched \in 1 .. t
  <2>1. CASE q \in chat
    BY <1>1, <2>1
  <2>2. CASE q = p
    BY <1>1, <1>2, <2>2
  <2> QED
    BY <1>2, <2>1, <2>2
<1>6. \A q, r \in chat' : q.id = r.id => q = r
  BY <1>1, <1>2
<1> QED
  BY <1>3, <1>4, <1>5, <1>6 DEF ChatOK

(* What the locator has after it.                                          *)
LEMMA LocatorAdds ==
  ASSUME NEW u, NEW text, NEW id, NEW t, NEW fails,
         locator!AddMessage(text, u, id, TRUE, t, fails)
  PROVE  /\ messages' \in SUBSET (messages \cup
              {[text |-> text, user |-> u, named |-> TRUE, at |-> t, id |-> id]})
         /\ "locate" \notin fails =>
              \A r \in {s \in messages : s.text # text} \cup
                {[text |-> text, user |-> u, named |-> TRUE, at |-> t, id |-> id]} :
                r.at >= t - TTL => r \in messages'
<1>1. CASE "locate" \in fails
  BY <1>1 DEF locator!AddMessage
<1>2. CASE "locate" \notin fails
  BY <1>2 DEF locator!AddMessage, locator!Cleaned
<1> QED
  BY <1>1, <1>2

LEMMA PostedRows ==
  ASSUME ClockOK, ChatOK, RowsOK, RowsRemember, setting' = setting,
         NEW u \in Users, NEW text \in Texts, NEW id \in Nat, NEW t \in Nat,
         now' = t, t = now + 1, NEW p, PostedAs(u, text, id, t, p), NEW fails,
         locator!AddMessage(text, u, id, TRUE, t, fails),
         fails \in SUBSET setting.fails
  PROVE  RowsOK' /\ RowsRemember'
<1> DEFINE new == [text |-> text, user |-> u, named |-> TRUE, at |-> t, id |-> id]
<1>1. /\ messages \in SUBSET Row /\ IsFiniteSet(messages) /\ now \in Nat
      /\ \A r \in messages : /\ r.at \in 1 .. now
                             /\ \E q \in chat : /\ q.id = r.id /\ q.user = r.user
                                                /\ r.text \in q.had
  BY DEF RowsOK, ClockOK
<1>2. /\ messages' \in SUBSET (messages \cup {new})
      /\ "locate" \notin fails =>
           \A r \in {s \in messages : s.text # text} \cup {new} :
             r.at >= t - TTL => r \in messages'
  BY LocatorAdds
<1>3. /\ chat' = {q \in chat : q.id # id} \cup {p}
      /\ p.id = id /\ p.user = u /\ p.text = text /\ text \in p.had
      /\ p.touched = t
      /\ \A q \in chat : q.id = id => q.user = u /\ q.had \subseteq p.had
  BY DEF PostedAs
<1>4. new \in Row
  BY DEF Row
<1>5. new.at = t /\ new.id = id /\ new.text = text /\ new.user = u
  OBVIOUS
<1> HIDE DEF new
<1>6. messages' \in SUBSET Row /\ IsFiniteSet(messages')
  <2>1. IsFiniteSet(messages \cup {new})
    BY <1>1, FS_AddElement
  <2>2. IsFiniteSet(messages')
    BY <1>2, <2>1, FS_Subset
  <2> QED
    BY <1>1, <1>2, <1>4, <2>2
<1>7. ASSUME NEW r \in messages'
      PROVE  /\ r.at \in 1 .. t
             /\ \E q \in chat' : /\ q.id = r.id /\ q.user = r.user
                                 /\ r.text \in q.had
  <2>1. CASE r \in messages
    <3>1. PICK q \in chat : /\ q.id = r.id /\ q.user = r.user
                            /\ r.text \in q.had
      BY <1>1, <2>1
    <3>2. \E x \in chat' : /\ x.id = r.id /\ x.user = r.user /\ r.text \in x.had
      BY <1>3, <3>1
    <3> QED
      BY <1>1, <2>1, <3>2
  <2>2. CASE r = new
    BY <1>1, <1>3, <1>5, <2>2
  <2> QED
    BY <1>2, <2>1, <2>2
<1>8. RowsOK'
  BY <1>6, <1>7 DEF RowsOK
<1>9. ASSUME setting.fails = {}, NEW q \in chat', q.touched >= t - TTL
      PROVE  \E r \in messages' : r.text = q.text /\ r.at >= q.touched
  <2>1. "locate" \notin fails
    BY <1>9
  <2>2. TTL \in Nat
    BY DetectorAssumption
  <2>3. new \in messages'
    BY <1>2, <1>5, <2>1, <2>2
  <2>4. CASE q = p
    BY <1>3, <1>5, <2>3, <2>4
  <2>5. CASE q \in chat
    <3>1. q.touched \in 1 .. now
      BY <2>5 DEF ChatOK
    <3>2. q.touched >= now - TTL
      BY <1>1, <1>9, <2>2, <3>1
    <3>3. PICK r \in messages : r.text = q.text /\ r.at >= q.touched
      BY <1>9, <2>5, <3>2 DEF RowsRemember
    <3>4. CASE r.text = text
      BY <1>1, <1>5, <2>3, <3>1, <3>3, <3>4
    <3>5. CASE r.text # text
      <4>1. r.at >= t - TTL
        BY <1>1, <1>9, <2>2, <3>1, <3>3
      <4>2. r \in messages'
        BY <1>2, <2>1, <3>5, <4>1
      <4> QED
        BY <3>3, <4>2
    <3> QED
      BY <3>4, <3>5
  <2> QED
    BY <1>3, <2>4, <2>5
<1>10. RowsRemember'
  BY <1>9 DEF RowsRemember
<1> QED
  BY <1>8, <1>10

(* The bot does not forget rows when nothing is posted.                    *)
LEMMA RowsStay ==
  ASSUME ClockOK, ChatOK, RowsOK, RowsRemember, setting' = setting,
         NEW t \in Nat, now' = t, t = now + 1, UNCHANGED <<messages, chat>>
  PROVE  ChatOK' /\ RowsOK' /\ RowsRemember'
<1>1. now \in Nat /\ TTL \in Nat
  BY DetectorAssumption DEF ClockOK
<1>2. ChatOK'
  BY <1>1 DEF ChatOK
<1>3. RowsOK'
  BY <1>1 DEF RowsOK
<1>4. RowsRemember'
  <2> SUFFICES ASSUME setting.fails = {}, NEW q \in chat, q.touched >= t - TTL
               PROVE  \E r \in messages : r.text = q.text /\ r.at >= q.touched
    BY DEF RowsRemember
  <2>1. q.touched \in 1 .. now
    BY DEF ChatOK
  <2>2. q.touched >= now - TTL
    BY <1>1, <2>1
  <2> QED
    BY <2>2 DEF RowsRemember
<1> QED
  BY <1>2, <1>3, <1>4

-----------------------------------------------------------------------------
(* The verdict. *)

(* The language models overrule the checks by their consensus only.        *)
Overruling(base, short, spam, answers) ==
  LET said == IF base THEN "ham" ELSE "spam"
      agree == {p \in DOMAIN answers : answers[p] = said}
  IN /\ agree # {}
     /\ setting.consensus = "all" => agree = DOMAIN answers
     /\ \A p \in agree : IF short THEN "short" \in setting.llms[p] /\ spam
                         ELSE ("veto" \in setting.llms[p]) = base

LEMMA ConsensusOverrules ==
  ASSUME NEW base \in BOOLEAN, NEW short \in BOOLEAN, NEW answers,
         DOMAIN answers = Asked(base, short), short => ~base,
         NEW spam \in BOOLEAN, spam = ApplyConsensus(base, answers), spam # base
  PROVE  Overruling(base, short, spam, answers)
<1> DEFINE said == IF base THEN "ham" ELSE "spam"
           agree == {p \in DOMAIN answers : answers[p] = said}
           flips == {p \in DOMAIN answers : Flip(answers[p], base)}
<1>1. agree = flips
  BY DEF Flip
<1>2. IF setting.consensus = "all"
      THEN DOMAIN answers # {} /\ flips = DOMAIN answers
      ELSE flips # {}
  <2>1. CASE base = TRUE
    BY <2>1 DEF ApplyConsensus
  <2>2. CASE base = FALSE
    BY <2>2 DEF ApplyConsensus
  <2> QED
    BY <2>1, <2>2
<1>3. agree # {} /\ (setting.consensus = "all" => agree = DOMAIN answers)
  BY <1>1, <1>2
<1>4. ASSUME NEW p \in agree
      PROVE  IF short THEN "short" \in setting.llms[p] /\ spam
             ELSE ("veto" \in setting.llms[p]) = base
  <2>1. ShouldApply(p, base, short)
    BY <1>4 DEF Asked
  <2>2. CASE short
    <3>1. "short" \in setting.llms[p]
      BY <2>1, <2>2 DEF ShouldApply
    <3>2. base = FALSE
      BY <2>2
    <3>3. spam
      BY <3>2
    <3> QED
      BY <2>2, <3>1, <3>3
  <2>3. CASE ~short
    <3>1. base <=> "veto" \in setting.llms[p]
      BY <2>1, <2>3, Zenon DEF ShouldApply
    <3>2. ("veto" \in setting.llms[p]) \in BOOLEAN
      OBVIOUS
    <3>3. ("veto" \in setting.llms[p]) = base
      BY <3>1, <3>2
    <3> QED
      BY <2>3, <3>3
  <2> QED
    BY <2>2, <2>3
<1> QED
  BY <1>3, <1>4 DEF Overruling

(* What Judge decides, in its four cases. *)
Judged(u, text, id, checkOnly, duplicate, rows, fails, t) ==
  /\ last'.user = u /\ last'.text = text /\ last'.id = id
  /\ CountsOK'
  /\ \A v \in Users : approvedUsers'[v] = 0 => approvedUsers[v] = 0
  /\ \A x \in last'.extra :
       \/ duplicate /\ x \in ExtraIDs(u, text, id, t)
       \/ last'.why = "flood" /\ x \in FloodIDs(rows, u, id)
  /\ OverruledByConsensus'
  /\ FirstMessageOnly /\ approvedUsers[u] = 0 =>
       last'.spam = TRUE \/ ~IsFlood(rows, u, text, checkOnly, fails)

LEMMA JudgeFacts ==
  ASSUME ClockOK, CountsOK, setting' = setting, NEW u \in Users, NEW text \in Texts,
         NEW id, NEW checkOnly, NEW duplicate \in BOOLEAN,
         NEW found \in BOOLEAN, NEW similar \in BOOLEAN, NEW rows, NEW fails,
         NEW t, now' = t,
         Judge(u, text, id, checkOnly, duplicate, found, similar, rows, fails)
  PROVE  Judged(u, text, id, checkOnly, duplicate, rows, fails, t)
<1> DEFINE short == text \in Short
           early == short /\ (duplicate \/ found \/ Asked(FALSE, TRUE) = {})
           base == duplicate \/ found \/ (~short /\ similar)
           extra == IF duplicate THEN ExtraIDs(u, text, id, t) ELSE {}
           approved == FirstMessageOnly /\ ~duplicate
                         /\ approvedUsers[u] >= setting.first
           flood == IsFlood(rows, u, text, checkOnly, fails)
<1>1. CASE approved
  <2>1. /\ Verdict(u, text, id, FALSE, "pre-approved", FALSE, << >>, {})
        /\ UNCHANGED approvedUsers
    BY <1>1 DEF Judge
  <2>2. /\ last'.user = u /\ last'.text = text /\ last'.id = id
        /\ last'.extra = {} /\ last'.why = "pre-approved"
    BY <2>1 DEF Verdict
  <2>3. FirstMessageOnly => approvedUsers[u] # 0
    <3>1. approvedUsers[u] \in Nat /\ setting.first > 0 /\ setting.first \in Nat
      BY <1>1, DetectorAssumption DEF ClockOK, CountsOK, FirstMessageOnly
    <3> QED
      BY <1>1, <3>1
  <2>4. CountsOK' /\ OverruledByConsensus'
    BY <2>1, <2>2 DEF CountsOK, OverruledByConsensus
  <2> QED
    BY <2>1, <2>2, <2>3, <2>4 DEF Judged
<1>2. CASE ~approved /\ flood
  <2>1. /\ Verdict(u, text, id, TRUE, "flood", duplicate, << >>,
                   extra \cup FloodIDs(rows, u, id))
        /\ UNCHANGED approvedUsers
    BY <1>2 DEF Judge
  <2>2. /\ last'.user = u /\ last'.text = text /\ last'.id = id
        /\ last'.extra = extra \cup FloodIDs(rows, u, id)
        /\ last'.why = "flood" /\ last'.spam = TRUE
    BY <2>1 DEF Verdict
  <2>3. CountsOK' /\ OverruledByConsensus'
    BY <2>1, <2>2 DEF CountsOK, OverruledByConsensus
  <2> QED
    BY <2>1, <2>2, <2>3 DEF Judged
<1>3. CASE ~approved /\ ~flood /\ early
  <2>1. /\ Verdict(u, text, id, base, "early", base, << >>, extra)
        /\ UNCHANGED approvedUsers
    BY <1>3 DEF Judge
  <2>2. /\ last'.user = u /\ last'.text = text /\ last'.id = id
        /\ last'.extra = extra /\ last'.why = "early"
    BY <2>1 DEF Verdict
  <2>3. CountsOK' /\ OverruledByConsensus'
    BY <2>1, <2>2 DEF CountsOK, OverruledByConsensus
  <2> QED
    BY <1>3, <2>1, <2>2, <2>3 DEF Judged
<1>4. CASE ~approved /\ ~flood /\ ~early
  <2>1. PICK attempts \in [Asked(base, short) ->
                            [1 .. Retries -> {"spam", "ham", "error", "timeout"}]] :
          LET answers == [p \in DOMAIN attempts |-> Answer(attempts[p])]
              spam == ApplyConsensus(base, answers)
          IN /\ Verdict(u, text, id, spam, "checks", base, answers, extra)
             /\ IF spam THEN UNCHANGED approvedUsers ELSE Pass(u, text, checkOnly)
    BY <1>4 DEF Judge
  <2> DEFINE answers == [p \in DOMAIN attempts |-> Answer(attempts[p])]
             spam == ApplyConsensus(base, answers)
  <2>2. DOMAIN answers = Asked(base, short)
    OBVIOUS
  <2>3. /\ Verdict(u, text, id, spam, "checks", base, answers, extra)
        /\ UNCHANGED approvedUsers \/ Pass(u, text, checkOnly)
    BY <2>1
  <2>4. base \in BOOLEAN /\ short \in BOOLEAN /\ (short => ~base)
    <3>1. base \in BOOLEAN
      OBVIOUS
    <3>2. short \in BOOLEAN
      OBVIOUS
    <3>3. short => ~base
      BY <1>4, Zenon
    <3> QED
      BY <3>1, <3>2, <3>3
  <2> HIDE DEF answers, base, spam, short, extra
  <2>5. /\ last'.user = u /\ last'.text = text /\ last'.id = id
        /\ last'.extra = extra /\ last'.base = base /\ last'.why = "checks"
        /\ last'.answers = answers
    BY <2>3 DEF Verdict
  <2>6. last'.spam = spam
    BY <2>3, Zenon DEF Verdict
  <2>7. /\ CountsOK'
        /\ \A v \in Users : approvedUsers'[v] = 0 => approvedUsers[v] = 0
    <3>1. CASE UNCHANGED approvedUsers
      BY <3>1 DEF CountsOK
    <3>2. CASE approvedUsers' = [approvedUsers EXCEPT ![u] = @ + 1]
      <4>1. \A v \in Users : approvedUsers[v] \in Nat
        BY DEF CountsOK
      <4> QED
        BY <3>2, <4>1 DEF CountsOK
    <3> QED
      BY <2>3, <3>1, <3>2 DEF Pass
  <2>8. OverruledByConsensus'
    <3>1. CASE spam # base
      <4>1. spam = ApplyConsensus(base, answers)
        BY DEF spam
      <4>2. spam \in BOOLEAN
        BY <4>1, Zenon DEF ApplyConsensus
      <4>3. Overruling(base, short, spam, answers)
        BY <2>2, <2>4, <3>1, <4>1, <4>2, ConsensusOverrules
      <4>4. Overruling(last'.base, last'.text \in Short, last'.spam, last'.answers)
        BY <2>5, <2>6, <4>3 DEF short
      <4> QED
        BY <4>4, Zenon DEF OverruledByConsensus, Overruling
    <3>2. CASE spam = base
      <4>1. last'.spam = last'.base
        BY <2>5, <2>6, <3>2
      <4> QED
        BY <4>1, Zenon DEF OverruledByConsensus
    <3> QED
      BY <3>1, <3>2
  <2>9. \A x \in last'.extra : duplicate /\ x \in ExtraIDs(u, text, id, t)
    BY <2>5 DEF extra
  <2> QED
    BY <1>4, <2>5, <2>7, <2>8, <2>9 DEF Judged
<1> QED
  BY <1>1, <1>2, <1>3, <1>4

(* A duplicate is to go with the messages it repeats.                      *)
LEMMA ExtrasRepeat ==
  ASSUME ClockOK, HistoryOK, NEW u \in Users, NEW text \in Texts,
         NEW id \in Nat, id > 0, NEW t \in Nat, now < t,
         IsDuplicate(setting.duplicates, u, text, id, t),
         NEW x \in ExtraIDs(u, text, id, t)
  PROVE  x # id /\ \E q \in chat : q.id = x /\ q.user = u /\ q.text = text
<1> DEFINE T == Tracked(u, text, id, t)
           new == [text |-> text, id |-> id, at |-> t]
           own == {e \in Repeats(T, text) : e.id > 0}
           ids == Newest(own, MaxIDs)
<1>1. PICK e \in ids \ Newest(ids, 1) : x = e.id
  BY DEF ExtraIDs
<1>2. ids \in SUBSET T /\ e.text = text /\ e.id > 0
  BY <1>1, NewestIsSubset DEF Repeats
<1>3. \A d \in T : d \in history[u] \/ d = new
  BY TrackedEntries
<1>4. ~IsEdit(Kept(u, text, id, t), text, id)
  BY DEF IsDuplicate
<1>5. T = Limited(Kept(u, text, id, t) \cup {new})
  BY <1>4 DEF Tracked
<1>6. \A d \in T : d.id = id /\ d.text = text => d = new
  BY <1>4, <1>5, NewestIsSubset DEF Limited, IsEdit
<1>7. \A d \in T : ~(d.at > t)
  <2>1. \A d \in history[u] : d.at \in 1 .. now
    BY DEF HistoryOK
  <2>2. new.at = t
    OBVIOUS
  <2> HIDE DEF new, T
  <2> QED
    BY <1>3, <2>1, <2>2 DEF ClockOK
<1> HIDE DEF T, ids, own
<1>8. e # new
  <2>1. SUFFICES ASSUME e = new PROVE FALSE
    OBVIOUS
  <2>2. new.at = t
    OBVIOUS
  <2>3. e \in ids /\ \A d \in ids : ~(d.at > e.at)
    BY <1>1, <1>2, <1>7, <2>1, <2>2
  <2> HIDE DEF new
  <2>4. e \in Newest(ids, 1)
    BY <2>3, LatestIsNewest
  <2> QED
    BY <1>1, <2>4
<1>9. e \in history[u] /\ e.id # id
  BY <1>1, <1>2, <1>3, <1>6, <1>8
<1>10. Seen(e, u)
  BY <1>2, <1>9 DEF HistoryOK
<1> QED
  BY <1>1, <1>2, <1>9, <1>10 DEF Seen

-----------------------------------------------------------------------------
(* Floods. *)

(* The messages of v that FloodIsStopped counts.                           *)
Through(v) ==
  {q \in chat : /\ q.user = v /\ q.passed /\ q.text \in Short
                /\ q.touched >= now - TTL
                /\ \A r \in chat : q.text \in r.had => r.user = v}

LEMMA FloodCounts ==
  FloodIsStopped <=>
    (setting.flood > 0 /\ FirstMessageOnly /\ setting.fails = {} =>
       \A v \in Users : approvedUsers[v] = 0 =>
         Cardinality({q.text : q \in Through(v)}) < setting.flood)
BY DEF FloodIsStopped, Through

LEMMA TextsOf ==
  ASSUME NEW S, IsFiniteSet(S)
  PROVE  /\ IsFiniteSet({q.text : q \in S})
         /\ Cardinality({q.text : q \in S}) <= Cardinality(S)
<1> DEFINE T == {q.text : q \in S}
           f == [q \in S |-> q.text]
<1>1. f \in Surjection(S, T)
  BY DEF Surjection
<1> HIDE DEF f, T
<1>2. IsFiniteSet(T) /\ Cardinality(T) <= Cardinality(S)
  BY <1>1, FS_Surjection
<1> QED
  BY <1>2 DEF T

LEMMA ThroughFinite ==
  ASSUME ChatOK, NEW v
  PROVE  /\ IsFiniteSet({q.text : q \in Through(v)})
         /\ Cardinality({q.text : q \in Through(v)}) \in Nat
<1>1. IsFiniteSet(Through(v))
  BY FS_Subset DEF ChatOK, Through
<1> QED
  BY <1>1, TextsOf, FS_CardinalityType

(* Where no message comes through anew, no flood does.                     *)
LEMMA NoneComesThrough ==
  ASSUME ClockOK, ChatOK, FloodIsStopped, setting' = setting,
         \A v \in Users : approvedUsers'[v] = 0 => approvedUsers[v] = 0,
         NEW W \in SUBSET Users,
         \A v \in W : Through(v)' \in SUBSET Through(v)
  PROVE  setting.flood > 0 /\ FirstMessageOnly /\ setting.fails = {} =>
           \A v \in W : approvedUsers'[v] = 0 =>
             Cardinality({q.text : q \in Through(v)}') < setting.flood
<1> SUFFICES ASSUME setting.flood > 0, FirstMessageOnly, setting.fails = {},
                    NEW v \in W, approvedUsers'[v] = 0
             PROVE  Cardinality({q.text : q \in Through(v)}') < setting.flood
  OBVIOUS
<1> DEFINE T == {q.text : q \in Through(v)}
           U == {q.text : q \in Through(v)'}
<1>1. Cardinality(T) < setting.flood
  BY FloodCounts
<1>2. U \in SUBSET T
  OBVIOUS
<1>3. IsFiniteSet(T) /\ Cardinality(T) \in Nat
  BY ThroughFinite
<1>4. Cardinality(U) <= Cardinality(T) /\ Cardinality(U) \in Nat
  BY <1>2, <1>3, FS_Subset, FS_CardinalityType
<1>5. setting.flood \in Nat
  BY DetectorAssumption DEF ClockOK
<1> HIDE DEF T
<1> QED
  BY <1>1, <1>3, <1>4, <1>5

LEMMA QuietFlood ==
  ASSUME ClockOK, ChatOK, FloodIsStopped, setting' = setting, chat' = chat,
         NEW t \in Nat, now' = t, t = now + 1,
         \A v \in Users : approvedUsers'[v] = 0 => approvedUsers[v] = 0
  PROVE  FloodIsStopped'
<1>1. ASSUME NEW v \in Users PROVE Through(v)' \in SUBSET Through(v)
  <2> SUFFICES ASSUME NEW q \in Through(v)' PROVE q \in Through(v)
    OBVIOUS
  <2>1. /\ q \in chat /\ q.user = v /\ q.passed /\ q.text \in Short
        /\ q.touched >= t - TTL
        /\ \A r \in chat : q.text \in r.had => r.user = v
    BY DEF Through
  <2>2. q.touched >= now - TTL
    BY <2>1, DetectorAssumption DEF ClockOK, ChatOK
  <2> QED
    BY <2>1, <2>2 DEF Through
<1>2. setting.flood > 0 /\ FirstMessageOnly /\ setting.fails = {} =>
        \A v \in Users : approvedUsers'[v] = 0 =>
          Cardinality({q.text : q \in Through(v)}') < setting.flood
  BY <1>1, NoneComesThrough
<1> QED
  BY <1>2 DEF FloodIsStopped, Through, FirstMessageOnly

(* A short message that passes is one of few rows that its sender has.     *)
LEMMA PostedFlood ==
  ASSUME ClockOK, ChatOK, FloodIsStopped, setting' = setting,
         ChatOK', RowsOK', RowsRemember', CountsOK,
         NEW u \in Users, NEW text \in Texts, NEW id \in Nat, NEW t \in Nat,
         now' = t, t = now + 1, NEW p, PostedAs(u, text, id, t, p),
         NEW fails \in SUBSET setting.fails,
         \A v \in Users : approvedUsers'[v] = 0 => approvedUsers[v] = 0,
         FirstMessageOnly /\ approvedUsers[u] = 0 =>
           last'.spam = TRUE \/ ~IsFlood(messages', u, text, FALSE, fails)
  PROVE  FloodIsStopped'
<1>1. /\ chat' = {q \in chat : q.id # id} \cup {p}
      /\ p.id = id /\ p.user = u /\ p.text = text
      /\ p.touched = t /\ p.passed = ~last'.spam
      /\ \A q \in chat : q.id = id => q.user = u /\ q.had \subseteq p.had
  BY DEF PostedAs
<1>2. ASSUME NEW v \in Users, NEW q \in Through(v)', q # p
      PROVE  q \in Through(v)
  <2>1. /\ q \in chat' /\ q.user = v /\ q.passed /\ q.text \in Short
        /\ q.touched >= t - TTL
        /\ \A r \in chat' : q.text \in r.had => r.user = v
    BY <1>2 DEF Through
  <2>2. q \in chat /\ q.id # id
    BY <1>1, <1>2, <2>1
  <2>3. q.touched >= now - TTL
    BY <2>1, <2>2, DetectorAssumption DEF ClockOK, ChatOK
  <2>4. ASSUME NEW r \in chat, q.text \in r.had PROVE r.user = v
    <3>1. CASE r.id = id
      <4>1. q.text \in p.had /\ r.user = p.user /\ p \in chat'
        BY <1>1, <2>4, <3>1
      <4> QED
        BY <2>1, <4>1
    <3>2. CASE r.id # id
      BY <1>1, <2>1, <2>4, <3>2
    <3> QED
      BY <3>1, <3>2
  <2> QED
    BY <2>1, <2>2, <2>3, <2>4 DEF Through
<1> DEFINE W == {v \in Users : p \notin Through(v)'}
<1>3. W \in SUBSET Users /\ \A v \in W : Through(v)' \in SUBSET Through(v)
  BY <1>2
<1> HIDE DEF W
<1>4. setting.flood > 0 /\ FirstMessageOnly /\ setting.fails = {} =>
        \A v \in W : approvedUsers'[v] = 0 =>
          Cardinality({q.text : q \in Through(v)}') < setting.flood
  BY <1>3, NoneComesThrough
<1>5. ASSUME setting.flood > 0, FirstMessageOnly, setting.fails = {},
             NEW v \in Users, approvedUsers'[v] = 0, p \in Through(v)'
      PROVE  Cardinality({q.text : q \in Through(v)}') < setting.flood
  <2> DEFINE own == {r \in messages' : r.user = u}
             U == {q.text : q \in Through(v)'}
  <2>1. v = u /\ p.passed /\ text \in Short
    BY <1>1, <1>5 DEF Through
  <2>2. approvedUsers[u] = 0
    BY <1>5, <2>1
  <2>3. last'.spam # TRUE
    BY <1>1, <2>1
  <2>4. ~IsFlood(messages', u, text, FALSE, fails)
    BY <1>5, <2>2, <2>3
  <2>5. /\ setting.flood \in Nat /\ setting.first \in Nat /\ setting.first > 0
        /\ "count" \notin fails
    BY <1>5, DetectorAssumption DEF ClockOK, FirstMessageOnly
  <2>6. IsFiniteSet(own) /\ Cardinality(own) \in Nat
    BY FS_Subset, FS_CardinalityType DEF RowsOK
  <2>7. Cardinality(own) < setting.flood
    BY <1>5, <2>1, <2>2, <2>4, <2>5, <2>6 DEF IsFlood
  <2>8. ASSUME NEW q \in Through(v)'
        PROVE  \E r \in own : r.text = q.text
    <3>1. /\ q \in chat' /\ q.touched >= t - TTL
          /\ \A x \in chat' : q.text \in x.had => x.user = v
      BY <2>8 DEF Through
    <3>2. PICK r \in messages' : r.text = q.text
      BY <1>5, <3>1 DEF RowsRemember
    <3>3. PICK x \in chat' : x.user = r.user /\ r.text \in x.had
      BY DEF RowsOK
    <3> QED
      BY <2>1, <3>1, <3>2, <3>3
  <2> DEFINE V == {r.text : r \in own}
  <2>9. U \in SUBSET V
    BY <2>8
  <2> HIDE DEF own
  <2>10. IsFiniteSet(V) /\ Cardinality(V) <= Cardinality(own)
    BY <2>6, TextsOf
  <2>11. Cardinality(U) <= Cardinality(V) /\ Cardinality(U) \in Nat
         /\ Cardinality(V) \in Nat
    BY <2>9, <2>10, FS_Subset, FS_CardinalityType
  <2> HIDE DEF U, V
  <2>12. Cardinality(U) < setting.flood
    BY <2>5, <2>6, <2>7, <2>10, <2>11
  <2> QED
    BY <2>12 DEF U
<1>6. setting.flood > 0 /\ FirstMessageOnly /\ setting.fails = {} =>
        \A v \in Users : approvedUsers'[v] = 0 =>
          Cardinality({q.text : q \in Through(v)}') < setting.flood
  BY <1>4, <1>5 DEF W
<1> QED
  BY <1>6 DEF FloodIsStopped, Through, FirstMessageOnly

-----------------------------------------------------------------------------
(* What a verdict wants deleted. *)

LEMMA PostedExtras ==
  ASSUME ClockOK, HistoryOK, RowsOK', setting' = setting,
         NEW u \in Users, NEW text \in Texts, NEW id \in Nat, id > 0,
         NEW t \in Nat, now' = t, t = now + 1, NEW p, PostedAs(u, text, id, t, p),
         last'.user = u, last'.text = text, last'.id = id,
         \A x \in last'.extra :
           \/ /\ IsDuplicate(setting.duplicates, u, text, id, t)
              /\ x \in ExtraIDs(u, text, id, t)
           \/ last'.why = "flood" /\ x \in FloodIDs(messages', u, id)
  PROVE  ExtrasAreRepeats'
<1>0. now < t
  BY DEF ClockOK
<1> SUFFICES ASSUME NEW x \in last'.extra
             PROVE  /\ x # id
                    /\ \E q \in chat' : /\ q.id = x /\ q.user = u
                                        /\ q.text = text \/ last'.why = "flood"
  BY DEF ExtrasAreRepeats
<1>1. CASE /\ IsDuplicate(setting.duplicates, u, text, id, t)
           /\ x \in ExtraIDs(u, text, id, t)
  <2>1. x # id /\ \E q \in chat : q.id = x /\ q.user = u /\ q.text = text
    BY <1>0, <1>1, ExtrasRepeat
  <2> QED
    BY <2>1 DEF PostedAs
<1>2. CASE last'.why = "flood" /\ x \in FloodIDs(messages', u, id)
  <2>1. PICK r \in messages' : r.user = u /\ r.id = x /\ x # id
    BY <1>2 DEF FloodIDs
  <2>2. PICK q \in chat' : q.id = r.id /\ q.user = r.user
    BY DEF RowsOK
  <2> QED
    BY <1>2, <2>1, <2>2
<1> QED
  BY <1>1, <1>2

-----------------------------------------------------------------------------
(* What the duplicate detector remembers. *)

(* Others have not posted less since x got its text, nor has its member.   *)
LEMMA SinceGrows ==
  ASSUME ClockOK, ChatOK, ChatOK', NEW u \in Users, NEW text, NEW id, NEW t \in Nat,
         now' = t, t = now + 1, NEW p, PostedAs(u, text, id, t, p),
         NEW x \in chat, x.id # id
  PROVE  /\ \A q \in chat : q.touched > x.at /\ q.user = x.user /\ q # x =>
              \E r \in OwnSince(x)' : r.id = q.id
         /\ u = x.user => p \in OwnSince(x)'
         /\ u # x.user => u \in OthersSince(x)'
         /\ OthersSince(x) \in SUBSET OthersSince(x)'
         /\ IsFiniteSet(OwnSince(x)') /\ IsFiniteSet(OthersSince(x)')
<1>1. /\ chat' = {q \in chat : q.id # id} \cup {p}
      /\ p.id = id /\ p.user = u /\ p.touched = t
      /\ \A q \in chat : q.id = id => q.user = u
  BY DEF PostedAs
<1>2. x.at <= now /\ now < t /\ x.at \in Nat /\ t > x.at /\ p # x
  BY <1>1 DEF ChatOK, ClockOK
<1>3. ASSUME NEW q \in chat, q.touched > x.at, q # x
      PROVE  \E r \in chat' : /\ r.id = q.id /\ r.user = q.user
                              /\ r.touched > x.at /\ r # x
  <2>1. CASE q.id = id
    BY <1>1, <1>2, <2>1
  <2>2. CASE q.id # id
    BY <1>1, <1>3, <2>2
  <2> QED
    BY <2>1, <2>2
<1>4. ASSUME NEW q \in chat, q.touched > x.at, q.user = x.user, q # x
      PROVE  \E r \in OwnSince(x)' : r.id = q.id
  <2>1. PICK r \in chat' : /\ r.id = q.id /\ r.user = q.user
                           /\ r.touched > x.at /\ r # x
    BY <1>3, <1>4
  <2>2. r \in OwnSince(x)'
    BY <1>4, <2>1 DEF OwnSince
  <2> QED
    BY <2>1, <2>2
<1>5. ASSUME NEW v \in OthersSince(x) PROVE v \in OthersSince(x)'
  <2>1. PICK q \in chat : q.touched > x.at /\ v = q.user /\ v # x.user
    BY <1>5 DEF OthersSince
  <2>2. q # x
    BY <2>1
  <2>3. PICK r \in chat' : r.user = q.user /\ r.touched > x.at
    BY <1>3, <2>1, <2>2
  <2> QED
    BY <2>1, <2>3 DEF OthersSince
<1>6. p \in chat'
  BY <1>1
<1>7. u = x.user => p \in OwnSince(x)'
  BY <1>1, <1>2, <1>6 DEF OwnSince
<1>8. u # x.user => u \in OthersSince(x)'
  BY <1>1, <1>2, <1>6 DEF OthersSince
<1>9. IsFiniteSet(OwnSince(x)')
  <2>1. OwnSince(x)' \in SUBSET chat'
    BY DEF OwnSince
  <2> QED
    BY <2>1, FS_Subset DEF ChatOK
<1>10. IsFiniteSet(OthersSince(x)')
  <2>1. OthersSince(x)' \in SUBSET Users
    BY DEF OthersSince, ChatOK, Post
  <2> QED
    BY <2>1, FS_Subset, DuplicatesAssumption
<1> QED
  BY <1>4, <1>5, <1>7, <1>8, <1>9, <1>10

LEMMA OwnGrows ==
  ASSUME ClockOK, ChatOK, ChatOK', NEW u \in Users, NEW text, NEW id, NEW t \in Nat,
         now' = t, t = now + 1, NEW p, PostedAs(u, text, id, t, p),
         NEW x \in chat, x.id # id,
         NEW q \in chat, q.touched > x.at, q.user = x.user, q # x
  PROVE  \E r \in OwnSince(x)' : r.id = q.id
BY SinceGrows

(* The newest entry of the others is not the one to go. *)
LEMMA OwnEntryStays ==
  ASSUME ClockOK, ChatOK, ChatOK', HistoryOK, "check" \notin setting.updates,
         NEW u \in Users, NEW text \in Texts, NEW id \in Nat, NEW t \in Nat,
         now' = t, t = now + 1, NEW p, PostedAs(u, text, id, t, p),
         NEW x \in chat, x.id # id, x.user = u, x.at > t - DuplicateWindow,
         Cardinality(OwnSince(x)') < MaxEntries,
         NEW e \in history[u], e.id = x.id, e.at >= x.at
  PROVE  e \in Tracked(u, text, id, t)
<1> DEFINE new == [text |-> text, id |-> id, at |-> t]
           kept == Kept(u, text, id, t)
           L == {d \in kept \cup {new} : d.at > e.at}
           O == OwnSince(x)'
<1>1. /\ history[u] \in SUBSET Entry /\ now \in Nat
      /\ x.at \in Nat
      /\ \A d \in history[u] : d.at \in 1 .. now /\ Seen(d, u)
      /\ \A d, c \in history[u] : d.id > 0 /\ d.id = c.id => d = c
  BY DEF HistoryOK, ClockOK, ChatOK, Post
<1>2. e \in kept
  BY <1>1, DuplicatesAssumption DEF Kept, WithoutOld, Live
<1>3. CASE IsEdit(kept, text, id)
  BY <1>2, <1>3 DEF Tracked
<1>4. CASE ~IsEdit(kept, text, id)
  <2>1. Tracked(u, text, id, t) = Newest(kept \cup {new}, MaxEntries)
    BY <1>4 DEF Tracked, Limited
  <2>2. IsFiniteSet(O) /\ p \in O
    BY SinceGrows
  <2>3. p.id = id
    BY DEF PostedAs
  <2>4. ASSUME NEW d \in L PROVE \E r \in O : r.id = d.id
    <3>1. CASE d = new
      BY <2>2, <2>3, <3>1
    <3>2. CASE d \in kept
      <4>1. d \in history[u] /\ d.at > e.at
        BY <2>4, <3>2 DEF Kept, WithoutOld, Live
      <4>2. PICK q \in chat : q.user = u /\ q.id = d.id /\ q.touched >= d.at
        BY <1>1, <4>1 DEF Seen
      <4>3. d.at \in Nat /\ e.at \in Nat /\ q.touched \in Nat
        BY <1>1, <4>1 DEF Entry, ChatOK, Post
      <4>4. q.touched > x.at
        BY <1>1, <4>1, <4>2, <4>3
      <4>5. q # x
        <5>1. d # e
          BY <4>1, <4>3
        <5>2. e.id > 0
          BY <1>1 DEF ChatOK
        <5> QED
          BY <1>1, <4>1, <4>2, <5>1, <5>2
      <4>6. q.touched > x.at /\ q.user = x.user /\ q # x
        BY <4>2, <4>4, <4>5
      <4>7. \E r \in OwnSince(x)' : r.id = q.id
        BY <4>6, OwnGrows
      <4> QED
        BY <4>2, <4>7
    <3> QED
      BY <2>4, <3>1, <3>2
  <2>5. \A c, d \in L : c.id = d.id => c = d
    <3>1. \A d \in kept : d.id # id
      <4> SUFFICES ASSUME NEW d \in kept, d.id = id PROVE FALSE
        OBVIOUS
      <4>1. id > 0
        BY DEF PostedAs, ChatOK
      <4>2. d.text = text
        BY <4>1 DEF Kept, WithoutOld
      <4> QED
        BY <1>4, <4>1, <4>2 DEF IsEdit
    <3>2. \A d \in kept : d \in history[u]
      BY DEF Kept, WithoutOld, Live
    <3>3. \A d \in history[u] : d.id > 0
      BY DEF HistoryOK
    <3>4. new.id = id
      OBVIOUS
    <3> HIDE DEF new, kept
    <3> QED
      BY <1>1, <3>1, <3>2, <3>3, <3>4
  <2> DEFINE f == [d \in L |-> CHOOSE r \in O : r.id = d.id]
  <2>6. \A d \in L : f[d] \in O /\ f[d].id = d.id
    BY <2>4
  <2>7. f \in [L -> O]
    BY <2>6
  <2> HIDE DEF f, L, O
  <2>8. \A c, d \in L : f[c] = f[d] => c = d
    BY <2>5, <2>6
  <2>9. IsFiniteSet(L) /\ Cardinality(L) <= Cardinality(O)
    BY <2>2, <2>7, <2>8, FewerThan
  <2>10. Cardinality(L) \in Nat /\ Cardinality(O) \in Nat /\ MaxEntries \in Nat
    BY <2>2, <2>9, FS_CardinalityType, DuplicatesAssumption
  <2>11. Cardinality(L) < MaxEntries
    BY <2>9, <2>10 DEF O
  <2> QED
    BY <1>2, <2>1, <2>11 DEF Newest, L
<1> QED
  BY <1>3, <1>4

(* Nor is the member of it the one who leaves the cache. *)
LEMMA OtherMemberStays ==
  ASSUME ClockOK, ChatOK, ChatOK', HistoryOK, CacheOK,
         "check" \notin setting.updates,
         NEW u \in Users, NEW text \in Texts, NEW id \in Nat, NEW t \in Nat,
         now' = t, t = now + 1, NEW p, PostedAs(u, text, id, t, p),
         NEW tidy \in BOOLEAN, TrackMessage(u, text, id, t, tidy),
         NEW x \in chat, x.id # id, x.user # u, x.at > t - DuplicateWindow,
         Cardinality(OthersSince(x)') < MaxUsers,
         NEW e \in history[x.user], e.at >= x.at
  PROVE  e \in history'[x.user]
<1> DEFINE new == [user |-> u, at |-> t]
           before == IF tidy THEN TidiedCache(t) ELSE cached
           S == {d \in before : d.user # u} \cup {new}
           O == OthersSince(x)'
<1>1. /\ x.user \in Users /\ now \in Nat /\ x.at \in Nat
      /\ history[x.user] \in SUBSET Entry /\ e.at \in Nat
  BY DEF ClockOK, ChatOK, Post, HistoryOK, Entry
<1>2. e \in Live(history[x.user], t)
  BY <1>1, DuplicatesAssumption DEF Live
<1>3. PICK c \in cached : c.user = x.user /\ c.at >= e.at
  BY <1>1 DEF HistoryOK
<1>4. c \in S
  BY <1>2, <1>3 DEF TidiedCache
<1>5. before \in SUBSET cached
  BY DEF TidiedCache
<1> DEFINE L == {d \in S : d.at > c.at}
<1>6. new.user = u /\ new.at = t
  OBVIOUS
<1>7. /\ \A d \in cached : d.at \in 1 .. now
      /\ \A d, b \in cached : d.user = b.user => d = b
      /\ \A d \in cached : \E q \in chat : q.user = d.user /\ q.touched >= d.at
  BY DEF CacheOK
<1>8. IsFiniteSet(O) /\ u \in O /\ OthersSince(x) \in SUBSET O
  BY SinceGrows
<1>9. ASSUME NEW d \in L PROVE d.user \in O
  <2>1. CASE d = new
    BY <1>6, <1>8, <2>1
  <2>2. CASE d \in cached
    <3>1. PICK q \in chat : q.user = d.user /\ q.touched >= d.at
      BY <1>7, <2>2
    <3>2. d.at > c.at /\ d.at \in Nat /\ c.at \in Nat /\ q.touched \in Nat
      BY <1>7, <2>2, <1>9 DEF ChatOK, Post
    <3>3. q.touched > x.at
      BY <1>1, <1>3, <3>1, <3>2
    <3>4. d.user # x.user
      BY <1>3, <1>7, <2>2, <3>2
    <3>5. d.user \in OthersSince(x)
      BY <3>1, <3>3, <3>4 DEF OthersSince
    <3> QED
      BY <1>8, <3>5
  <2> QED
    BY <1>5, <2>1, <2>2
<1>10. \A d, b \in L : d.user = b.user => d = b
  <2>1. \A d \in S : d = new \/ (d \in cached /\ d.user # u)
    BY <1>5
  <2> HIDE DEF S, new
  <2> QED
    BY <1>6, <1>7, <2>1
<1> HIDE DEF S, new, before, O
<1> DEFINE f == [d \in L |-> d.user]
<1>11. f \in [L -> O] /\ \A d, b \in L : f[d] = f[b] => d = b
  BY <1>9, <1>10
<1> HIDE DEF f, L
<1>12. IsFiniteSet(L) /\ Cardinality(L) <= Cardinality(O)
  BY <1>8, <1>11, FewerThan
<1>13. Cardinality(L) \in Nat /\ Cardinality(O) \in Nat /\ MaxUsers \in Nat
  BY <1>8, <1>12, FS_CardinalityType, DuplicatesAssumption
<1>14. Cardinality(L) < MaxUsers
  BY <1>12, <1>13 DEF O
<1>15. c \in Newest(S, MaxUsers)
  BY <1>4, <1>14 DEF Newest, L
<1>16. c \in cached'
  BY <1>15 DEF TrackMessage, S, before, new
<1>17. history'[x.user] = IF tidy THEN Live(history[x.user], t)
                          ELSE history[x.user]
  BY <1>1, <1>3, <1>16 DEF TrackMessage, Tidied
<1> QED
  BY <1>2, <1>17

(* The message at hand is remembered, under the text it has.               *)
LEMMA SenderIsRemembered ==
  ASSUME ClockOK, HistoryOK, NEW u \in Users, NEW text, NEW id \in Nat,
         NEW t \in Nat, t = now + 1
  PROVE  \E e \in Tracked(u, text, id, t) : e.id = id
<1> DEFINE new == [text |-> text, id |-> id, at |-> t]
           kept == Kept(u, text, id, t)
<1>1. CASE IsEdit(kept, text, id)
  BY <1>1 DEF IsEdit, Tracked
<1>2. CASE ~IsEdit(kept, text, id)
  <2>1. Tracked(u, text, id, t) = Newest(kept \cup {new}, MaxEntries)
    BY <1>2 DEF Tracked, Limited
  <2>2. new.at = t /\ new.id = id
    OBVIOUS
  <2>3. \A d \in kept : d.at \in 1 .. now
    BY DEF Kept, WithoutOld, Live, HistoryOK
  <2> HIDE DEF new, kept
  <2>4. \A d \in kept \cup {new} : ~(d.at > new.at)
    BY <2>2, <2>3 DEF ClockOK
  <2>5. new \in Newest(kept \cup {new}, MaxEntries)
    BY <2>4, LatestIsNewest, DuplicatesAssumption
  <2> QED
    BY <2>1, <2>2, <2>5
<1> QED
  BY <1>1, <1>2

LEMMA PostedRemembered ==
  ASSUME ClockOK, ChatOK, ChatOK', HistoryOK, CacheOK, CacheOK', Remembered,
         setting' = setting, NEW u \in Users, NEW text \in Texts, NEW id \in Nat,
         NEW t \in Nat, now' = t, t = now + 1, NEW p, PostedAs(u, text, id, t, p),
         NEW tidy \in BOOLEAN, TrackMessage(u, text, id, t, tidy)
  PROVE  Remembered'
<1> SUFFICES ASSUME setting.duplicates > 0,
                    setting.updates \cap {"restart", "check"} = {},
                    NEW x \in chat', x.at > t - DuplicateWindow,
                    Cardinality(OwnSince(x)') < MaxEntries,
                    Cardinality(OthersSince(x)') < MaxUsers
             PROVE  \E e \in history'[x.user] : e.id = x.id
  BY DEF Remembered
<1>0. "check" \notin setting.updates /\ now < t /\ now \in Nat
  BY DEF ClockOK
<1>1. [user |-> u, at |-> t] \in cached'
  <2> DEFINE before == IF tidy THEN TidiedCache(t) ELSE cached
  <2>1. /\ before \in SUBSET cached
        /\ cached' = Newest({c \in before : c.user # u}
                              \cup {[user |-> u, at |-> t]}, MaxUsers)
    BY DEF TrackMessage, TidiedCache
  <2> HIDE DEF before
  <2> QED
    BY <1>0, <2>1, CacheTyped
<1>2. history'[u] = Tracked(u, text, id, t)
  <2>1. u \in {c.user : c \in cached'}
    BY <1>1
  <2> QED
    BY <2>1 DEF TrackMessage
<1>3. /\ chat' = {q \in chat : q.id # id} \cup {p}
      /\ p.id = id /\ p.user = u
  BY DEF PostedAs
<1>4. CASE x = p
  BY <1>2, <1>3, <1>4, SenderIsRemembered
<1>5. CASE x \in chat /\ x.id # id
  <2>1. x.at > now - DuplicateWindow /\ x.user \in Users
    BY <1>0, <1>5, DuplicatesAssumption DEF ChatOK, Post
  <2> DEFINE O == OwnSince(x)
             P == OwnSince(x)'
  <2>2. /\ \A q \in O : \E r \in P : r.id = q.id
        /\ OthersSince(x) \in SUBSET OthersSince(x)'
        /\ IsFiniteSet(P) /\ IsFiniteSet(OthersSince(x)')
    <3>1. \A q \in O : q \in chat /\ q.touched > x.at /\ q.user = x.user /\ q # x
      BY DEF OwnSince
    <3> QED
      BY <1>5, <3>1, SinceGrows
  <2>3. Cardinality(OthersSince(x)) < MaxUsers
    <3>1. /\ Cardinality(OthersSince(x)) <= Cardinality(OthersSince(x)')
          /\ Cardinality(OthersSince(x)) \in Nat
          /\ Cardinality(OthersSince(x)') \in Nat /\ MaxUsers \in Nat
      BY <2>2, FS_Subset, FS_CardinalityType, DuplicatesAssumption
    <3> QED
      BY <3>1
  <2>4. Cardinality(OwnSince(x)) < MaxEntries
    <3> DEFINE f == [q \in O |-> CHOOSE r \in P : r.id = q.id]
    <3>1. \A q \in O : f[q] \in P /\ f[q].id = q.id
      BY <2>2
    <3>2. \A q, r \in O : q.id = r.id => q = r
      BY DEF OwnSince, ChatOK
    <3>3. f \in [O -> P]
      BY <3>1
    <3> HIDE DEF f, O, P
    <3>4. \A q, r \in O : f[q] = f[r] => q = r
      BY <3>1, <3>2
    <3>5. IsFiniteSet(O) /\ Cardinality(O) <= Cardinality(P)
      BY <2>2, <3>3, <3>4, FewerThan
    <3>6. Cardinality(O) \in Nat /\ Cardinality(P) \in Nat /\ MaxEntries \in Nat
      BY <2>2, <3>5, FS_CardinalityType, DuplicatesAssumption
    <3>7. Cardinality(O) < MaxEntries
      BY <3>5, <3>6 DEF P
    <3> QED
      BY <3>7 DEF O
  <2>5. PICK e \in history[x.user] : e.id = x.id
    BY <1>5, <2>1, <2>3, <2>4 DEF Remembered
  <2>6. e.at >= x.at
    <3>1. x.id > 0 /\ Seen(e, x.user)
      BY <1>5, <2>1, <2>5 DEF HistoryOK, ChatOK
    <3>2. PICK q \in chat : q.id = e.id /\ q.at <= e.at
      BY <3>1 DEF Seen
    <3>3. q = x
      BY <1>5, <2>5, <3>2 DEF ChatOK
    <3>4. x.at \in Nat /\ e.at \in Nat
      BY <1>5, <2>1, <2>5 DEF ChatOK, Post, HistoryOK, Entry
    <3> QED
      BY <3>2, <3>3, <3>4
  <2>7. CASE x.user = u
    BY <1>0, <1>2, <1>5, <2>5, <2>6, <2>7, OwnEntryStays
  <2>8. CASE x.user # u
    BY <1>0, <1>5, <2>5, <2>6, <2>8, OtherMemberStays
  <2> QED
    BY <2>7, <2>8
<1> QED
  BY <1>3, <1>4, <1>5

(* It forgets no message that it had to know when nothing is posted.       *)
LEMMA QuietRemembered ==
  ASSUME ClockOK, ChatOK, Remembered, setting' = setting, NEW t \in Nat,
         now' = t, t = now + 1, UNCHANGED <<chat, history>>
  PROVE  Remembered'
<1> SUFFICES ASSUME setting.duplicates > 0,
                    setting.updates \cap {"restart", "check"} = {},
                    NEW x \in chat, x.at > t - DuplicateWindow,
                    Cardinality(OwnSince(x)) < MaxEntries,
                    Cardinality(OthersSince(x)) < MaxUsers
             PROVE  \E e \in history[x.user] : e.id = x.id
  BY DEF Remembered, OwnSince, OthersSince
<1>1. x.at > now - DuplicateWindow
  BY DuplicatesAssumption DEF ClockOK, ChatOK, Post
<1> QED
  BY <1>1 DEF Remembered

-----------------------------------------------------------------------------
(* Reactions. *)

(* How those so far relate to those after one more, at the instant t.      *)
LEMMA OneMore ==
  ASSUME ReactedOK, now \in Nat, NEW t \in Nat, t = now + 1,
         NEW new, new.at = t, reacted' = reacted \cup {new}
  PROVE  /\ \A v, from, to : ~(t \in from .. to) =>
              ReactionsOf(v, from, to)' = ReactionsOf(v, from, to)
         /\ \A v, from :
              /\ new.user = v /\ from <= t =>
                   /\ ReactionsSince(v, from)' = ReactionsSince(v, from) \cup {new}
                   /\ new \notin ReactionsSince(v, from)
              /\ new.user # v =>
                   ReactionsSince(v, from)' = ReactionsSince(v, from)
         /\ \A v, from : IsFiniteSet(ReactionsSince(v, from)')
<1>1. \A r \in reacted : r.at \in 1 .. now
  BY DEF ReactedOK
<1>2. ASSUME NEW v, NEW from, NEW to, ~(t \in from .. to)
      PROVE  ReactionsOf(v, from, to)' = ReactionsOf(v, from, to)
  BY <1>2 DEF ReactionsOf
<1>3. ASSUME NEW v, NEW from, new.user = v, from <= t
      PROVE  /\ ReactionsSince(v, from)' = ReactionsSince(v, from) \cup {new}
             /\ new \notin ReactionsSince(v, from)
  <2>1. new \notin reacted
    BY <1>1
  <2>2. t >= from
    BY <1>3
  <2> QED
    BY <1>3, <2>1 DEF ReactionsSince
<1>4. ASSUME NEW v, NEW from, new.user # v
      PROVE  ReactionsSince(v, from)' = ReactionsSince(v, from)
  BY <1>4 DEF ReactionsSince
<1>5. ASSUME NEW v, NEW from PROVE IsFiniteSet(ReactionsSince(v, from)')
  <2>1. IsFiniteSet(reacted')
    BY FS_AddElement DEF ReactedOK
  <2>2. ReactionsSince(v, from)' \in SUBSET reacted'
    BY DEF ReactionsSince
  <2> QED
    BY <2>1, <2>2, FS_Subset
<1> QED
  BY <1>2, <1>3, <1>4, <1>5

LEMMA OneMoreOwn ==
  ASSUME ReactedOK, now \in Nat, NEW t \in Nat, t = now + 1,
         NEW new, new.at = t, reacted' = reacted \cup {new},
         NEW u, new.user = u, NEW from, from <= t
  PROVE  /\ ReactionsSince(u, from)' = ReactionsSince(u, from) \cup {new}
         /\ new \notin ReactionsSince(u, from)
         /\ IsFiniteSet(ReactionsSince(u, from)')
BY OneMore

(* What check makes of the count there was.                                *)
Fresh(u, c, t) ==
  c = [user |-> u, count |-> 1, first |-> t, at |-> t]

Continued(e, c, t) ==
  /\ ~(t > e.first + ReactionWindow)
  /\ c = [user |-> e.user, count |-> e.count + 1, first |-> e.first, at |-> t]

LEMMA CountedIs ==
  ASSUME ReactionsOK, NEW u, NEW t
  PROVE  \/ /\ Fresh(u, Counted(u, t), t)
            /\ \A e \in reactions : e.user = u => t > e.first + ReactionWindow
         \/ \E e \in reactions : e.user = u /\ Continued(e, Counted(u, t), t)
<1> DEFINE known == {e \in reactions : e.user = u}
<1>1. CASE known = {}
  BY <1>1 DEF Counted, Count, Fresh
<1>2. CASE known # {}
  <2> DEFINE e == CHOOSE d \in known : TRUE
  <2>1. e \in known
    BY <1>2
  <2>2. \A d \in reactions : d.user = u => d = e
    BY <2>1 DEF ReactionsOK
  <2>3. Counted(u, t) = Count(e, t)
    BY <1>2 DEF Counted
  <2>4. e \in reactions /\ e.user = u /\ e \in CountEntry /\ e.count # 0
    BY <2>1 DEF ReactionsOK
  <2> HIDE DEF e
  <2>5. CASE t > e.first + ReactionWindow
    <3>1. Fresh(u, Counted(u, t), t)
      BY <2>3, <2>4, <2>5 DEF Count, CountEntry, Fresh
    <3> QED
      BY <2>2, <2>5, <3>1
  <2>6. CASE ~(t > e.first + ReactionWindow)
    <3>1. Continued(e, Counted(u, t), t)
      BY <2>3, <2>4, <2>6 DEF Count, CountEntry, Continued
    <3> QED
      BY <2>4, <3>1
  <2> QED
    BY <2>5, <2>6
<1> QED
  BY <1>1, <1>2

(* The cache of counts takes the new one in.                               *)
TakesIn(u, c) ==
  reactions' = Newest({e \in reactions : e.user # u} \cup {c}, MaxUsers)

LEMMA ReactionsTyped ==
  ASSUME ReactionsOK, now \in Nat, NEW t \in Nat, t = now + 1,
         NEW u, NEW c, c.user = u, c.at = t,
         TakesIn(u, c)
  PROVE  /\ IsFiniteSet(reactions') /\ Cardinality(reactions') <= MaxUsers
         /\ c \in reactions'
         /\ \A e \in reactions' : e = c \/ (e \in reactions /\ e.user # u)
         /\ \A e, d \in reactions' : e.user = d.user \/ e.at = d.at => e = d
         /\ u \in setting.users /\ IsFiniteSet(setting.users)
              /\ Cardinality(setting.users) <= MaxUsers =>
              \A e \in reactions : e.user # u => e \in reactions'
<1> DEFINE R == {e \in reactions : e.user # u}
           S == R \cup {c}
<1>1. /\ reactions \in SUBSET CountEntry /\ IsFiniteSet(reactions)
      /\ \A e \in reactions : e.at \in 1 .. now /\ e.user \in setting.users
      /\ \A e, d \in reactions : e.user = d.user \/ e.at = d.at => e = d
  BY DEF ReactionsOK
<1>2. IsFiniteSet(S)
  <2>1. IsFiniteSet(R)
    BY <1>1, FS_Subset
  <2> QED
    BY <2>1, FS_AddElement
<1>3. \A e \in S : e = c \/ (e \in reactions /\ e.user # u)
  OBVIOUS
<1>4. c \in S /\ \A e \in reactions : e.user # u => e \in S
  OBVIOUS
<1> HIDE DEF S, R
<1>5. \A e, d \in S : e.user = d.user \/ e.at = d.at => e = d
  BY <1>1, <1>3
<1>6. \A e \in S : e.at \in Nat /\ ~(e.at > c.at)
  BY <1>1, <1>3
<1>7. MaxUsers \in Nat \ {0}
  BY DuplicatesAssumption
<1>8. reactions' = Newest(S, MaxUsers)
  BY DEF TakesIn, S, R
<1>9. reactions' \in SUBSET S
  BY <1>8, NewestIsSubset
<1>10. IsFiniteSet(reactions') /\ Cardinality(reactions') <= MaxUsers
  <2>1. \A e, d \in S : e.at = d.at => e = d
    BY <1>5
  <2> QED
    BY <1>2, <1>6, <1>7, <1>8, <2>1, NewestBound
<1>11. c \in reactions'
  BY <1>4, <1>6, <1>7, <1>8, LatestIsNewest
<1>12. ASSUME u \in setting.users, IsFiniteSet(setting.users),
              Cardinality(setting.users) <= MaxUsers
       PROVE  reactions' = S
  <2> DEFINE f == [e \in S |-> e.user]
  <2>1. f \in [S -> setting.users] /\ \A e, d \in S : f[e] = f[d] => e = d
    BY <1>1, <1>3, <1>5, <1>12
  <2> HIDE DEF f
  <2>2. Cardinality(S) <= Cardinality(setting.users)
    BY <1>12, <2>1, FewerThan
  <2>3. Cardinality(S) <= MaxUsers
    BY <1>2, <1>7, <1>12, <2>2, FS_CardinalityType
  <2> QED
    BY <1>2, <1>6, <1>7, <1>8, <2>3, NewestIsAll
<1> QED
  BY <1>3, <1>4, <1>5, <1>9, <1>10, <1>11, <1>12

(* The facts about the reaction at hand: c is its count, r its record.     *)
LEMMA NewCount ==
  ASSUME ReactionsOK, ReactedOK, now \in Nat, NEW t \in Nat, t = now + 1,
         NEW u \in setting.users, u \in Users, NEW c, c = Counted(u, t),
         NEW r, r = [user |-> u, at |-> t, first |-> c.first,
                     spam |-> c.count >= setting.reactions],
         reacted' = reacted \cup {r}
  PROVE  /\ c \in CountEntry /\ c.user = u /\ c.at = t /\ c.first \in 1 .. t
         /\ c.count \in 1 .. t
         /\ c.count <= Cardinality(ReactionsSince(u, c.first)')
         /\ c.first >= t - ReactionWindow
<1>0. ReactionWindow \in Nat
  BY DuplicatesAssumption
<1>1. r.at = t /\ r.user = u
  OBVIOUS
<1> HIDE DEF Counted
<1>2. CASE Fresh(u, c, t)
  <2>1. c.user = u /\ c.at = t /\ c.first = t /\ c.count = 1
    BY <1>2 DEF Fresh
  <2>2. c \in CountEntry
    BY <1>2 DEF Fresh, CountEntry
  <2>3. IsFiniteSet(ReactionsSince(u, t)') /\ r \in ReactionsSince(u, t)'
    BY <1>1, OneMore
  <2>4. Cardinality(ReactionsSince(u, t)') \in Nat
        /\ Cardinality(ReactionsSince(u, t)') # 0
    BY <2>3, FS_CardinalityType, FS_EmptySet
  <2> QED
    BY <1>0, <2>1, <2>2, <2>4
<1>3. CASE \E e \in reactions : e.user = u /\ Continued(e, c, t)
  <2>1. PICK e \in reactions : e.user = u /\ Continued(e, c, t)
    BY <1>3
  <2>2. /\ c.user = u /\ c.at = t /\ c.first = e.first /\ c.count = e.count + 1
        /\ ~(t > e.first + ReactionWindow)
    BY <2>1 DEF Continued
  <2>3. /\ e.first \in 1 .. e.at /\ e.at \in 1 .. now /\ e.count \in 1 .. e.at
        /\ e.count <= Cardinality(ReactionsSince(u, e.first))
    BY <2>1 DEF ReactionsOK
  <2>4. c \in CountEntry
    BY <2>1, <2>3 DEF Continued, CountEntry
  <2> DEFINE S == ReactionsSince(u, e.first)
  <2>5. /\ ReactionsSince(u, e.first)' = S \cup {r} /\ r \notin S
        /\ IsFiniteSet(ReactionsSince(u, e.first)')
    <3>1. e.first <= t
      BY <2>3
    <3> QED
      BY <1>1, <3>1, OneMoreOwn
  <2>6. IsFiniteSet(S)
    BY FS_Subset DEF ReactedOK, ReactionsSince
  <2> HIDE DEF S
  <2>7. /\ Cardinality(S \cup {r}) = Cardinality(S) + 1
        /\ Cardinality(S) \in Nat
    BY <2>5, <2>6, FS_AddElement, FS_CardinalityType
  <2>8. c.count <= Cardinality(S \cup {r})
    BY <2>2, <2>3, <2>7 DEF S
  <2>9. c.first \in 1 .. t /\ c.count \in 1 .. t /\ c.first >= t - ReactionWindow
    BY <1>0, <2>2, <2>3
  <2> QED
    BY <2>2, <2>4, <2>5, <2>8, <2>9
<1> QED
  BY <1>2, <1>3, CountedIs

LEMMA ReactionCounts ==
  ASSUME ClockOK, ReactionsOK, ReactedOK, setting' = setting,
         NEW t \in Nat, now' = t, t = now + 1, NEW u \in setting.users,
         u \in Users, NEW c, c = Counted(u, t),
         TakesIn(u, c),
         NEW r, r = [user |-> u, at |-> t, first |-> c.first,
                     spam |-> c.count >= setting.reactions],
         reacted' = reacted \cup {r}
  PROVE  ReactionsOK' /\ ReactedOK'
<1>0. now \in Nat /\ ReactionWindow \in Nat
  BY DuplicatesAssumption DEF ClockOK
<1>1. r.at = t /\ r.user = u /\ r.first = c.first
  OBVIOUS
<1>2. r.spam = (c.count >= setting.reactions)
  OBVIOUS
<1>3. /\ c \in CountEntry /\ c.user = u /\ c.at = t /\ c.first \in 1 .. t
      /\ c.count \in 1 .. t
      /\ c.count <= Cardinality(ReactionsSince(u, c.first)')
      /\ c.first >= t - ReactionWindow
  BY <1>0, NewCount
<1>4. r \in Reacted
  <2>1. (c.count >= setting.reactions) \in BOOLEAN
    OBVIOUS
  <2>2. c.first \in Nat
    BY <1>3
  <2> QED
    BY <2>1, <2>2 DEF Reacted
<1> HIDE DEF Reacted
<1>5. /\ IsFiniteSet(reactions') /\ Cardinality(reactions') <= MaxUsers
      /\ \A e \in reactions' : e = c \/ (e \in reactions /\ e.user # u)
      /\ \A e, d \in reactions' : e.user = d.user \/ e.at = d.at => e = d
  <2>1. c.user = u /\ c.at = t
    BY <1>3
  <2> QED
    BY <1>0, <2>1, ReactionsTyped
<1>6. reactions' \in SUBSET CountEntry
  BY <1>3, <1>5 DEF ReactionsOK
<1>7. ASSUME NEW e \in reactions'
      PROVE  /\ e.user \in setting.users
             /\ e.first \in 1 .. e.at /\ e.at \in 1 .. t /\ e.count \in 1 .. e.at
             /\ e.count <= Cardinality(ReactionsSince(e.user, e.first)')
  <2>1. CASE e = c
    BY <1>3, <2>1
  <2>2. CASE e \in reactions /\ e.user # u
    <3>1. /\ e.user \in setting.users
          /\ e.first \in 1 .. e.at /\ e.at \in 1 .. now /\ e.count \in 1 .. e.at
          /\ e.count <= Cardinality(ReactionsSince(e.user, e.first))
      BY <2>2 DEF ReactionsOK
    <3>2. ReactionsSince(e.user, e.first)' = ReactionsSince(e.user, e.first)
      BY <1>1, <2>2 DEF ReactionsSince
    <3> QED
      BY <1>0, <3>1, <3>2
  <2> QED
    BY <1>5, <2>1, <2>2
<1>8. ReactionsOK'
  BY <1>5, <1>6, <1>7 DEF ReactionsOK
<1>9. ASSUME NEW s \in reacted'
      PROVE  /\ s.at \in 1 .. t
             /\ s.spam => Cardinality(ReactionsOf(s.user, s.at - ReactionWindow,
                                                  s.at)')
                            >= setting.reactions
  <2>1. CASE s \in reacted
    <3>1. /\ s.at \in 1 .. now
          /\ s.spam => Cardinality(ReactionsOf(s.user, s.at - ReactionWindow, s.at))
                         >= setting.reactions
      BY <2>1 DEF ReactedOK
    <3>2. ReactionsOf(s.user, s.at - ReactionWindow, s.at)'
            = ReactionsOf(s.user, s.at - ReactionWindow, s.at)
      BY <1>0, <1>1, <3>1 DEF ReactionsOf
    <3> QED
      BY <1>0, <3>1, <3>2
  <2>2. CASE s = r
    <3> DEFINE S == ReactionsSince(u, c.first)'
               B == ReactionsOf(u, t - ReactionWindow, t)'
    <3>1. \A x \in reacted' : x.at \in 1 .. t
      BY <1>1, <1>0 DEF ReactedOK
    <3>2. S \in SUBSET B
      BY <1>0, <1>3, <3>1 DEF ReactionsSince, ReactionsOf
    <3>3. IsFiniteSet(reacted')
      BY FS_AddElement DEF ReactedOK
    <3>4. IsFiniteSet(B)
      BY <3>3, FS_Subset DEF ReactionsOf
    <3>5. /\ Cardinality(S) <= Cardinality(B) /\ Cardinality(B) \in Nat
          /\ Cardinality(S) \in Nat
      BY <3>2, <3>4, FS_Subset, FS_CardinalityType
    <3>6. setting.reactions \in Nat
      BY DetectorAssumption DEF ClockOK
    <3>7. c.count <= Cardinality(S)
      BY <1>3
    <3>8. s.at = t /\ s.user = u
      BY <1>1, <2>2
    <3> HIDE DEF S, B
    <3>9. s.spam => Cardinality(B) >= setting.reactions
      <4>1. SUFFICES ASSUME s.spam PROVE Cardinality(B) >= setting.reactions
        OBVIOUS
      <4>2. c.count >= setting.reactions
        BY <1>2, <2>2, <4>1
      <4> QED
        BY <1>3, <3>5, <3>6, <3>7, <4>2
    <3>10. s.spam => Cardinality(ReactionsOf(s.user, s.at - ReactionWindow, s.at)')
                       >= setting.reactions
      BY <3>8, <3>9 DEF B
    <3> QED
      BY <1>0, <3>8, <3>10
  <2> QED
    BY <2>1, <2>2
<1>10. reacted' \in SUBSET Reacted /\ IsFiniteSet(reacted')
  BY <1>4, FS_AddElement DEF ReactedOK
<1>11. ReactedOK'
  BY <1>9, <1>10 DEF ReactedOK
<1> QED
  BY <1>8, <1>11

LEMMA ReactionWindows ==
  ASSUME ClockOK, ReactionsOK, ReactedOK, WindowsFollow, setting' = setting,
         NEW t \in Nat, now' = t, t = now + 1, NEW u \in setting.users,
         u \in Users, NEW c, c = Counted(u, t),
         TakesIn(u, c),
         NEW r, r = [user |-> u, at |-> t, first |-> c.first,
                     spam |-> c.count >= setting.reactions],
         reacted' = reacted \cup {r}
  PROVE  WindowsFollow'
<1> SUFFICES ASSUME Unbroken
             PROVE  /\ \A s \in reacted' :
                         /\ s.first \in 1 .. s.at
                         /\ s.spam = (Cardinality(ReactionsOf(s.user, s.first, s.at)')
                                        >= setting.reactions)
                         /\ \E e \in reactions' : e.user = s.user
                         /\ \A q \in reacted' : q.user = s.user /\ q.at < s.first =>
                              q.first + ReactionWindow < s.first
                    /\ \A e \in reactions' :
                         /\ e.count = Cardinality(ReactionsSince(e.user, e.first)')
                         /\ \A s \in reacted' : s.user = e.user =>
                              IF s.at < e.first THEN s.first + ReactionWindow < e.first
                              ELSE s.first = e.first
  BY DEF WindowsFollow, Unbroken
<1>0. now \in Nat /\ ReactionWindow \in Nat
  BY DuplicatesAssumption DEF ClockOK
<1>1. r.at = t /\ r.user = u /\ r.first = c.first
  OBVIOUS
<1>2. r.spam = (c.count >= setting.reactions)
  OBVIOUS
<1>3. c.user = u /\ c.at = t /\ c.first \in 1 .. t
  BY <1>0, NewCount
<1>4. /\ \A s \in reacted :
           /\ s.first \in 1 .. s.at
           /\ s.spam = (Cardinality(ReactionsOf(s.user, s.first, s.at))
                          >= setting.reactions)
           /\ \E e \in reactions : e.user = s.user
           /\ \A q \in reacted : q.user = s.user /\ q.at < s.first =>
                q.first + ReactionWindow < s.first
      /\ \A e \in reactions :
           /\ e.count = Cardinality(ReactionsSince(e.user, e.first))
           /\ \A s \in reacted : s.user = e.user =>
                IF s.at < e.first THEN s.first + ReactionWindow < e.first
                ELSE s.first = e.first
  BY DEF WindowsFollow
<1>5. \A s \in reacted : s.at \in 1 .. now
  BY DEF ReactedOK
<1>6. /\ c \in reactions'
      /\ \A e \in reactions' : e = c \/ (e \in reactions /\ e.user # u)
      /\ \A e \in reactions : e.user # u => e \in reactions'
  <2>1. IsFiniteSet(setting.users) /\ Cardinality(setting.users) <= MaxUsers
    <3>1. setting.users \in SUBSET Users
      BY DetectorAssumption DEF ClockOK
    <3> QED
      BY <3>1, FS_Subset, DuplicatesAssumption DEF Unbroken
  <2> QED
    BY <1>0, <1>3, <2>1, ReactionsTyped
<1> HIDE DEF Counted
(* The count, and how it goes on from the earlier ones. *)
<1>7. /\ c.count = Cardinality(ReactionsSince(u, c.first)')
      /\ \A s \in reacted : s.user = u =>
           IF s.at < c.first THEN s.first + ReactionWindow < c.first
           ELSE s.first = c.first
  <2>1. CASE /\ Fresh(u, c, t)
             /\ \A e \in reactions : e.user = u => t > e.first + ReactionWindow
    <3>1. c.first = t /\ c.count = 1
      BY <2>1 DEF Fresh
    <3>2. ReactionsSince(u, t)' = {r}
      BY <1>0, <1>1, <1>5 DEF ReactionsSince
    <3>3. c.count = Cardinality(ReactionsSince(u, c.first)')
      BY <3>1, <3>2, FS_Singleton
    <3>4. ASSUME NEW s \in reacted, s.user = u
          PROVE  s.at < t /\ s.first + ReactionWindow < t
      <4>1. PICK e \in reactions : e.user = u
        BY <1>4, <3>4
      <4>2. e.first \in Nat /\ e.first <= now /\ t > e.first + ReactionWindow
        BY <1>0, <2>1, <4>1 DEF ReactionsOK
      <4>3. s.first \in 1 .. s.at /\ s.at \in 1 .. now
        BY <1>4, <1>5, <3>4
      <4>4. IF s.at < e.first THEN s.first + ReactionWindow < e.first
            ELSE s.first = e.first
        BY <1>4, <3>4, <4>1
      <4> QED
        BY <1>0, <4>2, <4>3, <4>4
    <3> QED
      BY <3>1, <3>3, <3>4
  <2>2. CASE \E e \in reactions : e.user = u /\ Continued(e, c, t)
    <3>1. PICK e \in reactions : e.user = u /\ Continued(e, c, t)
      BY <2>2
    <3>2. c.first = e.first /\ c.count = e.count + 1
      BY <3>1 DEF Continued
    <3> DEFINE S == ReactionsSince(u, e.first)
    <3>3. /\ ReactionsSince(u, e.first)' = S \cup {r} /\ r \notin S
      <4>1. e.first <= t
        BY <1>3, <3>2
      <4> QED
        BY <1>0, <1>1, <4>1, OneMoreOwn
    <3>4. IsFiniteSet(S) /\ e.count = Cardinality(S)
      BY <1>4, <3>1, FS_Subset DEF ReactedOK, ReactionsSince
    <3> HIDE DEF S
    <3>5. Cardinality(S \cup {r}) = Cardinality(S) + 1
      BY <3>3, <3>4, FS_AddElement
    <3>6. c.count = Cardinality(ReactionsSince(u, c.first)')
      BY <3>2, <3>3, <3>4, <3>5
    <3> QED
      BY <1>4, <3>1, <3>2, <3>6
  <2> QED
    BY <2>1, <2>2, CountedIs
<1>8. \A v, from, to : ~(t \in from .. to) =>
        ReactionsOf(v, from, to)' = ReactionsOf(v, from, to)
  BY <1>1 DEF ReactionsOf
<1>9. ReactionsOf(u, c.first, t)' = ReactionsSince(u, c.first)'
  <2>1. \A s \in reacted' : s.at \in 1 .. t
    BY <1>0, <1>1, <1>5
  <2> QED
    BY <1>3, <2>1 DEF ReactionsOf, ReactionsSince
<1>10. ASSUME NEW s \in reacted'
       PROVE  /\ s.first \in 1 .. s.at
              /\ s.spam = (Cardinality(ReactionsOf(s.user, s.first, s.at)')
                             >= setting.reactions)
              /\ \E e \in reactions' : e.user = s.user
              /\ \A q \in reacted' : q.user = s.user /\ q.at < s.first =>
                   q.first + ReactionWindow < s.first
  <2>1. CASE s = r
    <3>1. s.first = c.first /\ s.at = t /\ s.user = u
      BY <1>1, <2>1
    <3>2. s.spam = (Cardinality(ReactionsOf(s.user, s.first, s.at)')
                      >= setting.reactions)
      BY <1>2, <1>7, <1>9, <2>1, <3>1
    <3>3. \E e \in reactions' : e.user = s.user
      BY <1>3, <1>6, <3>1
    <3>4. ASSUME NEW q \in reacted', q.user = u, q.at < c.first
          PROVE  q.first + ReactionWindow < c.first
      <4>1. q \in reacted
        BY <1>1, <1>3, <3>4
      <4> QED
        BY <1>7, <3>4, <4>1
    <3>5. s.first \in 1 .. s.at
      BY <1>3, <3>1
    <3> QED
      BY <3>1, <3>2, <3>3, <3>4, <3>5
  <2>2. CASE s \in reacted
    <3>1. /\ s.first \in 1 .. s.at /\ s.at \in 1 .. now
          /\ \E e \in reactions : e.user = s.user
      BY <1>4, <1>5, <2>2
    <3>2. ReactionsOf(s.user, s.first, s.at)' = ReactionsOf(s.user, s.first, s.at)
      <4>1. ~(t \in s.first .. s.at)
        BY <1>0, <3>1
      <4> QED
        BY <1>8, <4>1
    <3>3. s.spam = (Cardinality(ReactionsOf(s.user, s.first, s.at)')
                      >= setting.reactions)
      BY <1>4, <2>2, <3>2
    <3>4. \E e \in reactions' : e.user = s.user
      BY <1>3, <1>6, <3>1
    <3>5. ASSUME NEW q \in reacted', q.user = s.user, q.at < s.first
          PROVE  q.first + ReactionWindow < s.first
      <4>1. q # r
        BY <1>0, <1>1, <3>1, <3>5
      <4> QED
        BY <1>4, <2>2, <3>5, <4>1
    <3> QED
      BY <3>1, <3>3, <3>4, <3>5
  <2> QED
    BY <2>1, <2>2
<1>11. ASSUME NEW e \in reactions'
       PROVE  /\ e.count = Cardinality(ReactionsSince(e.user, e.first)')
              /\ \A s \in reacted' : s.user = e.user =>
                   IF s.at < e.first THEN s.first + ReactionWindow < e.first
                   ELSE s.first = e.first
  <2>1. CASE e = c
    <3>1. ASSUME NEW s \in reacted', s.user = u
          PROVE  IF s.at < c.first THEN s.first + ReactionWindow < c.first
                 ELSE s.first = c.first
      <4>1. CASE s = r
        BY <1>1, <1>3, <4>1
      <4>2. CASE s \in reacted
        BY <1>7, <3>1, <4>2
      <4> QED
        BY <4>1, <4>2
    <3> QED
      BY <1>3, <1>7, <2>1, <3>1
  <2>2. CASE e \in reactions /\ e.user # u
    <3>1. ReactionsSince(e.user, e.first)' = ReactionsSince(e.user, e.first)
      BY <1>1, <2>2 DEF ReactionsSince
    <3>2. \A s \in reacted' : s.user = e.user => s \in reacted
      BY <1>1, <2>2
    <3> QED
      BY <1>4, <2>2, <3>1, <3>2
  <2> QED
    BY <1>6, <2>1, <2>2
<1> QED
  BY <1>10, <1>11

(* The bursts: what came since the window of the last reaction opened, and *)
(* what came before in one earlier window, are both too few to be noticed. *)
LEMMA BurstsNoticed ==
  ASSUME ClockOK, ReactedOK, WindowsFollow
  PROVE  BurstsAreNoticed
<1>0. ReactionWindow \in Nat /\ setting.reactions \in Nat /\ now \in Nat
  BY DuplicatesAssumption, DetectorAssumption DEF ClockOK
<1>1. \A r \in reacted : r.spam =>
        Cardinality(ReactionsOf(r.user, r.at - ReactionWindow, r.at))
          >= setting.reactions
  BY DEF ReactedOK
<1>2. ASSUME Unbroken, NEW r \in reacted,
             Cardinality(ReactionsOf(r.user, r.at - ReactionWindow, r.at))
               >= 2 * setting.reactions - 1,
             \A s \in ReactionsOf(r.user, r.at - ReactionWindow, r.at) : ~s.spam
      PROVE  FALSE
  <2> DEFINE n == setting.reactions
             B == ReactionsOf(r.user, r.at - ReactionWindow, r.at)
             New == {q \in B : q.at >= r.first}
             Old == {q \in B : q.at < r.first}
  <2>1. /\ \A s \in reacted :
             /\ s.first \in 1 .. s.at
             /\ s.spam = (Cardinality(ReactionsOf(s.user, s.first, s.at)) >= n)
             /\ \A q \in reacted : q.user = s.user /\ q.at < s.first =>
                  q.first + ReactionWindow < s.first
        /\ \A s \in reacted : s.at \in 1 .. now
        /\ IsFiniteSet(reacted)
    BY <1>2 DEF WindowsFollow, ReactedOK
  <2>2. ASSUME NEW s \in B, NEW S \in SUBSET ReactionsOf(s.user, s.first, s.at)
        PROVE  IsFiniteSet(S) /\ Cardinality(S) \in Nat /\ Cardinality(S) < n
    <3> DEFINE W == ReactionsOf(s.user, s.first, s.at)
    <3>1. s \in reacted /\ ~s.spam
      BY <1>2 DEF ReactionsOf
    <3>2. ~(Cardinality(W) >= n)
      BY <2>1, <3>1
    <3>3. IsFiniteSet(W)
      BY <2>1, FS_Subset DEF ReactionsOf
    <3>4. /\ IsFiniteSet(S) /\ Cardinality(S) <= Cardinality(W)
          /\ Cardinality(S) \in Nat /\ Cardinality(W) \in Nat
      BY <3>3, FS_Subset, FS_CardinalityType
    <3> HIDE DEF W
    <3> QED
      BY <1>0, <3>2, <3>4
  <2>3. r \in B
    BY <1>0, <2>1 DEF ReactionsOf
  <2>4. New \in SUBSET ReactionsOf(r.user, r.first, r.at)
    BY <1>0, <2>1 DEF ReactionsOf
  <2>5. IsFiniteSet(New) /\ Cardinality(New) \in Nat /\ Cardinality(New) < n
    BY <2>2, <2>3, <2>4
  <2>6. IsFiniteSet(Old) /\ Cardinality(Old) \in Nat /\ Cardinality(Old) < n
    <3>1. CASE Old = {}
      <4>1. Cardinality(Old) = 0 /\ IsFiniteSet(Old)
        BY <3>1, FS_EmptySet
      <4> HIDE DEF Old, New
      <4> QED
        BY <1>0, <2>5, <4>1
    <3>2. CASE Old # {}
      <4>1. \A q \in Old : q.at \in 0 .. now
        BY <1>0, <2>1 DEF ReactionsOf
      <4>2. PICK s \in Old : \A q \in Old : q.at <= s.at
        BY <1>0, <3>2, <4>1, LatestExists
      <4>3. s \in B /\ s \in reacted /\ s.user = r.user /\ s.at < r.first
        BY <4>2 DEF ReactionsOf
      <4>4. s.first + ReactionWindow < r.first
        BY <2>1, <4>3
      <4>5. Old \in SUBSET ReactionsOf(s.user, s.first, s.at)
        <5> SUFFICES ASSUME NEW q \in Old
                     PROVE  q \in ReactionsOf(s.user, s.first, s.at)
          OBVIOUS
        <5>1. /\ q \in reacted /\ q.user = r.user /\ q.at <= s.at
              /\ q.at \in r.at - ReactionWindow .. r.at
          BY <4>2 DEF ReactionsOf
        <5>2. /\ s.first \in 1 .. s.at /\ r.first \in 1 .. r.at
              /\ q.at \in 1 .. now /\ s.at \in 1 .. now /\ r.at \in 1 .. now
          BY <2>1, <4>3, <5>1
        <5>3. s.first <= q.at
          BY <1>0, <4>4, <5>1, <5>2
        <5> QED
          BY <4>3, <5>1, <5>2, <5>3 DEF ReactionsOf
      <4> QED
        BY <2>2, <4>3, <4>5
    <3> QED
      BY <3>1, <3>2
  <2>7. B = New \cup Old /\ New \cap Old = {}
    <3>1. \A q \in B : q.at \in Nat
      BY <2>1 DEF ReactionsOf
    <3>2. r.first \in Nat
      BY <2>1
    <3> QED
      BY <3>1, <3>2
  <2>8. Cardinality(B) = Cardinality(New) + Cardinality(Old)
    <3> HIDE DEF B, New, Old
    <3>1. Cardinality(New \cap Old) = 0
      BY <2>7, FS_EmptySet
    <3>2. Cardinality(New \cup Old)
            = Cardinality(New) + Cardinality(Old) - Cardinality(New \cap Old)
      BY <2>5, <2>6, FS_Union
    <3> QED
      BY <2>5, <2>6, <2>7, <3>1, <3>2
  <2>9. Cardinality(B) >= 2 * n - 1
    BY <1>2
  <2> HIDE DEF B, New, Old
  <2> QED
    BY <1>0, <2>5, <2>6, <2>8, <2>9
<1> QED
  BY <1>1, <1>2 DEF BurstsAreNoticed, Unbroken

-----------------------------------------------------------------------------
(* The steps. *)

LEMMA CheckFacts ==
  ASSUME ClockOK, CountsOK, setting' = setting, NEW u \in Users,
         NEW text \in Texts, NEW id, NEW checkOnly, NEW rows,
         NEW fails, NEW t, now' = t, Check(u, text, id, checkOnly, rows, fails)
  PROVE  \E duplicate \in BOOLEAN :
           /\ duplicate = IsDuplicate(setting.duplicates, u, text, id, t)
           /\ Judged(u, text, id, checkOnly, duplicate, rows, fails, t)
<1>1. PICK found \in BOOLEAN, similar \in BOOLEAN :
        Judge(u, text, id, checkOnly,
              IsDuplicate(setting.duplicates, u, text, id, t),
              found, similar, rows, fails)
  BY DEF Check
<1>2. IsDuplicate(setting.duplicates, u, text, id, t) \in BOOLEAN
  BY DEF IsDuplicate
<1>3. PICK duplicate \in BOOLEAN :
        duplicate = IsDuplicate(setting.duplicates, u, text, id, t)
  BY <1>2
<1>4. Judge(u, text, id, checkOnly, duplicate, found, similar, rows, fails)
  BY <1>1, <1>3
<1>5. Judged(u, text, id, checkOnly, duplicate, rows, fails, t)
  BY <1>4, JudgeFacts
<1> QED
  BY <1>3, <1>5

(* The memory, when a message is checked or when nothing is.               *)
LEMMA QuietMemory ==
  ASSUME ClockOK, HistoryOK, CacheOK, setting' = setting, NEW t \in Nat,
         now' = t, t = now + 1, UNCHANGED <<history, cached>>,
         \A v \in Users : \A e \in history[v] : Seen(e, v) => Seen(e, v)',
         \A c \in cached :
           (\E p \in chat : p.user = c.user /\ p.touched >= c.at)
             => \E p \in chat' : p.user = c.user /\ p.touched >= c.at
  PROVE  HistoryOK' /\ CacheOK'
<1>1. now \in Nat
  BY DEF ClockOK
<1>2. HistoryOK'
  BY <1>1 DEF HistoryOK
<1>3. CacheOK'
  BY <1>1 DEF CacheOK
<1> QED
  BY <1>2, <1>3

LEMMA CheckMemory ==
  ASSUME ClockOK, HistoryOK, CacheOK, NEW u \in Users, NEW text \in Texts,
         NEW id \in Nat, NEW t \in Nat, now' = t, t = now + 1,
         setting' = setting, NEW checkOnly, NEW rows, NEW fails,
         Check(u, text, id, checkOnly, rows, fails),
         id = 0 => "check" \in setting.updates,
         ChatFollows(u, text, id, t)
  PROVE  HistoryOK' /\ CacheOK'
<1>0. now \in Nat
  BY DEF ClockOK
<1>1. CASE setting.duplicates = 0
  <2>1. UNCHANGED <<history, cached>>
    BY <1>1 DEF Check
  <2>2. \A v \in Users : history[v] = {}
    BY <1>1 DEF HistoryOK
  <2>3. \A v \in Users : \A e \in history[v] : Seen(e, v) => Seen(e, v)'
    BY <2>2
  <2>4. \A c \in cached :
          (\E p \in chat : p.user = c.user /\ p.touched >= c.at)
            => \E p \in chat' : p.user = c.user /\ p.touched >= c.at
    BY DEF ChatFollows
  <2> QED
    BY <2>1, <2>3, <2>4, QuietMemory
<1>2. CASE setting.duplicates # 0
  <2>1. PICK tidy \in BOOLEAN : TrackMessage(u, text, id, t, tidy)
    BY <1>2 DEF Check
  <2> QED
    BY <1>0, <1>2, <2>1, TrackKeeps
<1> QED
  BY <1>1, <1>2

LEMMA PostedMemory ==
  ASSUME ClockOK, ChatOK, HistoryOK, CacheOK, setting' = setting,
         NEW u \in Users, NEW text \in Texts, NEW id \in Nat, id > 0,
         NEW t \in Nat, now' = t, t = now + 1, NEW p, PostedAs(u, text, id, t, p),
         NEW checkOnly, NEW rows, NEW fails,
         Check(u, text, id, checkOnly, rows, fails)
  PROVE  HistoryOK' /\ CacheOK'
<1>1. /\ chat' = {q \in chat : q.id # id} \cup {p}
      /\ p.id = id /\ p.user = u /\ p.text = text /\ p.at \in 1 .. t
      /\ p.touched = t
      /\ \A q \in chat : q.id = id =>
           q.user = u /\ p.at = IF q.text = text THEN q.at ELSE t
  BY DEF PostedAs
<1>2. ASSUME NEW v \in Users, NEW e \in history[v], e.id > 0, Seen(e, v),
             v = u => id = 0 \/ e.id # id \/ e.text = text
      PROVE  Seen(e, v)'
  <2>1. PICK q \in chat : /\ q.user = v /\ q.id = e.id /\ q.text = e.text
                          /\ q.at <= e.at /\ q.touched >= e.at
    BY <1>2 DEF Seen
  <2>2. CASE q.id = id
    <3>1. p.text = e.text /\ p.at = q.at /\ p.user = v /\ p.id = e.id
      BY <1>1, <1>2, <2>1, <2>2
    <3>2. p.touched >= e.at
      BY <1>1, <1>2 DEF ClockOK, HistoryOK
    <3> QED
      BY <1>1, <2>1, <3>1, <3>2 DEF Seen
  <2>3. CASE q.id # id
    BY <1>1, <2>1, <2>3 DEF Seen
  <2> QED
    BY <2>2, <2>3
<1>3. ASSUME NEW c \in cached,
             \E q \in chat : q.user = c.user /\ q.touched >= c.at
      PROVE  \E q \in chat' : q.user = c.user /\ q.touched >= c.at
  <2>1. PICK q \in chat : q.user = c.user /\ q.touched >= c.at
    BY <1>3
  <2>2. CASE q.id = id
    <3>1. p.user = c.user
      BY <1>1, <2>1, <2>2
    <3>2. p.touched >= c.at
      BY <1>1 DEF ClockOK, CacheOK
    <3> QED
      BY <1>1, <3>1, <3>2
  <2>3. CASE q.id # id
    BY <1>1, <2>1, <2>3
  <2> QED
    BY <2>2, <2>3
<1>4. \E q \in chat' : /\ q.user = u /\ q.id = id /\ q.text = text
                       /\ q.at <= t /\ q.touched >= t
  BY <1>1
<1>5. id # 0
  OBVIOUS
<1>6. ChatFollows(u, text, id, t)
  BY <1>2, <1>3, <1>4 DEF ChatFollows
<1> QED
  BY <1>5, <1>6, CheckMemory

(* The reactions, when there is none. *)
LEMMA QuietReactions ==
  ASSUME ClockOK, ReactionsOK, ReactedOK, WindowsFollow, setting' = setting,
         NEW t \in Nat, now' = t, t = now + 1, UNCHANGED <<reactions, reacted>>
  PROVE  ReactionsOK' /\ ReactedOK' /\ WindowsFollow'
<1>1. now \in Nat
  BY DEF ClockOK
<1>2. ReactionsOK'
  BY <1>1 DEF ReactionsOK, ReactionsSince
<1>3. ReactedOK'
  BY <1>1 DEF ReactedOK, ReactionsOf
<1>4. WindowsFollow'
  BY DEF WindowsFollow, Unbroken, ReactionsOf, ReactionsSince
<1> QED
  BY <1>2, <1>3, <1>4

LEMMA QuietVerdict ==
  ASSUME ExtrasAreRepeats, OverruledByConsensus, setting' = setting,
         UNCHANGED <<chat, last>>
  PROVE  ExtrasAreRepeats' /\ OverruledByConsensus'
BY DEF ExtrasAreRepeats, OverruledByConsensus

LEMMA UpdateFacts ==
  ASSUME ClockOK, NEW kind, Update(kind)
  PROVE  /\ setting' = setting /\ ClockOK' /\ now' = now + 1 /\ now' \in Nat
         /\ kind \in setting.updates
  BY DetectorAssumption DEF ClockOK, Update

LEMMA PostedStep ==
  ASSUME IInv, ClockOK', setting' = setting, NEW t \in Nat, now' = t, t = now + 1,
         NEW u \in Users, NEW text \in Texts, NEW id \in Nat, id \in 1 .. t,
         NEW fails \in SUBSET setting.fails, Process(u, text, id, fails),
         NEW p, PostedAs(u, text, id, t, p)
  PROVE  IInv'
<1>1. PICK rows : rows = messages'
  OBVIOUS
<1>13. PICK checkOnly : checkOnly = FALSE
  OBVIOUS
<1>2. /\ locator!AddMessage(text, u, id, TRUE, t, fails)
      /\ Check(u, text, id, checkOnly, rows, fails)
      /\ UNCHANGED <<reacted, reactions>>
  BY <1>1, <1>13 DEF Process
<1> HIDE DEF IInv
<1>3. /\ ClockOK /\ CountsOK /\ ChatOK /\ RowsOK /\ RowsRemember
      /\ HistoryOK /\ CacheOK /\ Remembered
      /\ ReactionsOK /\ ReactedOK /\ WindowsFollow
      /\ ExtrasAreRepeats /\ OverruledByConsensus /\ FloodIsStopped
  BY DEF IInv
<1>4. PICK duplicate \in BOOLEAN :
        /\ duplicate = IsDuplicate(setting.duplicates, u, text, id, t)
        /\ Judged(u, text, id, checkOnly, duplicate, rows, fails, t)
  BY <1>2, <1>3, CheckFacts
<1>12. /\ last'.user = u /\ last'.text = text /\ last'.id = id
       /\ CountsOK' /\ OverruledByConsensus'
       /\ \A v \in Users : approvedUsers'[v] = 0 => approvedUsers[v] = 0
  BY <1>4 DEF Judged
<1>5. ChatOK'
  BY <1>3, PostedChat
<1>6. RowsOK' /\ RowsRemember'
  BY <1>2, <1>3, PostedRows
<1>7. HistoryOK' /\ CacheOK'
  <2>1. id > 0
    OBVIOUS
  <2> QED
    BY <1>2, <1>3, <2>1, PostedMemory
<1>8. Remembered'
  <2>1. CASE setting.duplicates = 0
    BY <2>1 DEF Remembered
  <2>2. CASE setting.duplicates # 0
    <3>1. PICK tidy \in BOOLEAN : TrackMessage(u, text, id, t, tidy)
      BY <1>2, <2>2 DEF Check
    <3> QED
      BY <1>3, <1>5, <1>7, <3>1, PostedRemembered
  <2> QED
    BY <2>1, <2>2
<1>9. ReactionsOK' /\ ReactedOK' /\ WindowsFollow'
  BY <1>2, <1>3, QuietReactions
<1>10. ExtrasAreRepeats'
  <2>1. \A x \in last'.extra :
          \/ /\ IsDuplicate(setting.duplicates, u, text, id, t)
             /\ x \in ExtraIDs(u, text, id, t)
          \/ last'.why = "flood" /\ x \in FloodIDs(messages', u, id)
    BY <1>1, <1>4 DEF Judged
  <2>2. id > 0
    OBVIOUS
  <2> QED
    BY <1>3, <1>12, <1>6, <2>1, <2>2, PostedExtras
<1>11. FloodIsStopped'
  <2>1. FirstMessageOnly /\ approvedUsers[u] = 0 =>
          last'.spam = TRUE \/ ~IsFlood(messages', u, text, FALSE, fails)
    BY <1>1, <1>4, <1>13 DEF Judged
  <2> QED
    BY <1>3, <1>12, <1>5, <1>6, <2>1, PostedFlood
<1> QED
  BY <1>5, <1>6, <1>7, <1>8, <1>9, <1>10, <1>11, <1>12 DEF IInv

LEMMA InitHolds == Init => IInv
<1> SUFFICES ASSUME Init PROVE IInv
  OBVIOUS
<1>1. /\ setting \in Settings /\ now = 0 /\ messages = {}
      /\ approvedUsers = [u \in Users |-> 0]
      /\ chat = {} /\ reacted = {} /\ last = NoVerdict
      /\ history = [u \in Users |-> {}] /\ cached = {} /\ reactions = {}
  BY DEF Init
<1>2. IsFiniteSet({}) /\ Cardinality({}) = 0
  BY FS_EmptySet
<1>3. /\ {MaxEntries, MaxUsers} \subseteq Nat \ {0} /\ MaxTime \in Nat
  BY DuplicatesAssumption, DetectorAssumption
<1>4. ClockOK /\ CountsOK
  BY <1>1, <1>3 DEF ClockOK, CountsOK
<1>5. ChatOK /\ RowsOK /\ RowsRemember
  BY <1>1, <1>2 DEF ChatOK, RowsOK, RowsRemember
<1>6. HistoryOK /\ CacheOK /\ Remembered
  BY <1>1, <1>2, <1>3 DEF HistoryOK, CacheOK, Remembered
<1>7. ReactionsOK /\ ReactedOK /\ WindowsFollow
  BY <1>1, <1>2, <1>3 DEF ReactionsOK, ReactedOK, WindowsFollow
<1>8. ExtrasAreRepeats /\ OverruledByConsensus
  BY <1>1 DEF ExtrasAreRepeats, OverruledByConsensus, NoVerdict
<1>9. FloodIsStopped
  <2> SUFFICES ASSUME setting.flood > 0, NEW v \in Users
               PROVE  Cardinality({q.text : q \in Through(v)}) < setting.flood
    BY FloodCounts
  <2>1. {q.text : q \in Through(v)} = {}
    BY <1>1 DEF Through
  <2>2. setting.flood \in Nat
    BY <1>1, DetectorAssumption
  <2> QED
    BY <1>2, <2>1, <2>2
<1> QED
  BY <1>4, <1>5, <1>6, <1>7, <1>8, <1>9 DEF IInv

LEMMA RequestStep ==
  ASSUME IInv, NEW u \in setting.users, NEW text \in setting.texts,
         CheckRequest(u, text)
  PROVE  IInv'
<1>1. /\ ClockOK /\ CountsOK /\ ChatOK /\ RowsOK /\ RowsRemember
      /\ HistoryOK /\ CacheOK /\ Remembered
      /\ ReactionsOK /\ ReactedOK /\ WindowsFollow
      /\ ExtrasAreRepeats /\ OverruledByConsensus /\ FloodIsStopped
  BY DEF IInv
<1>2. /\ setting' = setting /\ ClockOK' /\ now' = now + 1 /\ now' \in Nat
      /\ "check" \in setting.updates
  BY <1>1, UpdateFacts DEF CheckRequest
<1>3. u \in Users /\ text \in Texts
  BY <1>1, DetectorAssumption DEF ClockOK
<1>4. PICK t \in Nat : now' = t /\ t = now + 1
  BY <1>2
<1>5. PICK rows : rows = messages
  OBVIOUS
<1>15. PICK checkOnly : checkOnly = TRUE
  OBVIOUS
<1>16. PICK none : none = {}
  OBVIOUS
<1>17. PICK id \in Nat : id = 0
  OBVIOUS
<1>6. /\ Check(u, text, id, checkOnly, rows, none)
      /\ UNCHANGED <<messages, reactions, chat, reacted>>
  BY <1>5, <1>15, <1>16, <1>17 DEF CheckRequest
<1> HIDE DEF IInv
<1>7. PICK duplicate \in BOOLEAN :
        Judged(u, text, id, checkOnly, duplicate, rows, none, t)
  BY <1>1, <1>2, <1>3, <1>4, <1>6, CheckFacts
<1>8. /\ last'.id = 0 /\ CountsOK' /\ OverruledByConsensus'
      /\ \A v \in Users : approvedUsers'[v] = 0 => approvedUsers[v] = 0
  BY <1>7, <1>17 DEF Judged
<1>9. ChatOK' /\ RowsOK' /\ RowsRemember'
  BY <1>1, <1>2, <1>4, <1>6, RowsStay
<1>10. HistoryOK' /\ CacheOK'
  <2>1. ChatFollows(u, text, id, t)
    BY <1>6, <1>17 DEF ChatFollows, Seen
  <2> QED
    BY <1>1, <1>2, <1>3, <1>4, <1>6, <2>1, CheckMemory
<1>11. Remembered'
  BY <1>2 DEF Remembered
<1>12. ReactionsOK' /\ ReactedOK' /\ WindowsFollow'
  BY <1>1, <1>2, <1>4, <1>6, QuietReactions
<1>13. ExtrasAreRepeats'
  BY <1>8 DEF ExtrasAreRepeats
<1>14. FloodIsStopped'
  BY <1>1, <1>2, <1>4, <1>6, <1>8, QuietFlood
<1> QED
  BY <1>2, <1>8, <1>9, <1>10, <1>11, <1>12, <1>13, <1>14 DEF IInv

(* The other updates: a reaction, none at all, and a restart.              *)
LEMMA QuietStep ==
  ASSUME IInv, setting' = setting, ClockOK', NEW t \in Nat, now' = t,
         t = now + 1, UNCHANGED <<messages, chat, last, memory>>,
         ReactionsOK', ReactedOK', WindowsFollow'
  PROVE  IInv'
<1>1. /\ ClockOK /\ CountsOK /\ ChatOK /\ RowsOK /\ RowsRemember
      /\ HistoryOK /\ CacheOK /\ Remembered
      /\ ExtrasAreRepeats /\ OverruledByConsensus /\ FloodIsStopped
  BY DEF IInv
<1>2. UNCHANGED <<messages, chat, last, approvedUsers, history, cached>>
  BY DEF memory
<1> HIDE DEF IInv
<1>3. CountsOK'
  BY <1>1, <1>2 DEF CountsOK
<1>4. ChatOK' /\ RowsOK' /\ RowsRemember'
  BY <1>1, <1>2, RowsStay
<1>5. HistoryOK' /\ CacheOK'
  <2>1. /\ \A v \in Users : \A e \in history[v] : Seen(e, v) => Seen(e, v)'
        /\ \A c \in cached :
             (\E p \in chat : p.user = c.user /\ p.touched >= c.at)
               => \E p \in chat' : p.user = c.user /\ p.touched >= c.at
    BY <1>2 DEF Seen
  <2> QED
    BY <1>1, <1>2, <2>1, QuietMemory
<1>6. Remembered'
  BY <1>1, <1>2, QuietRemembered
<1>7. ExtrasAreRepeats' /\ OverruledByConsensus'
  BY <1>1, <1>2, QuietVerdict
<1>8. FloodIsStopped'
  <2>1. \A v \in Users : approvedUsers'[v] = 0 => approvedUsers[v] = 0
    BY <1>2
  <2> QED
    BY <1>1, <1>2, <2>1, QuietFlood
<1> QED
  BY <1>3, <1>4, <1>5, <1>6, <1>7, <1>8 DEF IInv

LEMMA ReactionStep ==
  ASSUME IInv, NEW u \in setting.users, Reaction(u)
  PROVE  IInv'
<1>1. ClockOK /\ ReactionsOK /\ ReactedOK /\ WindowsFollow
  BY DEF IInv
<1>2. setting' = setting /\ ClockOK' /\ now' = now + 1 /\ now' \in Nat
  BY <1>1, UpdateFacts DEF Reaction
<1>3. u \in Users
  BY <1>1, DetectorAssumption DEF ClockOK
<1>4. PICK t \in Nat : now' = t /\ t = now + 1
  BY <1>2
<1>5. PICK c : c = Counted(u, t)
  OBVIOUS
<1>6. PICK r : r = [user |-> u, at |-> t, first |-> c.first,
                    spam |-> c.count >= setting.reactions]
  OBVIOUS
<1>7. TakesIn(u, c)
  BY <1>4, <1>5 DEF Reaction, RecordReaction, TakesIn
<1>8. reacted' = reacted \cup {r}
  BY <1>4, <1>5, <1>6 DEF Reaction
<1>9. UNCHANGED <<messages, chat, last, memory>>
  BY DEF Reaction
<1>10. ReactionsOK' /\ ReactedOK'
  BY <1>1, <1>2, <1>3, <1>4, <1>5, <1>6, <1>7, <1>8, ReactionCounts
<1>11. WindowsFollow'
  BY <1>1, <1>2, <1>3, <1>4, <1>5, <1>6, <1>7, <1>8, ReactionWindows
<1> QED
  BY <1>2, <1>4, <1>9, <1>10, <1>11, QuietStep

LEMMA PauseStep ==
  ASSUME IInv, Pause
  PROVE  IInv'
<1>1. ClockOK /\ ReactionsOK /\ ReactedOK /\ WindowsFollow
  BY DEF IInv
<1>2. setting' = setting /\ ClockOK' /\ now' = now + 1 /\ now' \in Nat
  BY <1>1, UpdateFacts DEF Pause
<1>3. PICK t \in Nat : now' = t /\ t = now + 1
  BY <1>2
<1>4. /\ UNCHANGED <<reactions, reacted>>
      /\ UNCHANGED <<messages, chat, last, memory>>
  BY DEF Pause
<1>5. ReactionsOK' /\ ReactedOK' /\ WindowsFollow'
  BY <1>1, <1>2, <1>3, <1>4, QuietReactions
<1> QED
  BY <1>2, <1>3, <1>4, <1>5, QuietStep

LEMMA RestartStep ==
  ASSUME IInv, Restart
  PROVE  IInv'
<1>1. /\ ClockOK /\ CountsOK /\ ChatOK /\ RowsOK /\ RowsRemember
      /\ ReactionsOK /\ ReactedOK
      /\ ExtrasAreRepeats /\ OverruledByConsensus /\ FloodIsStopped
  BY DEF IInv
<1>2. /\ setting' = setting /\ ClockOK' /\ now' = now + 1 /\ now' \in Nat
      /\ "restart" \in setting.updates
  BY <1>1, UpdateFacts DEF Restart
<1>3. PICK t \in Nat : now' = t /\ t = now + 1
  BY <1>2
<1>4. /\ approvedUsers' = [v \in Users |-> IF approvedUsers[v] = 0 THEN 0
                                           ELSE setting.first + 1]
      /\ reactions' = {} /\ history' = [v \in Users |-> {}] /\ cached' = {}
      /\ UNCHANGED <<messages, chat, reacted, last>>
  BY DEF Restart
<1>5. setting.first \in Nat
  BY <1>1, DetectorAssumption DEF ClockOK
<1>6. IsFiniteSet({}) /\ Cardinality({}) = 0 /\ now \in Nat
      /\ {MaxEntries, MaxUsers} \subseteq Nat \ {0}
  BY <1>1, FS_EmptySet, DuplicatesAssumption DEF ClockOK
<1> HIDE DEF IInv
<1>7. CountsOK' /\ \A v \in Users : approvedUsers'[v] = 0 => approvedUsers[v] = 0
  BY <1>1, <1>4, <1>5 DEF CountsOK
<1>8. ChatOK' /\ RowsOK' /\ RowsRemember'
  BY <1>1, <1>2, <1>3, <1>4, RowsStay
<1>9. HistoryOK' /\ CacheOK' /\ Remembered'
  BY <1>2, <1>4, <1>6 DEF HistoryOK, CacheOK, Remembered
<1>10. ReactionsOK' /\ WindowsFollow'
  BY <1>2, <1>4, <1>6 DEF ReactionsOK, WindowsFollow, Unbroken
<1>11. ReactedOK'
  BY <1>1, <1>2, <1>4, <1>6 DEF ReactedOK, ReactionsOf
<1>12. ExtrasAreRepeats' /\ OverruledByConsensus'
  BY <1>1, <1>2, <1>4, QuietVerdict
<1>13. FloodIsStopped'
  BY <1>1, <1>2, <1>3, <1>4, <1>7, QuietFlood
<1> QED
  BY <1>2, <1>7, <1>8, <1>9, <1>10, <1>11, <1>12, <1>13 DEF IInv

LEMMA NewMessageStep ==
  ASSUME IInv, NEW u \in setting.users, NEW text \in setting.texts,
         NEW fails \in SUBSET setting.fails, NewMessage(u, text, fails)
  PROVE  IInv'
<1>1. ClockOK /\ ChatOK
  BY DEF IInv
<1>2. setting' = setting /\ ClockOK' /\ now' = now + 1 /\ now' \in Nat
  BY <1>1, UpdateFacts DEF NewMessage
<1>3. u \in Users /\ text \in Texts
  BY <1>1, DetectorAssumption DEF ClockOK
<1>4. PICK t \in Nat : now' = t /\ t = now + 1
  BY <1>2
<1>5. PICK p : p = [id |-> t, user |-> u, text |-> text, at |-> t,
                    touched |-> t, had |-> {text}, passed |-> ~last'.spam]
  OBVIOUS
<1>6. Process(u, text, t, fails) /\ chat' = chat \cup {p}
  BY <1>4, <1>5 DEF NewMessage
<1>7. PostedAs(u, text, t, t, p)
  BY <1>1, <1>3, <1>4, <1>5, <1>6, NewIsPosted
<1>8. t \in 1 .. t
  BY <1>1, <1>4 DEF ClockOK
<1> QED
  BY <1>2, <1>3, <1>4, <1>6, <1>7, <1>8, PostedStep

LEMMA EditedMessageStep ==
  ASSUME IInv, NEW old \in chat, NEW text \in setting.texts,
         NEW fails \in SUBSET setting.fails, EditedMessage(old, text, fails)
  PROVE  IInv'
<1>1. ClockOK /\ ChatOK
  BY DEF IInv
<1>2. setting' = setting /\ ClockOK' /\ now' = now + 1 /\ now' \in Nat
  BY <1>1, UpdateFacts DEF EditedMessage
<1>3. old.user \in Users /\ text \in Texts /\ old.id \in Nat
  BY <1>1, DetectorAssumption DEF ClockOK, ChatOK, Post
<1>4. PICK t \in Nat : now' = t /\ t = now + 1
  BY <1>2
<1>5. PICK p : p = [old EXCEPT !.text = text,
                               !.at = IF text = old.text THEN old.at ELSE t,
                               !.touched = t, !.had = @ \cup {text},
                               !.passed = ~last'.spam]
  OBVIOUS
<1>6. Process(old.user, text, old.id, fails) /\ chat' = (chat \ {old}) \cup {p}
  BY <1>4, <1>5 DEF EditedMessage
<1>7. PostedAs(old.user, text, old.id, t, p)
  BY <1>1, <1>3, <1>4, <1>5, <1>6, EditIsPosted
<1>8. old.id \in 1 .. t
  BY <1>1, <1>4 DEF ClockOK, ChatOK
<1> QED
  BY <1>2, <1>3, <1>4, <1>6, <1>7, <1>8, PostedStep

(* The invariant is inductive: it holds at the start, and every update of  *)
(* the chat, request and restart keeps it.                                 *)
THEOREM Inductive == Spec => []IInv
<1>1. IInv /\ [Next]_vars => IInv'
  <2> SUFFICES ASSUME IInv, [Next]_vars PROVE IInv'
    OBVIOUS
  <2>1. CASE UNCHANGED vars
    <3>1. UNCHANGED <<setting, now, messages, approvedUsers, chat, reacted,
                      last, history, cached, reactions>>
      BY <2>1 DEF vars
    <3>2. ClockOK' /\ CountsOK' /\ ChatOK' /\ RowsOK' /\ RowsRemember'
      BY <3>1 DEF IInv, ClockOK, CountsOK, ChatOK, RowsOK, RowsRemember
    <3>3. HistoryOK' /\ CacheOK' /\ Remembered'
      BY <3>1 DEF IInv, HistoryOK, Seen, CacheOK, Remembered, OwnSince, OthersSince
    <3>4. ReactionsOK' /\ ReactedOK' /\ WindowsFollow'
      BY <3>1 DEF IInv, ReactionsOK, ReactedOK, WindowsFollow, Unbroken,
         ReactionsOf, ReactionsSince
    <3>5. ExtrasAreRepeats' /\ OverruledByConsensus'
      BY <3>1, QuietVerdict DEF IInv
    <3>6. FloodIsStopped'
      BY <3>1 DEF IInv, FloodIsStopped, FirstMessageOnly
    <3> QED
      BY <3>2, <3>3, <3>4, <3>5, <3>6 DEF IInv
  <2>2. ASSUME NEW u \in setting.users, NEW text \in setting.texts,
               NEW fails \in SUBSET setting.fails, NewMessage(u, text, fails)
        PROVE  IInv'
    BY <2>2, NewMessageStep
  <2>3. ASSUME NEW p \in chat, NEW text \in setting.texts,
               NEW fails \in SUBSET setting.fails, EditedMessage(p, text, fails)
        PROVE  IInv'
    BY <2>3, EditedMessageStep
  <2>4. ASSUME NEW u \in setting.users, NEW text \in setting.texts,
               CheckRequest(u, text)
        PROVE  IInv'
    BY <2>4, RequestStep
  <2>5. ASSUME NEW u \in setting.users, Reaction(u) PROVE IInv'
    BY <2>5, ReactionStep
  <2>6. CASE Pause
    BY <2>6, PauseStep
  <2>7. CASE Restart
    BY <2>7, RestartStep
  <2> QED
    BY <2>1, <2>2, <2>3, <2>4, <2>5, <2>6, <2>7 DEF Next
<1> QED
  BY <1>1, InitHolds, PTL DEF Spec

(* Every variable has its type, and the caches stay within their limits:   *)
(* 10000 members, and 200 messages of each.                                *)
THEOREM TypeCorrect == Spec => []TypeOK
<1>1. IInv => TypeOK
  <2> SUFFICES ASSUME IInv PROVE TypeOK
    OBVIOUS
  <2>0. /\ ClockOK /\ CountsOK /\ ChatOK /\ RowsOK /\ HistoryOK /\ CacheOK
        /\ ReactionsOK
    BY DEF IInv
  <2>1. now \in Nat /\ MaxTime \in Nat /\ now <= MaxTime
    BY <2>0, DetectorAssumption DEF ClockOK
  <2>2. \A n \in 1 .. now : n \in 1 .. MaxTime
    BY <2>1
  <2>3. chat \in SUBSET [id : 1 .. MaxTime, user : Users, text : Texts,
                         at : 1 .. MaxTime, touched : 1 .. MaxTime,
                         had : SUBSET Texts, passed : BOOLEAN]
    <3> SUFFICES ASSUME NEW p \in chat
                 PROVE  p \in [id : 1 .. MaxTime, user : Users, text : Texts,
                               at : 1 .. MaxTime, touched : 1 .. MaxTime,
                               had : SUBSET Texts, passed : BOOLEAN]
      OBVIOUS
    <3>1. p \in Post /\ p.id \in 1 .. now /\ p.touched \in 1 .. now
          /\ p.at \in 1 .. p.touched
      BY <2>0 DEF ChatOK
    <3>2. p.id \in 1 .. MaxTime /\ p.touched \in 1 .. MaxTime
          /\ p.at \in 1 .. MaxTime
      BY <2>1, <3>1
    <3> QED
      BY <3>1, <3>2 DEF Post
  <2>4. messages \in SUBSET [text : Texts, user : Users, named : BOOLEAN,
                             at : 1 .. MaxTime, id : 1 .. MaxTime]
    <3> SUFFICES ASSUME NEW r \in messages
                 PROVE  r \in [text : Texts, user : Users, named : BOOLEAN,
                               at : 1 .. MaxTime, id : 1 .. MaxTime]
      OBVIOUS
    <3>1. r \in Row /\ r.at \in 1 .. now /\ r.id \in 1 .. now
      BY <2>0 DEF RowsOK, ChatOK
    <3> QED
      BY <2>2, <3>1 DEF Row
  <2>5. history \in [Users -> SUBSET [text : Texts, id : 0 .. MaxTime,
                                      at : 1 .. MaxTime]]
    <3> SUFFICES ASSUME NEW v \in Users, NEW e \in history[v]
                 PROVE  e \in [text : Texts, id : 0 .. MaxTime, at : 1 .. MaxTime]
      BY <2>0 DEF HistoryOK
    <3>1. e \in Entry /\ e.at \in 1 .. now /\ (e.id > 0 => Seen(e, v))
      BY <2>0 DEF HistoryOK
    <3>2. e.id \in 0 .. MaxTime
      <4>1. CASE e.id = 0
        BY <2>1, <4>1
      <4>2. CASE e.id # 0
        <5>1. e.id > 0
          BY <3>1, <4>2 DEF Entry
        <5>2. PICK p \in chat : p.id = e.id
          BY <3>1, <5>1 DEF Seen
        <5> QED
          BY <2>0, <2>1, <5>2 DEF ChatOK
      <4> QED
        BY <4>1, <4>2
    <3> QED
      BY <2>2, <3>1, <3>2 DEF Entry
  <2>6. cached \in SUBSET [user : Users, at : 1 .. MaxTime]
    BY <2>0, <2>2 DEF CacheOK
  <2>7. reactions \in SUBSET [user : Users, count : 1 .. MaxTime,
                              first : 1 .. MaxTime, at : 1 .. MaxTime]
    <3> SUFFICES ASSUME NEW e \in reactions
                 PROVE  e \in [user : Users, count : 1 .. MaxTime,
                               first : 1 .. MaxTime, at : 1 .. MaxTime]
      OBVIOUS
    <3>1. /\ e \in CountEntry /\ e.first \in 1 .. e.at /\ e.at \in 1 .. now
          /\ e.count \in 1 .. e.at
      BY <2>0 DEF ReactionsOK
    <3>2. e.first \in 1 .. MaxTime /\ e.at \in 1 .. MaxTime
          /\ e.count \in 1 .. MaxTime
      BY <2>1, <3>1
    <3> QED
      BY <3>1, <3>2 DEF CountEntry
  <2>8. \A v \in Users : /\ Cardinality(history[v]) <= MaxEntries
                         /\ history[v] # {} => \E c \in cached : c.user = v
    BY <2>0 DEF HistoryOK
  <2>9. Cardinality(cached) <= MaxUsers /\ Cardinality(reactions) <= MaxUsers
    BY <2>0 DEF CacheOK, ReactionsOK
  <2>10. setting \in Settings /\ now \in 0 .. MaxTime
         /\ approvedUsers \in [Users -> Nat]
    BY <2>0 DEF ClockOK, CountsOK
  <2> QED
    BY <2>3, <2>4, <2>5, <2>6, <2>7, <2>8, <2>9, <2>10 DEF TypeOK
<1> QED
  BY <1>1, Inductive, PTL

(* The duplicate detector has the messages as they are now, each once,     *)
(* through any order of edits and requests, and forgets none within the    *)
(* window unless its caches are full or the bot restarts.                  *)
THEOREM WindowExact == Spec => []DuplicatesAreExact
<1>1. IInv => DuplicatesAreExact
  <2> SUFFICES ASSUME IInv PROVE DuplicatesAreExact
    OBVIOUS
  <2>1. HistoryOK /\ Remembered
    BY DEF IInv
  <2>2. DuplicatesAreCurrent
    BY <2>1 DEF HistoryOK, Seen, DuplicatesAreCurrent
  <2>3. DuplicatesAreRemembered
    BY <2>1 DEF Remembered, OwnSince, OthersSince, DuplicatesAreRemembered
  <2> QED
    BY <2>2, <2>3 DEF DuplicatesAreExact
<1> QED
  BY <1>1, Inductive, PTL

(* What goes with a message that was found spam are repeats of it by the   *)
(* same member, or messages of its flood.                                  *)
THEOREM ExtrasRepeated == Spec => []ExtrasAreRepeats
<1>1. IInv => ExtrasAreRepeats
  BY DEF IInv
<1> QED
  BY <1>1, Inductive, PTL

(* No unknown member gets a flood of short messages through.               *)
THEOREM FloodStopped == Spec => []FloodIsStopped
<1>1. IInv => FloodIsStopped
  BY DEF IInv
<1> QED
  BY <1>1, Inductive, PTL

(* The language models overrule the checks by the consensus configured.    *)
THEOREM ConsensusHolds == Spec => []OverruledByConsensus
<1>1. IInv => OverruledByConsensus
  BY DEF IInv
<1> QED
  BY <1>1, Inductive, PTL

(* Reactions within the window, and no fewer, get a member stopped; nearly *)
(* twice as many always do.                                                *)
THEOREM BurstsSeen == Spec => []BurstsAreNoticed
<1>1. IInv => BurstsAreNoticed
  BY BurstsNoticed DEF IInv
<1> QED
  BY <1>1, Inductive, PTL

=============================================================================
