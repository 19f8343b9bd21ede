--------------------------- MODULE SamplesProofs ---------------------------
(***************************************************************************)
(* Proofs about Samples, for any samples, words, jobs and failures: no     *)
(* count goes below zero, what is stored is known, and a reload that       *)
(* nothing came into is exact.                                             *)
(***************************************************************************)
EXTENDS Samples, FiniteSetTheorems, SequenceTheorems, TLAPS

-----------------------------------------------------------------------------
(* Counting: the samples with a word, each as often as it was learned.     *)

Copies(times, t) ==
  {c \in Messages \X (Nat \ {0}) : t \in Has[c[1]] /\ c[2] <= times[c[1]]}

LEMMA CopiesFinite ==
  ASSUME NEW times \in [Messages -> Nat], NEW t
  PROVE  IsFiniteSet(Copies(times, t))
<1> DEFINE Of == [m \in Messages |-> {m} \X (1 .. times[m])]
           All == {Of[m] : m \in Messages}
<1>1. IsFiniteSet(Messages)
  BY SamplesAssumption
<1>2. \A m \in Messages : IsFiniteSet(Of[m])
  <2>1. ASSUME NEW m \in Messages PROVE IsFiniteSet({m} \X (1 .. times[m]))
    <3>1. IsFiniteSet({m})
      BY FS_Singleton
    <3>2. IsFiniteSet(1 .. times[m])
      BY FS_Interval
    <3> QED
      BY <3>1, <3>2, FS_Product
  <2> QED
    BY <2>1
<1>3. Of \in Surjection(Messages, All)
  BY DEF Surjection
<1>4. IsFiniteSet(All)
  <2> HIDE DEF Of, All
  <2> QED
    BY <1>1, <1>3, FS_Surjection
<1>5. IsFiniteSet(UNION All)
  <2>1. \A T \in All : IsFiniteSet(T)
    BY <1>2
  <2> HIDE DEF All
  <2> QED
    BY <1>4, <2>1, FS_UNION
<1>6. Copies(times, t) \subseteq UNION All
  <2>1. ASSUME NEW c \in Copies(times, t) PROVE c \in UNION All
    <3>1. c[1] \in Messages /\ c = <<c[1], c[2]>> /\ c[2] \in 1 .. times[c[1]]
      BY DEF Copies
    <3>2. c \in Of[c[1]] /\ Of[c[1]] \in All
      BY <3>1
    <3> QED
      BY <3>2
  <2> QED
    BY <2>1
<1> HIDE DEF All
<1> QED
  BY <1>5, <1>6, FS_Subset

(* Learning a sample once more adds a copy for each of its words. *)
LEMMA CopyAdded ==
  ASSUME NEW times \in [Messages -> Nat], NEW m \in Messages, NEW t,
         NEW more, more = [times EXCEPT ![m] = @ + 1]
  PROVE  Cardinality(Copies(more, t))
           = Cardinality(Copies(times, t)) + One(t \in Has[m])
<1> DEFINE c == <<m, times[m] + 1>>
<1>1. more \in [Messages -> Nat]
  OBVIOUS
<1>2. c \notin Copies(times, t)
  BY DEF Copies
<1>3. CASE t \in Has[m]
  <2>1. Copies(more, t) = Copies(times, t) \cup {c}
    <3>1. ASSUME NEW d \in Messages \X (Nat \ {0})
          PROVE  d[2] <= more[d[1]] <=> d[2] <= times[d[1]] \/ d = c
      <4>1. CASE d[1] = m
        BY <4>1
      <4>2. CASE d[1] # m
        BY <4>2
      <4> QED
        BY <4>1, <4>2
    <3>2. c \in Messages \X (Nat \ {0}) /\ c[1] = m
      OBVIOUS
    <3> HIDE DEF c
    <3> QED
      BY <1>3, <3>1, <3>2 DEF Copies
  <2>2. One(t \in Has[m]) = 1
    BY <1>3 DEF One
  <2> HIDE DEF c
  <2> QED
    BY <1>2, <2>1, <2>2, CopiesFinite, FS_AddElement
<1>4. CASE t \notin Has[m]
  <2>1. Copies(more, t) = Copies(times, t)
    <3>1. ASSUME NEW d \in Messages \X (Nat \ {0}), t \in Has[d[1]]
          PROVE  more[d[1]] = times[d[1]]
      BY <1>4, <3>1
    <3> QED
      BY <3>1 DEF Copies
  <2>2. One(t \in Has[m]) = 0
    BY <1>4 DEF One
  <2>3. Cardinality(Copies(times, t)) \in Nat
    BY CopiesFinite, FS_CardinalityType
  <2> QED
    BY <2>1, <2>2, <2>3
<1> QED
  BY <1>3, <1>4

(* Unlearning it takes a copy away for each of its words. *)
LEMMA CopyTaken ==
  ASSUME NEW times \in [Messages -> Nat], NEW m \in Messages, NEW t,
         times[m] > 0, NEW less, less = [times EXCEPT ![m] = @ - 1]
  PROVE  Cardinality(Copies(less, t))
           = Cardinality(Copies(times, t)) - One(t \in Has[m])
<1>1. less \in [Messages -> Nat]
  OBVIOUS
<1>2. times = [less EXCEPT ![m] = @ + 1]
  <2> DEFINE back == [less EXCEPT ![m] = @ + 1]
  <2>1. back \in [Messages -> Nat]
    BY <1>1
  <2>2. \A n \in Messages : back[n] = times[n]
    BY <1>1
  <2> HIDE DEF back
  <2>3. times = [n \in Messages |-> times[n]] /\ back = [n \in Messages |-> back[n]]
    BY <2>1
  <2>4. times = back
    BY <2>2, <2>3, Zenon
  <2> QED
    BY <2>4 DEF back
<1>3. Cardinality(Copies(times, t))
        = Cardinality(Copies(less, t)) + One(t \in Has[m])
  BY <1>1, <1>2, CopyAdded
<1>4. Cardinality(Copies(less, t)) \in Nat
  BY <1>1, CopiesFinite, FS_CardinalityType
<1> QED
  BY <1>3, <1>4 DEF One

(* What the four readers returned. *)
Reads == [1 .. 4 -> SUBSET Messages]

LEMMA DocumentsFinite ==
  ASSUME NEW read, NEW ty
  PROVE  /\ IsFiniteSet(Documents(read, ty))
         /\ \A S \in SUBSET Documents(read, ty) :
              IsFiniteSet(S) /\ Cardinality(S) \in Nat
<1>1. IsFiniteSet(1 .. 4)
  <2>1. 1 \in Int /\ 4 \in Int
    OBVIOUS
  <2> QED
    BY <2>1, FS_Interval, Zenon
<1>2. IsFiniteSet(Messages)
  BY SamplesAssumption
<1>3. IsFiniteSet((1 .. 4) \X Messages)
  BY <1>1, <1>2, FS_Product
<1>4. Documents(read, ty) \subseteq (1 .. 4) \X Messages
  BY DEF Documents
<1>5. IsFiniteSet(Documents(read, ty))
  BY <1>3, <1>4, FS_Subset
<1> QED
  BY <1>5, FS_Subset, FS_CardinalityType

(* After a reload every copy of a sample is of a document of its own. *)
LEMMA CopiesLoaded ==
  ASSUME NEW read, NEW ty \in Types, NEW t \in Tokens
  PROVE  Cardinality(Copies(Times(read)[ty], t)) <= Trained(read).tok[ty][t]
<1> DEFINE Docs == Documents(read, ty)
           Of(m) == {x \in Docs : x[2] = m}
           With == {x \in Docs : t \in Has[x[2]]}
           C == Copies(Times(read)[ty], t)
           F == [m \in Messages |->
                   CHOOSE f : f \in Bijection(1 .. Cardinality(Of(m)), Of(m))]
           G == [c \in C |-> F[c[1]][c[2]]]
<1>1. \A m \in Messages : Times(read)[ty][m] = Cardinality(Of(m))
  BY DEF Times
<1>2. \A m \in Messages : F[m] \in Bijection(1 .. Cardinality(Of(m)), Of(m))
  <2>1. ASSUME NEW m \in Messages
        PROVE  ExistsBijection(1 .. Cardinality(Of(m)), Of(m))
    <3>1. IsFiniteSet(Of(m))
      BY DocumentsFinite
    <3> HIDE DEF Of
    <3> QED
      BY <3>1, FS_CardinalityType
  <2> QED
    BY <2>1 DEF ExistsBijection
<1>3. ASSUME NEW c \in C
      PROVE  /\ c[1] \in Messages /\ c = <<c[1], c[2]>> /\ t \in Has[c[1]]
             /\ c[2] \in 1 .. Cardinality(Of(c[1]))
  <2>1. /\ c[1] \in Messages /\ c = <<c[1], c[2]>> /\ t \in Has[c[1]]
        /\ c[2] \in Nat \ {0} /\ c[2] <= Times(read)[ty][c[1]]
    BY DEF Copies
  <2>2. Cardinality(Of(c[1])) \in Nat
    BY DocumentsFinite
  <2> QED
    BY <2>1, <2>2, <1>1
<1>4. ASSUME NEW c \in C
      PROVE  G[c] = F[c[1]][c[2]] /\ G[c] \in Of(c[1]) /\ G[c][2] = c[1]
  <2> HIDE DEF C, F, Of
  <2>1. G[c] = F[c[1]][c[2]] /\ G[c] \in Of(c[1])
    BY <1>2, <1>3 DEF Bijection, Injection
  <2> HIDE DEF G
  <2> USE DEF Of
  <2>2. G[c][2] = c[1]
    BY <2>1
  <2> QED
    BY <2>1, <2>2
<1>5. G \in [C -> With]
  <2>1. \A c \in C : G[c] \in With
    BY <1>3, <1>4
  <2> HIDE DEF C, F, With
  <2> QED
    BY <2>1
<1>6. ASSUME NEW c \in C, NEW d \in C, G[c] = G[d]
      PROVE  c = d
  <2>1. c[1] = d[1]
    <3> HIDE DEF C, F, G, Of
    <3> QED
      BY <1>4, <1>6
  <2> DEFINE f == F[c[1]]
             n == Cardinality(Of(c[1]))
  <2>2. f \in Bijection(1 .. n, Of(c[1])) /\ c[2] \in 1 .. n
    BY <1>2, <1>3
  <2>3. d[2] \in 1 .. n /\ f[c[2]] = f[d[2]]
    <3> HIDE DEF C, F, G, Of
    <3> QED
      BY <1>3, <1>4, <1>6, <2>1
  <2> HIDE DEF f, n, Of
  <2>4. c[2] = d[2]
    BY <2>2, <2>3 DEF Bijection, Injection, IsInjective
  <2> QED
    BY <1>3, <2>1, <2>4
<1>7. G \in Injection(C, With)
  <2> HIDE DEF G, C, With
  <2> QED
    BY <1>5, <1>6 DEF Injection, IsInjective
<1>8. Cardinality(C) <= Cardinality(With)
  <2>1. IsFiniteSet(With)
    BY DocumentsFinite
  <2> HIDE DEF G, C, With
  <2> QED
    BY <1>7, <2>1, FS_Injection
<1>9. Trained(read).tok[ty][t] = Cardinality(With)
  BY DEF Trained
<1> QED
  BY <1>8, <1>9

-----------------------------------------------------------------------------
(* The types of what the operations return. *)

Counts == [all   : Nat,
           docs  : [Types -> Nat],
           words : [Types -> Nat],
           tok   : [Types -> [Tokens -> Nat]]]

LEMMA WordsFinite ==
  ASSUME NEW m \in Messages, NEW S \in SUBSET Has[m]
  PROVE  Cardinality(S) \in Nat
<1>1. Has[m] \subseteq Tokens /\ IsFiniteSet(Tokens)
  BY SamplesAssumption
<1>2. IsFiniteSet(S)
  BY <1>1, FS_Subset
<1> QED
  BY <1>2, FS_CardinalityType

LEMMA LearnTyped ==
  ASSUME NEW c \in Counts, NEW m \in Messages, NEW ty \in Types
  PROVE  /\ Learn(c, m, ty) \in Counts
         /\ \A u \in Types, t \in Tokens :
              Learn(c, m, ty).tok[u][t]
                = c.tok[u][t] + IF u = ty THEN One(t \in Has[m]) ELSE 0
<1>1. Cardinality(Has[m]) \in Nat
  BY WordsFinite
<1>2. \A t \in Tokens : One(t \in Has[m]) \in Nat
  BY DEF One
<1>3. [c.docs EXCEPT ![ty] = @ + 1] \in [Types -> Nat]
  BY DEF Counts
<1>4. [c.words EXCEPT ![ty] = @ + Cardinality(Has[m])] \in [Types -> Nat]
  BY <1>1 DEF Counts
<1> DEFINE row == [t \in Tokens |-> c.tok[ty][t] + One(t \in Has[m])]
<1>5. row \in [Tokens -> Nat]
  BY <1>2 DEF Counts
<1>6. Learn(c, m, ty).tok = [c.tok EXCEPT ![ty] = row]
  BY DEF Learn
<1>7. \A u \in Types : Learn(c, m, ty).tok[u] = IF u = ty THEN row ELSE c.tok[u]
  BY <1>6 DEF Counts
<1>8. Learn(c, m, ty) \in Counts
  <2> HIDE DEF row
  <2>1. [c.tok EXCEPT ![ty] = row] \in [Types -> [Tokens -> Nat]]
    BY <1>5 DEF Counts
  <2>2. c.all + 1 \in Nat
    BY DEF Counts
  <2> QED
    BY <1>3, <1>4, <1>6, <2>1, <2>2 DEF Learn, Counts
<1>9. \A u \in Types, t \in Tokens :
         Learn(c, m, ty).tok[u][t]
           = c.tok[u][t] + IF u = ty THEN One(t \in Has[m]) ELSE 0
  <2>1. ASSUME NEW u \in Types, NEW t \in Tokens
        PROVE  c.tok[u][t] \in Nat /\ row[t] = c.tok[ty][t] + One(t \in Has[m])
    BY DEF Counts
  <2> HIDE DEF row
  <2> QED
    BY <1>7, <2>1
<1> QED
  BY <1>8, <1>9

LEMMA TakeAwayTyped ==
  ASSUME NEW c \in Counts, NEW ty \in Types, NEW gone, NEW total \in Nat,
         c.all > 0, c.docs[ty] > 0,
         \A t \in Tokens : t \in gone => c.tok[ty][t] > 0
  PROVE  /\ TakeAway(c, ty, gone, total) \in Counts
         /\ \A u \in Types, t \in Tokens :
              TakeAway(c, ty, gone, total).tok[u][t]
                = c.tok[u][t] - IF u = ty THEN One(t \in gone) ELSE 0
<1> DEFINE d == TakeAway(c, ty, gone, total)
           row == [t \in Tokens |-> c.tok[ty][t] - One(t \in gone)]
<1>1. row \in [Tokens -> Nat]
  BY DEF Counts, One
<1>2. d.tok = [c.tok EXCEPT ![ty] = row]
  BY DEF TakeAway
<1>3. \A u \in Types : d.tok[u] = IF u = ty THEN row ELSE c.tok[u]
  BY <1>2 DEF Counts
<1>4. /\ c.all - 1 \in Nat
      /\ [c.docs EXCEPT ![ty] = @ - 1] \in [Types -> Nat]
      /\ [c.words EXCEPT ![ty] = total] \in [Types -> Nat]
  BY DEF Counts
<1>5. d \in Counts
  <2> HIDE DEF row
  <2>1. [c.tok EXCEPT ![ty] = row] \in [Types -> [Tokens -> Nat]]
    BY <1>1 DEF Counts
  <2> QED
    BY <1>2, <1>4, <2>1 DEF TakeAway, Counts
<1>6. \A u \in Types, t \in Tokens :
         d.tok[u][t] = c.tok[u][t] - IF u = ty THEN One(t \in gone) ELSE 0
  <2>1. ASSUME NEW u \in Types, NEW t \in Tokens
        PROVE  c.tok[u][t] \in Nat /\ row[t] = c.tok[ty][t] - One(t \in gone)
    BY DEF Counts
  <2> HIDE DEF row, d
  <2> QED
    BY <1>3, <2>1
<1> QED
  BY <1>5, <1>6

LEMMA LoadTyped ==
  ASSUME NEW read
  PROVE  /\ Trained(read) \in Counts
         /\ Times(read) \in [Types -> [Messages -> Nat]]
<1>1. \A ty : Cardinality(Documents(read, ty)) \in Nat
  BY DocumentsFinite
<1>2. \A ty \in Types, t \in Tokens :
         Cardinality({x \in Documents(read, ty) : t \in Has[x[2]]}) \in Nat
  BY DocumentsFinite
<1>3. \A ty \in Types, m \in Messages :
         Cardinality({x \in Documents(read, ty) : x[2] = m}) \in Nat
  BY DocumentsFinite
<1>4. ASSUME NEW ty \in Types
      PROVE  Cardinality({x \in Documents(read, ty) \X Tokens :
                            x[2] \in Has[x[1][2]]}) \in Nat
  <2> DEFINE S == {x \in Documents(read, ty) \X Tokens : x[2] \in Has[x[1][2]]}
  <2>1. IsFiniteSet(Documents(read, ty)) /\ IsFiniteSet(Tokens)
    BY DocumentsFinite, SamplesAssumption
  <2>2. IsFiniteSet(Documents(read, ty) \X Tokens)
    BY <2>1, FS_Product
  <2>3. S \subseteq Documents(read, ty) \X Tokens
    OBVIOUS
  <2> HIDE DEF S
  <2>4. IsFiniteSet(S)
    BY <2>2, <2>3, FS_Subset
  <2>5. Cardinality(S) \in Nat
    BY <2>4, FS_CardinalityType
  <2> QED
    BY <2>5 DEF S
<1>5. Times(read) \in [Types -> [Messages -> Nat]]
  BY <1>3 DEF Times
<1>6. /\ Trained(read).docs \in [Types -> Nat]
      /\ Trained(read).words \in [Types -> Nat]
      /\ Trained(read).all \in Nat
  BY <1>1, <1>4 DEF Trained
<1>7. Trained(read).tok \in [Types -> [Tokens -> Nat]]
  BY <1>2 DEF Trained
<1>8. Trained(read) = [all |-> Trained(read).all, docs |-> Trained(read).docs,
                       words |-> Trained(read).words, tok |-> Trained(read).tok]
  BY DEF Trained
<1>9. Trained(read) \in Counts
  <2> DEFINE c == Trained(read)
  <2> HIDE DEF c
  <2> QED
    BY <1>6, <1>7, <1>8 DEF Counts, c
<1> QED
  BY <1>5, <1>9

(* What unlearning leaves, when it goes through and when it gives up. *)
LEMMA UnlearntTyped ==
  ASSUME NEW c \in Counts, NEW m \in Messages, NEW ty \in Types,
         CanUnlearn(c, m, ty)
  PROVE  /\ Unlearnt(c, m, ty) \in Counts
         /\ \A u \in Types, t \in Tokens :
              Unlearnt(c, m, ty).tok[u][t]
                = c.tok[u][t] - IF u = ty THEN One(t \in Has[m]) ELSE 0
<1> DEFINE total == IF c.docs[ty] = 1 THEN 0 ELSE c.words[ty] - Cardinality(Has[m])
<1>1. Cardinality(Has[m]) \in Nat
  BY WordsFinite
<1>2. total \in Nat
  BY <1>1 DEF CanUnlearn, Counts
<1>3. /\ c.all > 0 /\ c.docs[ty] > 0
      /\ \A t \in Tokens : t \in Has[m] => c.tok[ty][t] > 0
  BY DEF CanUnlearn, Known
<1>4. Unlearnt(c, m, ty) = TakeAway(c, ty, Has[m], total)
  BY DEF Unlearnt
<1> HIDE DEF total
<1> QED
  BY <1>2, <1>3, <1>4, TakeAwayTyped

LEMMA GivenUpTyped ==
  ASSUME NEW c \in Counts, NEW m \in Messages, NEW ty \in Types,
         NEW d \in GivenUp(c, m, ty)
  PROVE  /\ d \in Counts
         /\ \A u \in Types, t \in Tokens :
              u # ty \/ t \notin Has[m] => d.tok[u][t] = c.tok[u][t]
<1>1. CASE c.all = 0
  BY <1>1 DEF GivenUp
<1>2. CASE c.all # 0 /\ c.docs[ty] = 0
  <2>1. d = [c EXCEPT !.all = @ - 1]
    BY <1>2 DEF GivenUp
  <2>2. c.all - 1 \in Nat
    BY <1>2 DEF Counts
  <2> QED
    BY <2>1, <2>2 DEF Counts
<1>3. CASE c.all # 0 /\ c.docs[ty] # 0
  <2>1. \E gone \in SUBSET Known(c, m, ty), total \in Nat :
           d = TakeAway(c, ty, gone, total)
    <3>1. CASE \E gone \in SUBSET Known(c, m, ty) : d = TakeAway(c, ty, gone, 0)
      BY <3>1
    <3>2. CASE \E gone \in SUBSET Known(c, m, ty) :
                 /\ Cardinality(gone) < c.words[ty]
                 /\ d = TakeAway(c, ty, gone, c.words[ty] - Cardinality(gone) - 1)
      <4>1. PICK gone \in SUBSET Known(c, m, ty) :
                 /\ Cardinality(gone) < c.words[ty]
                 /\ d = TakeAway(c, ty, gone, c.words[ty] - Cardinality(gone) - 1)
        BY <3>2
      <4>2. gone \in SUBSET Has[m]
        BY DEF Known
      <4>3. Cardinality(gone) \in Nat
        BY <4>2, WordsFinite
      <4>4. c.words[ty] - Cardinality(gone) - 1 \in Nat
        BY <4>1, <4>3 DEF Counts
      <4> QED
        BY <4>1, <4>4
    <3> QED
      BY <1>3, <3>1, <3>2 DEF GivenUp
  <2>2. PICK gone \in SUBSET Known(c, m, ty), total \in Nat :
           d = TakeAway(c, ty, gone, total)
    BY <2>1
  <2>3. /\ c.all > 0 /\ c.docs[ty] > 0
        /\ \A t \in Tokens : t \in gone => c.tok[ty][t] > 0 /\ t \in Has[m]
    BY <1>3 DEF Known, Counts
  <2>4. /\ d \in Counts
        /\ \A u \in Types, t \in Tokens :
             d.tok[u][t] = c.tok[u][t] - IF u = ty THEN One(t \in gone) ELSE 0
    BY <2>2, <2>3, TakeAwayTyped
  <2> QED
    BY <2>3, <2>4 DEF One, Counts
<1> QED
  BY <1>1, <1>2, <1>3

-----------------------------------------------------------------------------
(* The inductive invariant, in parts by what they are about.               *)

Updating == [op : {"update"}, msg : Messages, type : Types]

Taking == [op : {"remove"}, msg : Messages, type : Types, own : BOOLEAN]

Reloading == [op : {"reload"}, read : Seq(SUBSET Messages), late : SUBSET Messages]

Job == {Idle} \cup Updating \cup Taking \cup Reloading

(* What a reload has read is what is stored, but for what was written or   *)
(* deleted since it began.                                                 *)
ReadOK(tab, q) ==
  /\ Len(q.read) <= 4
  /\ \A i \in 1 .. Len(q.read), m \in Messages \ q.late :
       m \in q.read[i] <=> tab[m] = Row(Readers[i][1], Readers[i][2])

ReadsOK == \A j \in Jobs : jobs[j].op = "reload" => ReadOK(table, jobs[j])

(* Words that no removal took away count every copy of a sample. *)
WordsCounted ==
  \A ty \in Types, t \in Tokens : <<ty, t>> \notin damaged =>
    Cardinality(Copies(learned[ty], t)) <= cls.tok[ty][t]

ToLearn(q, m, ty) == q.op = "update" /\ q.msg = m /\ q.type = ty

ToDelete(q, m, ty) == q.op = "remove" /\ q.msg = m /\ q.type = ty /\ q.own

(* A stored sample is learned, or is about to be by the job that wrote it, *)
(* or was until the removal under way.                                     *)
RowsKnown ==
  \A ty \in Types, m \in Messages \ overtaken : table[m].type = ty =>
    /\ \/ learned[ty][m] > 0
       \/ \E j \in Jobs : ToLearn(jobs[j], m, ty) \/ ToDelete(jobs[j], m, ty)
    /\ ty = "spam" => m \in similar \/ \E j \in Jobs : ToLearn(jobs[j], m, ty)

IInv == TypeOK /\ ReadsOK /\ WordsCounted /\ RowsKnown

-----------------------------------------------------------------------------
(* Jobs. *)

LEMMA JobKinds ==
  ASSUME NEW q \in Job
  PROVE  /\ q.op = "idle" => q = Idle
         /\ q.op = "update" => q \in Updating
         /\ q.op = "remove" => q \in Taking
         /\ q.op = "reload" => q \in Reloading
         /\ q.op \in {"idle", "update", "remove", "reload"}
BY DEF Job, Idle, Updating, Taking, Reloading

LEMMA JobsTyped ==
  ASSUME TypeOK
  PROVE  jobs \in [Jobs -> Job] /\ \A j \in Jobs : jobs[j] \in Job
BY DEF TypeOK, Job, Updating, Taking, Reloading

LEMMA TypesAgain ==
  ASSUME table' \in [Messages -> [type : Types, origin : Origins] \cup {NoRow}],
         cls' \in Counts, similar' \in SUBSET Messages,
         jobs' \in [Jobs -> Job], learned' \in [Types -> [Messages -> Nat]],
         damaged' \in SUBSET (Types \X Tokens), overtaken' \in SUBSET Messages
  PROVE  TypeOK'
BY DEF TypeOK, Job, Updating, Taking, Reloading, Counts

LEMMA TypesNow ==
  ASSUME TypeOK
  PROVE  /\ table \in [Messages -> [type : Types, origin : Origins] \cup {NoRow}]
         /\ cls \in Counts /\ similar \in SUBSET Messages
         /\ jobs \in [Jobs -> Job] /\ learned \in [Types -> [Messages -> Nat]]
         /\ damaged \in SUBSET (Types \X Tokens)
         /\ overtaken \in SUBSET Messages
BY DEF TypeOK, Job, Updating, Taking, Reloading, Counts

LEMMA AskedAreMessages == \A m \in Asked : m \in Messages
BY SamplesAssumption

(* A job changes while the table does not. *)
LEMMA JobChanged ==
  ASSUME IInv, NEW j \in Jobs, NEW q \in Job, table' = table,
         jobs' = [jobs EXCEPT ![j] = q],
         q.op = "reload" => ReadOK(table, q)
  PROVE  /\ jobs' \in [Jobs -> Job] /\ ReadsOK'
         /\ \A k \in Jobs : jobs'[k] = IF k = j THEN q ELSE jobs[k]
<1>1. jobs' \in [Jobs -> Job]
  BY JobsTyped DEF IInv
<1>2. \A k \in Jobs : jobs'[k] = IF k = j THEN q ELSE jobs[k]
  BY JobsTyped DEF IInv
<1>3. ASSUME NEW k \in Jobs, jobs'[k].op = "reload"
      PROVE  ReadOK(table', jobs'[k])
  BY <1>2, <1>3 DEF IInv, ReadsOK
<1> QED
  BY <1>1, <1>2, <1>3 DEF ReadsOK

(* A row changes, and the reloads under way learn of it. *)
LEMMA RowChanged ==
  ASSUME IInv, NEW j \in Jobs, NEW q \in Job, NEW m \in Messages,
         NEW row \in [type : Types, origin : Origins] \cup {NoRow},
         table' = [table EXCEPT ![m] = row],
         jobs' = [Overtaking(m) EXCEPT ![j] = q], q.op # "reload"
  PROVE  /\ table' \in [Messages -> [type : Types, origin : Origins] \cup {NoRow}]
         /\ \A n \in Messages : table'[n] = IF n = m THEN row ELSE table[n]
         /\ jobs' \in [Jobs -> Job] /\ ReadsOK' /\ jobs'[j] = q
         /\ \A k \in Jobs \ {j} :
              jobs[k].op # "reload" => jobs'[k] = jobs[k]
<1>1. table \in [Messages -> [type : Types, origin : Origins] \cup {NoRow}]
  BY DEF IInv, TypeOK
<1>2. /\ table' \in [Messages -> [type : Types, origin : Origins] \cup {NoRow}]
      /\ \A n \in Messages : table'[n] = IF n = m THEN row ELSE table[n]
  BY <1>1
<1>3. \A k \in Jobs : jobs'[k] = IF k = j THEN q
                                 ELSE IF jobs[k].op = "reload"
                                 THEN [jobs[k] EXCEPT !.late = @ \cup {m}]
                                 ELSE jobs[k]
  BY DEF Overtaking
<1>4. ASSUME NEW k \in Jobs \ {j}, jobs[k].op = "reload"
      PROVE  /\ jobs'[k] \in Reloading /\ jobs'[k].read = jobs[k].read
             /\ jobs'[k].late = jobs[k].late \cup {m}
  <2>1. jobs[k] \in Reloading
    BY <1>4, JobsTyped, JobKinds DEF IInv
  <2>2. jobs'[k] = [jobs[k] EXCEPT !.late = @ \cup {m}]
    BY <1>3, <1>4
  <2> QED
    BY <2>1, <2>2 DEF Reloading
<1>5. \A k \in Jobs : jobs'[k] \in Job
  BY <1>3, <1>4, JobsTyped DEF IInv, Job
<1>6. jobs' \in [Jobs -> Job]
  <2>1. jobs' = [k \in Jobs |-> jobs'[k]]
    BY DEF Overtaking
  <2> QED
    BY <1>5, <2>1
<1>7. ASSUME NEW k \in Jobs, jobs'[k].op = "reload"
      PROVE  ReadOK(table', jobs'[k])
  <2>1. k # j /\ jobs[k].op = "reload"
    BY <1>3, <1>7
  <2>2. ReadOK(table, jobs[k])
    BY <2>1 DEF IInv, ReadsOK
  <2>3. /\ jobs'[k].read = jobs[k].read
        /\ jobs'[k].late = jobs[k].late \cup {m}
    BY <1>4, <2>1
  <2>4. \A n \in Messages \ jobs'[k].late :
          n \in Messages \ jobs[k].late /\ table'[n] = table[n]
    BY <1>2, <2>3
  <2> QED
    BY <2>2, <2>3, <2>4 DEF ReadOK
<1> QED
  BY <1>2, <1>3, <1>6, <1>7 DEF ReadsOK

-----------------------------------------------------------------------------
(* Counting and knowing, along a step. *)

LEMMA CountsKept ==
  ASSUME IInv, UNCHANGED <<cls, learned, damaged>>
  PROVE  WordsCounted'
BY DEF IInv, WordsCounted

(* The known counts go up with what is learned. *)
LEMMA CountsLearned ==
  ASSUME IInv, NEW m \in Messages, NEW ty \in Types, cls' = Learn(cls, m, ty),
         \/ learned' = learned
         \/ learned' = [learned EXCEPT ![ty][m] = @ + 1],
         damaged' = damaged
  PROVE  /\ cls' \in Counts /\ learned' \in [Types -> [Messages -> Nat]]
         /\ WordsCounted'
<1>1. cls \in Counts /\ learned \in [Types -> [Messages -> Nat]]
  BY TypesNow DEF IInv
<1>2. /\ cls' \in Counts
      /\ \A u \in Types, t \in Tokens :
           cls'.tok[u][t] = cls.tok[u][t] + IF u = ty THEN One(t \in Has[m]) ELSE 0
  BY <1>1, LearnTyped
<1>3. /\ learned' \in [Types -> [Messages -> Nat]]
      /\ \A u \in Types : \/ learned'[u] = learned[u]
                          \/ u = ty /\ learned'[u] = [learned[u] EXCEPT ![m] = @ + 1]
  BY <1>1
<1>4. ASSUME NEW u \in Types, NEW t \in Tokens, <<u, t>> \notin damaged'
      PROVE  Cardinality(Copies(learned'[u], t)) <= cls'.tok[u][t]
  <2> DEFINE before == Cardinality(Copies(learned[u], t))
             after == Cardinality(Copies(learned'[u], t))
  <2>1. before \in Nat /\ after \in Nat
    BY <1>1, <1>3, CopiesFinite, FS_CardinalityType
  <2>2. cls.tok[u][t] \in Nat
    BY <1>1 DEF Counts
  <2>3. before <= cls.tok[u][t]
    BY <1>4 DEF IInv, WordsCounted
  <2>4. One(t \in Has[m]) \in {0, 1}
    BY DEF One
  <2>5. CASE learned'[u] = learned[u]
    <3> HIDE DEF before, after
    <3>1. after = before
      BY <2>5 DEF before, after
    <3> QED
      BY <1>2, <2>1, <2>2, <2>3, <2>4, <3>1 DEF before, after
  <2>6. CASE u = ty /\ learned'[u] = [learned[u] EXCEPT ![m] = @ + 1]
    <3>1. learned[u] \in [Messages -> Nat]
      BY <1>1
    <3>2. after = before + One(t \in Has[m])
      BY <2>6, <3>1, CopyAdded
    <3> HIDE DEF before, after
    <3>3. cls'.tok[u][t] = cls.tok[u][t] + One(t \in Has[m])
      BY <1>2, <2>6
    <3>4. after <= cls'.tok[u][t]
      BY <2>1, <2>2, <2>3, <2>4, <3>2, <3>3
    <3> QED
      BY <3>4 DEF after
  <2> QED
    BY <1>3, <2>5, <2>6
<1> QED
  BY <1>2, <1>3, <1>4 DEF WordsCounted

(* A removal takes the words of the sample once, which is what it was      *)
(* learned, or else these words are damaged from then on.                  *)
LEMMA CountsUnlearnt ==
  ASSUME IInv, NEW m \in Messages, NEW ty \in Types,
         cls' \in Counts,
         \A u \in Types, t \in Tokens :
           u # ty \/ t \notin Has[m] => cls'.tok[u][t] = cls.tok[u][t],
         \/ /\ learned' = [learned EXCEPT ![ty][m] = 0]
            /\ learned[ty][m] = 0
            /\ damaged' = damaged \cup Words(m, ty)
         \/ /\ learned' = learned
            /\ damaged' = damaged \cup Words(m, ty)
         \/ /\ learned' = [learned EXCEPT ![ty][m] = @ - 1]
            /\ learned[ty][m] > 0
            /\ damaged' = damaged
            /\ \A u \in Types, t \in Tokens :
                 cls'.tok[u][t]
                   = cls.tok[u][t] - IF u = ty THEN One(t \in Has[m]) ELSE 0
  PROVE  /\ learned' \in [Types -> [Messages -> Nat]]
         /\ damaged' \in SUBSET (Types \X Tokens)
         /\ WordsCounted'
<1>1. /\ cls \in Counts /\ learned \in [Types -> [Messages -> Nat]]
      /\ damaged \in SUBSET (Types \X Tokens)
  BY TypesNow DEF IInv
<1>2. Has[m] \subseteq Tokens
  BY SamplesAssumption
<1>3. /\ damaged' \in SUBSET (Types \X Tokens) /\ damaged \subseteq damaged'
  BY <1>1, <1>2 DEF Words
<1>4. CASE learned' = learned /\ damaged' = damaged \cup Words(m, ty)
  <2>1. ASSUME NEW u \in Types, NEW t \in Tokens, <<u, t>> \notin damaged'
        PROVE  cls'.tok[u][t] = cls.tok[u][t] /\ <<u, t>> \notin damaged
    BY <1>4, <2>1 DEF Words
  <2>2. WordsCounted'
    BY <1>4, <2>1 DEF IInv, WordsCounted
  <2> QED
    BY <1>1, <1>3, <1>4, <2>2
<1>5. CASE /\ learned' = [learned EXCEPT ![ty][m] = 0]
           /\ learned[ty][m] = 0
           /\ damaged' = damaged \cup Words(m, ty)
  <2>1. learned' = learned
    BY <1>1, <1>5
  <2> QED
    BY <1>4, <1>5, <2>1
<1>6. CASE /\ learned' = [learned EXCEPT ![ty][m] = @ - 1]
           /\ learned[ty][m] > 0
           /\ damaged' = damaged
           /\ \A u \in Types, t \in Tokens :
                cls'.tok[u][t]
                  = cls.tok[u][t] - IF u = ty THEN One(t \in Has[m]) ELSE 0
  <2>1. /\ learned' \in [Types -> [Messages -> Nat]]
        /\ \A u \in Types : u # ty => learned'[u] = learned[u]
        /\ learned'[ty] = [learned[ty] EXCEPT ![m] = @ - 1]
    BY <1>1, <1>6
  <2>2. ASSUME NEW u \in Types, NEW t \in Tokens, <<u, t>> \notin damaged'
        PROVE  Cardinality(Copies(learned'[u], t)) <= cls'.tok[u][t]
    <3> DEFINE before == Cardinality(Copies(learned[u], t))
               after == Cardinality(Copies(learned'[u], t))
    <3>1. before \in Nat /\ after \in Nat
      BY <1>1, <2>1, CopiesFinite, FS_CardinalityType
    <3>2. cls.tok[u][t] \in Nat
      BY <1>1 DEF Counts
    <3>3. before <= cls.tok[u][t]
      BY <1>6, <2>2 DEF IInv, WordsCounted
    <3>4. CASE u # ty
      <4>1. learned'[u] = learned[u]
        BY <2>1, <3>4
      <4>2. after = before
        BY <4>1
      <4> HIDE DEF before, after
      <4>3. after <= cls'.tok[u][t]
        BY <1>6, <3>2, <3>3, <3>4, <4>2
      <4> QED
        BY <4>3 DEF after
    <3>5. CASE u = ty
      <4>1. learned[u] \in [Messages -> Nat]
        BY <1>1
      <4>2. after = before - One(t \in Has[m])
        <5>1. /\ learned'[u] = [learned[u] EXCEPT ![m] = @ - 1]
              /\ learned[u][m] > 0
          BY <1>6, <2>1, <3>5
        <5> QED
          BY <4>1, <5>1, CopyTaken
      <4>3. One(t \in Has[m]) \in {0, 1}
        BY DEF One
      <4> HIDE DEF before, after
      <4>4. cls'.tok[u][t] = cls.tok[u][t] - One(t \in Has[m])
        BY <1>6, <3>5
      <4>5. after <= cls'.tok[u][t]
        BY <3>1, <3>2, <3>3, <4>2, <4>3, <4>4
      <4> QED
        BY <4>5 DEF after
    <3> QED
      BY <3>4, <3>5
  <2>3. WordsCounted'
    BY <2>2 DEF WordsCounted
  <2> QED
    BY <1>3, <2>1, <2>3
<1> QED
  BY <1>4, <1>5, <1>6

-----------------------------------------------------------------------------
(* Updates. *)

LEMMA IdleIsAJob == Idle \in Job /\ Idle.op = "idle"
BY DEF Job, Idle

LEMMA WriteSampleStep ==
  ASSUME IInv, NEW j \in Jobs, NEW m \in Asked, NEW ty \in Types,
         WriteSample(j, m, ty)
  PROVE  IInv'
<1> DEFINE q == [op |-> "update", msg |-> m, type |-> ty]
<1>1. m \in Messages
  BY AskedAreMessages
<1>2. /\ jobs[j] = Idle /\ table' = [table EXCEPT ![m] = Row(ty, "user")]
      /\ jobs' = [Overtaking(m) EXCEPT ![j] = q]
      /\ UNCHANGED <<cls, similar, learned, damaged, overtaken>>
  BY DEF WriteSample
<1>3. q \in Job /\ ToLearn(q, m, ty) /\ q.op # "reload"
  BY <1>1 DEF Job, Updating, ToLearn
<1>4. Row(ty, "user") \in [type : Types, origin : Origins] \cup {NoRow}
      /\ Row(ty, "user").type = ty
  BY DEF Row, Origins
<1> HIDE DEF q
<1>5. /\ table' \in [Messages -> [type : Types, origin : Origins] \cup {NoRow}]
      /\ \A n \in Messages : table'[n] = IF n = m THEN Row(ty, "user") ELSE table[n]
      /\ jobs' \in [Jobs -> Job] /\ ReadsOK' /\ jobs'[j] = q
      /\ \A k \in Jobs \ {j} : jobs[k].op # "reload" => jobs'[k] = jobs[k]
  BY <1>1, <1>2, <1>3, <1>4, RowChanged
<1>6. TypeOK'
  BY <1>2, <1>5, TypesNow, TypesAgain DEF IInv
<1>7. WordsCounted'
  BY <1>2, CountsKept
<1>8. RowsKnown'
  <2>1. ASSUME NEW u \in Types, NEW n \in Messages \ overtaken, table'[n].type = u
        PROVE  /\ \/ learned[u][n] > 0
                  \/ \E k \in Jobs : ToLearn(jobs'[k], n, u) \/ ToDelete(jobs'[k], n, u)
               /\ u = "spam" => n \in similar \/ \E k \in Jobs : ToLearn(jobs'[k], n, u)
    <3>1. CASE n = m
      <4>1. u = ty /\ ToLearn(jobs'[j], n, u)
        BY <1>1, <1>3, <1>4, <1>5, <2>1, <3>1
      <4> QED
        BY <4>1
    <3>2. CASE n # m
      <4>1. table[n].type = u
        BY <1>5, <2>1, <3>2
      <4>2. \A k \in Jobs : /\ ToLearn(jobs[k], n, u) => ToLearn(jobs'[k], n, u)
                            /\ ToDelete(jobs[k], n, u) => ToDelete(jobs'[k], n, u)
        BY <1>2, <1>5, IdleIsAJob DEF ToLearn, ToDelete
      <4> QED
        BY <4>1, <4>2 DEF IInv, RowsKnown
    <3> QED
      BY <3>1, <3>2
  <2> QED
    BY <1>2, <2>1 DEF RowsKnown
<1> QED
  BY <1>5, <1>6, <1>7, <1>8 DEF IInv

LEMMA LearnSampleStep ==
  ASSUME IInv, NEW j \in Jobs, LearnSample(j)
  PROVE  IInv'
<1>1. PICK m \in Messages, ty \in Types : m = jobs[j].msg /\ ty = jobs[j].type
  <2>1. jobs[j] \in Updating
    BY JobsTyped, JobKinds DEF LearnSample, IInv
  <2> QED
    BY <2>1 DEF Updating
<1>2. /\ jobs[j].op = "update" /\ cls' = Learn(cls, m, ty)
      /\ similar' = IF ty = "spam" THEN similar \cup {m} ELSE similar
      /\ learned' = [learned EXCEPT ![ty][m] = @ + 1]
      /\ overtaken' = IF table[m].type = ty THEN overtaken \ {m} ELSE overtaken
      /\ jobs' = [jobs EXCEPT ![j] = Idle]
      /\ table' = table /\ damaged' = damaged
  BY <1>1 DEF LearnSample
<1>3. /\ jobs' \in [Jobs -> Job] /\ ReadsOK'
      /\ \A k \in Jobs : jobs'[k] = IF k = j THEN Idle ELSE jobs[k]
  BY <1>2, IdleIsAJob, JobChanged
<1>4. /\ cls' \in Counts /\ learned' \in [Types -> [Messages -> Nat]]
      /\ WordsCounted'
  BY <1>2, CountsLearned
<1>5. TypeOK'
  <2>1. similar' \in SUBSET Messages /\ overtaken' \in SUBSET Messages
    BY <1>2, TypesNow DEF IInv
  <2> QED
    BY <1>2, <1>3, <1>4, <2>1, TypesNow, TypesAgain DEF IInv
<1>6. RowsKnown'
  <2>1. learned \in [Types -> [Messages -> Nat]]
    BY TypesNow DEF IInv
  <2>2. learned'[ty][m] > 0 /\ (ty = "spam" => m \in similar')
    BY <1>2, <2>1
  <2>3. \A u \in Types, n \in Messages : learned[u][n] > 0 => learned'[u][n] > 0
    BY <1>2, <2>1
  <2>4. similar \subseteq similar'
    BY <1>2
  <2>5. ASSUME NEW u \in Types, NEW n \in Messages \ overtaken', table[n].type = u
        PROVE  /\ \/ learned'[u][n] > 0
                  \/ \E k \in Jobs : ToLearn(jobs'[k], n, u) \/ ToDelete(jobs'[k], n, u)
               /\ u = "spam" => n \in similar' \/ \E k \in Jobs : ToLearn(jobs'[k], n, u)
    <3>1. CASE n = m /\ u = ty
      BY <2>2, <3>1
    <3>2. CASE ~(n = m /\ u = ty)
      <4>1. n \notin overtaken
        BY <1>2, <2>5, <3>2
      <4>2. \A k \in Jobs : /\ ToLearn(jobs[k], n, u) => ToLearn(jobs'[k], n, u)
                            /\ ToDelete(jobs[k], n, u) => ToDelete(jobs'[k], n, u)
        BY <1>1, <1>2, <1>3, <3>2 DEF ToLearn, ToDelete
      <4>3. /\ \/ learned[u][n] > 0
               \/ \E k \in Jobs : ToLearn(jobs[k], n, u) \/ ToDelete(jobs[k], n, u)
            /\ u = "spam" => n \in similar \/ \E k \in Jobs : ToLearn(jobs[k], n, u)
        BY <2>5, <4>1 DEF IInv, RowsKnown
      <4> QED
        BY <2>3, <2>4, <4>2, <4>3
    <3> QED
      BY <3>1, <3>2
  <2> QED
    BY <1>2, <2>5 DEF RowsKnown
<1> QED
  BY <1>3, <1>4, <1>5, <1>6 DEF IInv

-----------------------------------------------------------------------------
(* Removals. *)

LEMMA UnlearnSampleStep ==
  ASSUME IInv, NEW j \in Jobs, NEW m \in Asked, NEW ty \in Types,
         UnlearnSample(j, m, ty)
  PROVE  IInv'
<1>11. PICK own \in BOOLEAN : own = (learned[ty][m] > 0)
  <2>1. (learned[ty][m] > 0) \in BOOLEAN
    OBVIOUS
  <2> QED
    BY <2>1, Zenon
<1> DEFINE q == [op |-> "remove", msg |-> m, type |-> ty, own |-> own]
<1>1. m \in Messages
  BY AskedAreMessages
<1>2. /\ jobs[j] = Idle /\ CanUnlearn(cls, m, ty) /\ cls' = Unlearnt(cls, m, ty)
      /\ jobs' = [jobs EXCEPT ![j] = q]
      /\ learned' = [learned EXCEPT ![ty][m] = IF own THEN @ - 1 ELSE 0]
      /\ damaged' = IF own THEN damaged ELSE damaged \cup Words(m, ty)
      /\ UNCHANGED <<table, similar, overtaken>>
  BY <1>11 DEF UnlearnSample
<1>3. q \in Job /\ q.op = "remove" /\ (own => ToDelete(q, m, ty))
  BY <1>1 DEF Job, Taking, ToDelete
<1>4. /\ jobs' \in [Jobs -> Job] /\ ReadsOK'
      /\ \A k \in Jobs : jobs'[k] = IF k = j THEN q ELSE jobs[k]
  <2> HIDE DEF q
  <2> QED
    BY <1>2, <1>3, JobChanged
<1>5. cls \in Counts /\ learned \in [Types -> [Messages -> Nat]]
  BY TypesNow DEF IInv
<1>6. /\ cls' \in Counts
      /\ \A u \in Types, t \in Tokens :
           cls'.tok[u][t] = cls.tok[u][t] - IF u = ty THEN One(t \in Has[m]) ELSE 0
  BY <1>1, <1>2, <1>5, UnlearntTyped
<1>7. \A u \in Types, t \in Tokens :
         u # ty \/ t \notin Has[m] => cls'.tok[u][t] = cls.tok[u][t]
  <2>1. \A u \in Types, t \in Tokens : cls.tok[u][t] \in Nat
    BY <1>5 DEF Counts
  <2> QED
    BY <1>6, <2>1 DEF One
<1>8. /\ learned' \in [Types -> [Messages -> Nat]]
      /\ damaged' \in SUBSET (Types \X Tokens)
      /\ WordsCounted'
  <2>1. CASE own
    <3>1. learned' = [learned EXCEPT ![ty][m] = @ - 1]
      BY <1>2, <2>1
    <3>2. learned[ty][m] > 0 /\ damaged' = damaged
      BY <1>2, <1>11, <2>1
    <3> QED
      BY <1>1, <1>6, <1>7, <3>1, <3>2, CountsUnlearnt
  <2>2. CASE ~own
    <3>1. learned' = [learned EXCEPT ![ty][m] = 0]
      BY <1>2, <2>2
    <3>2. learned[ty][m] = 0
      <4>1. ~(learned[ty][m] > 0)
        BY <1>11, <2>2, Zenon
      <4>2. learned[ty][m] \in Nat
        BY <1>1, <1>5
      <4> QED
        BY <4>1, <4>2
    <3> QED
      BY <1>1, <1>2, <1>6, <1>7, <2>2, <3>1, <3>2, CountsUnlearnt
  <2> QED
    BY <2>1, <2>2
<1>9. TypeOK'
  BY <1>2, <1>4, <1>6, <1>8, TypesNow, TypesAgain DEF IInv
<1>10. RowsKnown'
  <2>1. ASSUME NEW u \in Types, NEW n \in Messages \ overtaken, table[n].type = u
        PROVE  /\ \/ learned'[u][n] > 0
                  \/ \E k \in Jobs : ToLearn(jobs'[k], n, u) \/ ToDelete(jobs'[k], n, u)
               /\ u = "spam" => n \in similar \/ \E k \in Jobs : ToLearn(jobs'[k], n, u)
    <3>1. \A k \in Jobs : /\ ToLearn(jobs[k], n, u) => ToLearn(jobs'[k], n, u)
                          /\ ToDelete(jobs[k], n, u) => ToDelete(jobs'[k], n, u)
      BY <1>2, <1>4, IdleIsAJob DEF ToLearn, ToDelete
    <3>2. learned[u][n] > 0 =>
            learned'[u][n] > 0 \/ \E k \in Jobs : ToDelete(jobs'[k], n, u)
      <4>1. CASE n = m /\ u = ty
        <5>1. own => ToDelete(jobs'[j], n, u)
          BY <1>3, <1>4, <4>1
        <5> QED
          BY <1>11, <4>1, <5>1
      <4>2. CASE ~(n = m /\ u = ty)
        <5>1. learned'[u][n] = learned[u][n]
          BY <1>2, <1>5, <4>2
        <5> QED
          BY <5>1
      <4> QED
        BY <4>1, <4>2
    <3> HIDE DEF q
    <3>3. /\ \/ learned[u][n] > 0
             \/ \E k \in Jobs : ToLearn(jobs[k], n, u) \/ ToDelete(jobs[k], n, u)
          /\ u = "spam" => n \in similar \/ \E k \in Jobs : ToLearn(jobs[k], n, u)
      BY <2>1 DEF IInv, RowsKnown
    <3> QED
      BY <3>1, <3>2, <3>3
  <2> QED
    BY <1>2, <2>1 DEF RowsKnown
<1> QED
  BY <1>4, <1>8, <1>9, <1>10 DEF IInv

LEMMA UnlearnInVainStep ==
  ASSUME IInv, NEW j \in Jobs, NEW m \in Asked, NEW ty \in Types,
         UnlearnInVain(j, m, ty)
  PROVE  IInv'
<1>1. m \in Messages
  BY AskedAreMessages
<1>2. /\ cls' \in GivenUp(cls, m, ty) /\ damaged' = damaged \cup Words(m, ty)
      /\ UNCHANGED <<table, similar, jobs, learned, overtaken>>
  BY DEF UnlearnInVain
<1>3. cls \in Counts
  BY TypesNow DEF IInv
<1>4. /\ cls' \in Counts
      /\ \A u \in Types, t \in Tokens :
           u # ty \/ t \notin Has[m] => cls'.tok[u][t] = cls.tok[u][t]
  BY <1>1, <1>2, <1>3, GivenUpTyped
<1>5. damaged' \in SUBSET (Types \X Tokens) /\ WordsCounted'
  BY <1>1, <1>2, <1>4, CountsUnlearnt
<1>6. TypeOK'
  BY <1>2, <1>4, <1>5, TypesNow, TypesAgain DEF IInv
<1>7. ReadsOK' /\ RowsKnown'
  BY <1>2 DEF IInv, ReadsOK, RowsKnown
<1> QED
  BY <1>5, <1>6, <1>7 DEF IInv

LEMMA DeleteMessageStep ==
  ASSUME IInv, NEW j \in Jobs, DeleteMessage(j)
  PROVE  IInv'
<1>1. jobs[j].op = "remove" /\ jobs[j] \in Taking
  BY JobsTyped, JobKinds DEF DeleteMessage, IInv
<1>2. PICK m \in Messages : m = jobs[j].msg
  BY <1>1 DEF Taking
<1>3. /\ table' = [table EXCEPT ![m] = NoRow]
      /\ jobs' = [Overtaking(m) EXCEPT ![j] = Idle]
      /\ UNCHANGED <<cls, similar, learned, damaged, overtaken>>
  BY <1>2 DEF DeleteMessage
<1>4. /\ table' \in [Messages -> [type : Types, origin : Origins] \cup {NoRow}]
      /\ \A n \in Messages : table'[n] = IF n = m THEN NoRow ELSE table[n]
      /\ jobs' \in [Jobs -> Job] /\ ReadsOK' /\ jobs'[j] = Idle
      /\ \A k \in Jobs \ {j} : jobs[k].op # "reload" => jobs'[k] = jobs[k]
  BY <1>3, IdleIsAJob, RowChanged
<1>5. TypeOK'
  BY <1>3, <1>4, TypesNow, TypesAgain DEF IInv
<1>6. WordsCounted'
  BY <1>3, CountsKept
<1>7. RowsKnown'
  <2>1. ASSUME NEW u \in Types, NEW n \in Messages \ overtaken, table'[n].type = u
        PROVE  /\ \/ learned[u][n] > 0
                  \/ \E k \in Jobs : ToLearn(jobs'[k], n, u) \/ ToDelete(jobs'[k], n, u)
               /\ u = "spam" => n \in similar \/ \E k \in Jobs : ToLearn(jobs'[k], n, u)
    <3>1. n # m
      BY <1>4, <2>1 DEF NoRow, Types
    <3>2. table[n].type = u
      BY <1>4, <2>1, <3>1
    <3>3. \A k \in Jobs : /\ ToLearn(jobs[k], n, u) => ToLearn(jobs'[k], n, u)
                          /\ ToDelete(jobs[k], n, u) => ToDelete(jobs'[k], n, u)
      BY <1>1, <1>2, <1>4, <3>1 DEF ToLearn, ToDelete
    <3> QED
      BY <3>2, <3>3 DEF IInv, RowsKnown
  <2> QED
    BY <1>3, <2>1 DEF RowsKnown
<1> QED
  BY <1>4, <1>5, <1>6, <1>7 DEF IInv

LEMMA DeleteFailsStep ==
  ASSUME IInv, NEW j \in Jobs, DeleteFails(j)
  PROVE  IInv'
<1>1. jobs[j].op = "remove" /\ jobs[j] \in Taking
  BY JobsTyped, JobKinds DEF DeleteFails, IInv
<1>2. PICK m \in Messages, ty \in Types : m = jobs[j].msg /\ ty = jobs[j].type
  BY <1>1 DEF Taking
<1>3. /\ cls' = Learn(cls, m, ty)
      /\ learned' = [learned EXCEPT ![ty][m] = @ + One(jobs[j].own)]
      /\ jobs' = [jobs EXCEPT ![j] = Idle]
      /\ UNCHANGED <<table, similar, damaged, overtaken>>
  BY <1>2 DEF DeleteFails
<1>4. /\ jobs' \in [Jobs -> Job] /\ ReadsOK'
      /\ \A k \in Jobs : jobs'[k] = IF k = j THEN Idle ELSE jobs[k]
  BY <1>3, IdleIsAJob, JobChanged
<1>5. learned \in [Types -> [Messages -> Nat]]
  BY TypesNow DEF IInv
<1>6. IF jobs[j].own THEN learned' = [learned EXCEPT ![ty][m] = @ + 1]
                     ELSE learned' = learned
  <2>1. CASE jobs[j].own
    <3>1. One(jobs[j].own) = 1
      BY <2>1 DEF One
    <3> QED
      BY <1>3, <2>1, <3>1
  <2>2. CASE ~jobs[j].own
    <3>1. One(jobs[j].own) = 0
      BY <2>2 DEF One
    <3> QED
      BY <1>3, <1>5, <2>2, <3>1
  <2> QED
    BY <2>1, <2>2
<1>7. /\ cls' \in Counts /\ learned' \in [Types -> [Messages -> Nat]]
      /\ WordsCounted'
  BY <1>3, <1>6, CountsLearned
<1>8. TypeOK'
  BY <1>3, <1>4, <1>7, TypesNow, TypesAgain DEF IInv
<1>9. RowsKnown'
  <2>1. ASSUME NEW u \in Types, NEW n \in Messages \ overtaken, table[n].type = u
        PROVE  /\ \/ learned'[u][n] > 0
                  \/ \E k \in Jobs : ToLearn(jobs'[k], n, u) \/ ToDelete(jobs'[k], n, u)
               /\ u = "spam" => n \in similar \/ \E k \in Jobs : ToLearn(jobs'[k], n, u)
    <3>1. \A k \in Jobs : /\ ToLearn(jobs[k], n, u) => ToLearn(jobs'[k], n, u)
                          /\ ToDelete(jobs[k], n, u) =>
                               ToDelete(jobs'[k], n, u) \/ k = j
      BY <1>1, <1>4 DEF ToLearn, ToDelete
    <3>2. ToDelete(jobs[j], n, u) => learned'[u][n] > 0
      BY <1>2, <1>5, <1>6 DEF ToDelete
    <3>3. learned[u][n] > 0 => learned'[u][n] > 0
      BY <1>5, <1>6
    <3>4. /\ \/ learned[u][n] > 0
             \/ \E k \in Jobs : ToLearn(jobs[k], n, u) \/ ToDelete(jobs[k], n, u)
          /\ u = "spam" => n \in similar \/ \E k \in Jobs : ToLearn(jobs[k], n, u)
      BY <2>1 DEF IInv, RowsKnown
    <3> QED
      BY <3>1, <3>2, <3>3, <3>4
  <2> QED
    BY <1>3, <2>1 DEF RowsKnown
<1> QED
  BY <1>4, <1>7, <1>8, <1>9 DEF IInv

-----------------------------------------------------------------------------
(* Reloads. *)

LEMMA ReloadSamplesStep ==
  ASSUME IInv, NEW j \in Jobs, ReloadSamples(j)
  PROVE  IInv'
<1> DEFINE q == [op |-> "reload", read |-> << >>, late |-> {}]
<1>1. /\ jobs[j] = Idle /\ jobs' = [jobs EXCEPT ![j] = q]
      /\ UNCHANGED <<table, cls, similar, learned, damaged, overtaken>>
  BY DEF ReloadSamples
<1>2. q \in Job
  BY DEF Job, Reloading
<1>3. ReadOK(table, q)
  BY DEF ReadOK
<1> HIDE DEF q
<1>4. /\ jobs' \in [Jobs -> Job] /\ ReadsOK'
      /\ \A k \in Jobs : jobs'[k] = IF k = j THEN q ELSE jobs[k]
  BY <1>1, <1>2, <1>3, JobChanged
<1>5. WordsCounted'
  BY <1>1, CountsKept
<1>6. TypeOK'
  BY <1>1, <1>4, TypesNow, TypesAgain DEF IInv
<1>7. \A k \in Jobs : \A m, ty :
        /\ ToLearn(jobs[k], m, ty) => ToLearn(jobs'[k], m, ty)
        /\ ToDelete(jobs[k], m, ty) => ToDelete(jobs'[k], m, ty)
  BY <1>1, <1>4, IdleIsAJob DEF ToLearn, ToDelete
<1>8. RowsKnown'
  BY <1>1, <1>7 DEF IInv, RowsKnown
<1> QED
  BY <1>4, <1>5, <1>6, <1>8 DEF IInv

LEMMA ReaderStep ==
  ASSUME IInv, NEW j \in Jobs, Reader(j)
  PROVE  IInv'
<1>1. jobs[j].op = "reload" /\ jobs[j] \in Reloading /\ ReadOK(table, jobs[j])
  BY JobsTyped, JobKinds DEF Reader, IInv, ReadsOK
<1> DEFINE old == jobs[j].read
           r == Readers[Len(old) + 1]
           new == Append(old, Stored(r[1], r[2]))
           q == [jobs[j] EXCEPT !.read = new]
<1>2. /\ Len(old) < 4 /\ jobs' = [jobs EXCEPT ![j] = q]
      /\ UNCHANGED <<table, cls, similar, learned, damaged, overtaken>>
  BY DEF Reader
<1>3. old \in Seq(SUBSET Messages) /\ Stored(r[1], r[2]) \in SUBSET Messages
  BY <1>1 DEF Reloading, Stored
<1>4. /\ new \in Seq(SUBSET Messages) /\ Len(new) = Len(old) + 1
      /\ \A i \in 1 .. Len(old) : new[i] = old[i]
      /\ new[Len(old) + 1] = Stored(r[1], r[2])
  <2> HIDE DEF old, r
  <2> QED
    BY <1>3
<1>5. q \in Reloading /\ q.read = new /\ q.late = jobs[j].late
  <2> HIDE DEF new
  <2> QED
    BY <1>1, <1>4 DEF Reloading
<1>6. ReadOK(table, q)
  <2>1. Len(old) \in Nat
    BY <1>3
  <2>2. ASSUME NEW i \in 1 .. Len(new), NEW m \in Messages \ jobs[j].late
        PROVE  m \in new[i] <=> table[m] = Row(Readers[i][1], Readers[i][2])
    <3>1. CASE i \in 1 .. Len(old)
      BY <1>1, <1>4, <2>1, <3>1 DEF ReadOK
    <3>2. CASE i = Len(old) + 1
      BY <1>4, <3>2 DEF Stored
    <3> QED
      BY <1>4, <2>1, <3>1, <3>2
  <2>3. Len(new) <= 4
    BY <1>2, <1>4, <2>1
  <2> HIDE DEF new, q
  <2> QED
    BY <1>5, <2>2, <2>3 DEF ReadOK
<1>7. q \in Job
  BY <1>5 DEF Job
<1> HIDE DEF q
<1>8. /\ jobs' \in [Jobs -> Job] /\ ReadsOK'
      /\ \A k \in Jobs : jobs'[k] = IF k = j THEN q ELSE jobs[k]
  BY <1>2, <1>6, <1>7, JobChanged
<1>9. WordsCounted'
  BY <1>2, CountsKept
<1>10. TypeOK'
  BY <1>2, <1>8, TypesNow, TypesAgain DEF IInv
<1>11. \A k \in Jobs : \A m, ty :
        /\ ToLearn(jobs[k], m, ty) => ToLearn(jobs'[k], m, ty)
        /\ ToDelete(jobs[k], m, ty) => ToDelete(jobs'[k], m, ty)
  BY <1>1, <1>8 DEF ToLearn, ToDelete
<1>12. RowsKnown'
  BY <1>2, <1>11 DEF IInv, RowsKnown
<1> QED
  BY <1>8, <1>9, <1>10, <1>12 DEF IInv

LEMMA ReaderFailsStep ==
  ASSUME IInv, NEW j \in Jobs, ReaderFails(j)
  PROVE  IInv'
<1>1. /\ jobs[j].op = "reload" /\ jobs' = [jobs EXCEPT ![j] = Idle]
      /\ UNCHANGED <<table, cls, similar, learned, damaged, overtaken>>
  BY DEF ReaderFails
<1>2. /\ jobs' \in [Jobs -> Job] /\ ReadsOK'
      /\ \A k \in Jobs : jobs'[k] = IF k = j THEN Idle ELSE jobs[k]
  BY <1>1, IdleIsAJob, JobChanged
<1>3. WordsCounted'
  BY <1>1, CountsKept
<1>4. TypeOK'
  BY <1>1, <1>2, TypesNow, TypesAgain DEF IInv
<1>5. \A k \in Jobs : \A m, ty :
        /\ ToLearn(jobs[k], m, ty) => ToLearn(jobs'[k], m, ty)
        /\ ToDelete(jobs[k], m, ty) => ToDelete(jobs'[k], m, ty)
  BY <1>1, <1>2 DEF ToLearn, ToDelete
<1>6. RowsKnown'
  BY <1>1, <1>5 DEF IInv, RowsKnown
<1> QED
  BY <1>2, <1>3, <1>4, <1>6 DEF IInv

(* What is loaded is counted, and known of each row that is among it. *)
LEMMA LoadCounts ==
  ASSUME IInv, NEW read, Load(read), similar' \in SUBSET Messages
  PROVE  /\ cls' \in Counts /\ learned' \in [Types -> [Messages -> Nat]]
         /\ damaged' \in SUBSET (Types \X Tokens)
         /\ WordsCounted'
<1>1. /\ cls' = Trained(read) /\ learned' = Times(read) /\ damaged' = {}
  BY DEF Load
<1>2. \A ty \in Types, t \in Tokens :
         Cardinality(Copies(learned'[ty], t)) <= cls'.tok[ty][t]
  BY <1>1, CopiesLoaded
<1>3. WordsCounted'
  BY <1>2 DEF WordsCounted
<1> QED
  BY <1>1, <1>3, LoadTyped

LEMMA LoadKnows ==
  ASSUME NEW read, Load(read), NEW m \in Messages, NEW ty \in Types,
         NEW i \in 1 .. 4, Readers[i][1] = ty, m \in read[i]
  PROVE  /\ learned'[ty][m] > 0
         /\ ty = "spam" => m \in similar'
<1> DEFINE S == {x \in Documents(read, ty) : x[2] = m}
<1>1. learned'[ty][m] = Cardinality(S)
  BY DEF Load, Times
<1>2. <<i, m>> \in S
  BY DEF Documents
<1>3. IsFiniteSet(S) /\ Cardinality(S) \in Nat
  BY DocumentsFinite
<1>4. Cardinality(S) > 0
  <2> HIDE DEF S
  <2>1. Cardinality(S) # 0
    BY <1>2, <1>3, FS_EmptySet
  <2> QED
    BY <1>3, <2>1
<1>5. ASSUME ty = "spam" PROVE m \in similar'
  <2>1. i = 1 \/ i = 3
    BY <1>5 DEF Readers
  <2> QED
    BY <2>1 DEF Load
<1> QED
  BY <1>1, <1>4, <1>5

(* The reader of a stored row. *)
LEMMA RowHasAReader ==
  ASSUME TypeOK, NEW m \in Messages, NEW ty \in Types, table[m].type = ty
  PROVE  \E i \in 1 .. 4 : /\ Readers[i][1] = ty
                           /\ table[m] = Row(Readers[i][1], Readers[i][2])
<1>1. table[m] \in [type : Types, origin : Origins] \cup {NoRow}
  BY DEF TypeOK
<1>2. table[m] # NoRow
  BY DEF NoRow, Types
<1>3. PICK o \in Origins : table[m] = Row(ty, o)
  BY <1>1, <1>2 DEF Row
<1>4. \E i \in 1 .. 4 : Readers[i][1] = ty /\ Readers[i][2] = o
  <2>1. Readers[1] = <<"spam", "preset">> /\ Readers[2] = <<"ham", "preset">>
        /\ Readers[3] = <<"spam", "user">> /\ Readers[4] = <<"ham", "user">>
    BY DEF Readers
  <2>2. 1 \in 1 .. 4 /\ 2 \in 1 .. 4 /\ 3 \in 1 .. 4 /\ 4 \in 1 .. 4
    OBVIOUS
  <2> QED
    BY <2>1, <2>2 DEF Types, Origins
<1> QED
  BY <1>3, <1>4

LEMMA CurrentIsStored ==
  \A i \in 1 .. 4, m \in Messages :
    m \in Current[i] <=> table[m] = Row(Readers[i][1], Readers[i][2])
BY DEF Current, Stored

LEMMA LoadSamplesStep ==
  ASSUME IInv, NEW j \in Jobs, LoadSamples(j)
  PROVE  IInv'
<1> DEFINE read == jobs[j].read
<1>1. /\ jobs[j].op = "reload" /\ jobs[j] \in Reloading /\ ReadOK(table, jobs[j])
  BY JobsTyped, JobKinds DEF LoadSamples, IInv, ReadsOK
<1>2. /\ Len(read) = 4 /\ Load(read) /\ overtaken' = jobs[j].late
      /\ jobs' = [jobs EXCEPT ![j] = Idle] /\ table' = table /\ Unlocked
  BY DEF LoadSamples
<1>3. /\ jobs' \in [Jobs -> Job] /\ ReadsOK'
      /\ \A k \in Jobs : jobs'[k] = IF k = j THEN Idle ELSE jobs[k]
  BY <1>2, IdleIsAJob, JobChanged
<1>4. overtaken' \in SUBSET Messages /\ similar' \in SUBSET Messages
  <2>1. read[1] \in SUBSET Messages /\ read[3] \in SUBSET Messages
    BY <1>1, <1>2 DEF Reloading
  <2> QED
    BY <1>1, <1>2, <2>1 DEF Reloading, Load
<1>5. /\ cls' \in Counts /\ learned' \in [Types -> [Messages -> Nat]]
      /\ damaged' \in SUBSET (Types \X Tokens)
      /\ WordsCounted'
  BY <1>2, <1>4, LoadCounts
<1>6. TypeOK'
  BY <1>2, <1>3, <1>4, <1>5, TypesNow, TypesAgain DEF IInv
<1>7. RowsKnown'
  <2>1. ASSUME NEW ty \in Types, NEW m \in Messages \ overtaken', table[m].type = ty
        PROVE  learned'[ty][m] > 0 /\ (ty = "spam" => m \in similar')
    <3>1. PICK i \in 1 .. 4 : /\ Readers[i][1] = ty
                              /\ table[m] = Row(Readers[i][1], Readers[i][2])
      BY <2>1, RowHasAReader DEF IInv
    <3>2. m \in read[i]
      BY <1>1, <1>2, <3>1 DEF ReadOK
    <3> HIDE DEF read
    <3> QED
      BY <1>2, <3>1, <3>2, LoadKnows
  <2> QED
    BY <1>2, <2>1 DEF RowsKnown
<1> QED
  BY <1>3, <1>5, <1>6, <1>7 DEF IInv

(* Loading what is stored, with no job under way: a start. *)
LEMMA LoadedAfresh ==
  ASSUME table \in [Messages -> [type : Types, origin : Origins] \cup {NoRow}],
         NEW read, read = Current
  PROVE  /\ read[1] \cup read[3] \in SUBSET Messages
         /\ \A ty \in Types, m \in Messages : table[m].type = ty =>
              \E i \in 1 .. 4 : Readers[i][1] = ty /\ m \in read[i]
<1>1. read[1] \in SUBSET Messages /\ read[3] \in SUBSET Messages
  BY DEF Current, Stored
<1>2. ASSUME NEW ty \in Types, NEW m \in Messages, table[m].type = ty
      PROVE  \E i \in 1 .. 4 : Readers[i][1] = ty /\ m \in read[i]
  <2>1. table[m] \in [type : Types, origin : Origins] /\ table[m] # NoRow
    BY <1>2 DEF NoRow, Types
  <2>2. PICK o \in Origins : table[m] = Row(ty, o)
    BY <1>2, <2>1 DEF Row
  <2>3. \E i \in 1 .. 4 : Readers[i][1] = ty /\ Readers[i][2] = o
    <3>1. Readers[1] = <<"spam", "preset">> /\ Readers[2] = <<"ham", "preset">>
          /\ Readers[3] = <<"spam", "user">> /\ Readers[4] = <<"ham", "user">>
      BY DEF Readers
    <3>2. 1 \in 1 .. 4 /\ 2 \in 1 .. 4 /\ 3 \in 1 .. 4 /\ 4 \in 1 .. 4
      OBVIOUS
    <3> QED
      BY <3>1, <3>2 DEF Types, Origins
  <2> QED
    BY <2>2, <2>3, CurrentIsStored
<1> QED
  BY <1>1, <1>2

LEMMA RestartStep ==
  ASSUME IInv, Restart
  PROVE  IInv'
<1> DEFINE read == Current
<1>1. /\ Load(read) /\ jobs' = [k \in Jobs |-> Idle]
      /\ overtaken' = {} /\ table' = table
  BY DEF Restart
<1>2. table \in [Messages -> [type : Types, origin : Origins] \cup {NoRow}]
  BY TypesNow DEF IInv
<1>3. /\ read[1] \cup read[3] \in SUBSET Messages
      /\ \A ty \in Types, m \in Messages : table[m].type = ty =>
           \E i \in 1 .. 4 : Readers[i][1] = ty /\ m \in read[i]
  BY <1>2, LoadedAfresh
<1> HIDE DEF read
<1>4. similar' \in SUBSET Messages
  BY <1>1, <1>3 DEF Load
<1>5. /\ cls' \in Counts /\ learned' \in [Types -> [Messages -> Nat]]
      /\ damaged' \in SUBSET (Types \X Tokens)
      /\ WordsCounted'
  BY <1>1, <1>4, LoadCounts
<1>6. jobs' \in [Jobs -> Job] /\ ReadsOK'
  BY <1>1, IdleIsAJob DEF ReadsOK
<1>7. TypeOK'
  BY <1>1, <1>2, <1>4, <1>5, <1>6, TypesAgain
<1>8. RowsKnown'
  <2>1. ASSUME NEW ty \in Types, NEW m \in Messages, table[m].type = ty
        PROVE  learned'[ty][m] > 0 /\ (ty = "spam" => m \in similar')
    <3>1. PICK i \in 1 .. 4 : Readers[i][1] = ty /\ m \in read[i]
      BY <1>3, <2>1
    <3> QED
      BY <1>1, <3>1, LoadKnows
  <2> QED
    BY <1>1, <2>1 DEF RowsKnown
<1> QED
  BY <1>5, <1>6, <1>7, <1>8 DEF IInv

-----------------------------------------------------------------------------
LEMMA Starts == ASSUME Init PROVE IInv
<1> DEFINE read == Current
<1>1. /\ table = [m \in Messages |-> PresetRow(m)] /\ cls = Trained(read)
      /\ similar = Stored("spam", "preset") /\ jobs = [j \in Jobs |-> Idle]
      /\ learned = Times(read) /\ damaged = {} /\ overtaken = {}
  BY DEF Init
<1>2. table \in [Messages -> [type : Types, origin : Origins] \cup {NoRow}]
  BY <1>1, SamplesAssumption DEF PresetRow, Row, Origins
<1>3. /\ read[1] \cup read[3] \in SUBSET Messages
      /\ \A ty \in Types, m \in Messages : table[m].type = ty =>
           \E i \in 1 .. 4 : Readers[i][1] = ty /\ m \in read[i]
  BY <1>2, LoadedAfresh
<1>4. \A m \in Messages : table[m].type = "spam" => m \in similar
  BY <1>1 DEF PresetRow, Stored, Row, NoRow
<1>5. similar \subseteq Messages
  BY <1>1 DEF Stored
<1>6. \A ty \in Types, m \in Messages : table[m].type = ty => learned[ty][m] > 0
  <2>1. ASSUME NEW ty \in Types, NEW m \in Messages, table[m].type = ty
        PROVE  learned[ty][m] > 0
    <3> DEFINE S == {x \in Documents(read, ty) : x[2] = m}
    <3>1. PICK i \in 1 .. 4 : Readers[i][1] = ty /\ m \in read[i]
      BY <1>3, <2>1
    <3>2. <<i, m>> \in S
      BY <3>1 DEF Documents
    <3>3. learned[ty][m] = Cardinality(S)
      BY <1>1 DEF Times
    <3>4. IsFiniteSet(S) /\ Cardinality(S) \in Nat
      BY DocumentsFinite
    <3> HIDE DEF S
    <3> QED
      BY <3>2, <3>3, <3>4, FS_EmptySet
  <2> QED
    BY <2>1
<1> HIDE DEF read
<1>7. /\ cls \in Counts /\ learned \in [Types -> [Messages -> Nat]]
      /\ WordsCounted
  BY <1>1, LoadTyped, CopiesLoaded DEF WordsCounted
<1>8. jobs \in [Jobs -> Job] /\ ReadsOK
  BY <1>1, IdleIsAJob DEF ReadsOK
<1>9. TypeOK
  BY <1>1, <1>2, <1>5, <1>7, <1>8 DEF TypeOK, Job, Updating, Taking, Reloading, Counts
<1>10. RowsKnown
  BY <1>4, <1>6 DEF RowsKnown
<1> QED
  BY <1>7, <1>8, <1>9, <1>10 DEF IInv

LEMMA Steps == ASSUME IInv, [Next]_vars PROVE IInv'
<1>1. CASE UNCHANGED vars
  BY <1>1 DEF vars, IInv, TypeOK, ReadsOK, WordsCounted, RowsKnown
<1>2. CASE Restart
  BY <1>2, RestartStep
<1>3. ASSUME NEW j \in Jobs, NEW m \in Asked, NEW ty \in Types,
             WriteSample(j, m, ty) \/ UnlearnSample(j, m, ty)
               \/ UnlearnInVain(j, m, ty)
      PROVE  IInv'
  BY <1>3, WriteSampleStep, UnlearnSampleStep, UnlearnInVainStep
<1>4. ASSUME NEW j \in Jobs,
             LearnSample(j) \/ DeleteMessage(j) \/ DeleteFails(j)
               \/ ReloadSamples(j) \/ Reader(j) \/ ReaderFails(j) \/ LoadSamples(j)
      PROVE  IInv'
  BY <1>4, LearnSampleStep, DeleteMessageStep, DeleteFailsStep,
     ReloadSamplesStep, ReaderStep, ReaderFailsStep, LoadSamplesStep
<1> QED
  BY <1>1, <1>2, <1>3, <1>4 DEF Next

(* Every stored sample is learned or about to be, words count the copies   *)
(* of their samples, and reloads have read what is stored, throughout      *)
(* updates, removals that fail halfway, reloads and restarts               *)
(* (detector.go, samples_model.go, spam.go).                               *)
THEOREM Inductive == Spec => []IInv
<1>1. Init => IInv
  BY Starts
<1>2. IInv /\ [Next]_vars => IInv'
  BY Steps
<1> QED
  BY <1>1, <1>2, PTL DEF Spec

(* No count of the classifier ever goes below zero, not even when a        *)
(* removal gives up in the middle of the words (classifier.go, unlearn).   *)
THEOREM TypeCorrect == Spec => []TypeOK
<1>1. IInv => TypeOK
  BY DEF IInv
<1> QED
  BY <1>1, Inductive, PTL

(* At rest, every stored sample has been learned. *)
LEMMA KnownAtRest ==
  ASSUME IInv, NEW ty \in Types, NEW m \in Settled(ty)
  PROVE  m \in Messages /\ learned[ty][m] > 0 /\ (ty = "spam" => m \in similar)
<1>1. m \in Messages \ overtaken /\ table[m].type = ty /\ AtRest(m)
  BY DEF Settled
<1>2. \A j \in Jobs : ~ToLearn(jobs[j], m, ty) /\ ~ToDelete(jobs[j], m, ty)
  BY <1>1 DEF AtRest, ToLearn, ToDelete
<1> QED
  BY <1>1, <1>2 DEF IInv, RowsKnown

(* What is stored is known: each settled sample has a copy of its own in   *)
(* the counts of its words (detector.go, updateSample and removeSample;    *)
(* samples_model.go, load).                                                *)
THEOREM StoredSamplesKnown == Spec => []StoredIsKnown
<1>1. ASSUME IInv PROVE StoredIsKnown
  <2>1. ASSUME NEW ty \in Types, NEW t \in Tokens, <<ty, t>> \notin damaged
        PROVE  cls.tok[ty][t] >= Cardinality({m \in Settled(ty) : t \in Has[m]})
    <3> DEFINE S == {m \in Settled(ty) : t \in Has[m]}
               C == Copies(learned[ty], t)
               f == [m \in S |-> <<m, 1>>]
    <3>1. learned[ty] \in [Messages -> Nat] /\ cls.tok[ty][t] \in Nat
      BY <1>1, TypesNow DEF IInv, Counts
    <3>2. \A m \in S : <<m, 1>> \in C
      <4>1. ASSUME NEW m \in S PROVE <<m, 1>> \in C
        <5>1. m \in Messages /\ learned[ty][m] > 0 /\ t \in Has[m]
          BY <1>1, KnownAtRest
        <5>2. 1 <= learned[ty][m]
          BY <3>1, <5>1
        <5> QED
          BY <5>1, <5>2 DEF Copies
      <4> QED
        BY <4>1
    <3>3. f \in Injection(S, C)
      <4> HIDE DEF S, C
      <4> QED
        BY <3>2 DEF Injection, IsInjective
    <3>4. IsFiniteSet(C) /\ Cardinality(C) \in Nat
      BY <3>1, CopiesFinite, FS_CardinalityType
    <3>5. Cardinality(C) <= cls.tok[ty][t]
      BY <1>1, <2>1 DEF IInv, WordsCounted
    <3> HIDE DEF S, C, f
    <3>6. IsFiniteSet(S) /\ Cardinality(S) <= Cardinality(C)
      BY <3>3, <3>4, FS_Injection
    <3>7. Cardinality(S) \in Nat
      BY <3>6, FS_CardinalityType
    <3>8. cls.tok[ty][t] >= Cardinality(S)
      BY <3>1, <3>4, <3>5, <3>6, <3>7
    <3> QED
      BY <3>8 DEF S
  <2>2. \A ty \in Types : ty = "spam" => Settled(ty) \subseteq similar
    BY <1>1, KnownAtRest
  <2> QED
    BY <2>1, <2>2 DEF StoredIsKnown
<1> QED
  BY <1>1, Inductive, PTL

(* The last step of a reload that nothing came into, or a restart during   *)
(* it, leaves exactly what the table says (spam.go, ReloadSamples;         *)
(* detector.go, LoadSamples).                                              *)
LEMMA ReloadEnds ==
  ASSUME IInv, [Next]_vars, NEW j \in Jobs, jobs[j].op = "reload",
         jobs'[j] = Idle, Len(jobs[j].read) = 4, jobs[j].late = {}
  PROVE  cls' = Trained(Current) /\ similar' = Current[1] \cup Current[3]
<1>1. jobs[j] \in Reloading /\ ReadOK(table, jobs[j]) /\ jobs \in [Jobs -> Job]
  BY JobsTyped, JobKinds DEF IInv, ReadsOK
<1>2. jobs[j].read = Current
  <2> DEFINE read == jobs[j].read
  <2>6. read \in Seq(SUBSET Messages) /\ Len(read) = 4
    BY <1>1 DEF Reloading
  <2>1. read \in [1 .. 4 -> SUBSET Messages]
    <3> HIDE DEF read
    <3>1. read \in [1 .. Len(read) -> SUBSET Messages]
      BY <2>6, LenProperties
    <3> QED
      BY <2>6, <3>1
  <2>2. Current \in [1 .. 4 -> SUBSET Messages]
    BY DEF Current, Stored
  <2>3. \A i \in 1 .. 4 : read[i] = Current[i]
    <3>1. \A i \in 1 .. 4, m \in Messages :
             m \in read[i] <=> table[m] = Row(Readers[i][1], Readers[i][2])
      BY <1>1, <2>6 DEF ReadOK
    <3> HIDE DEF read
    <3>2. \A i \in 1 .. 4, m \in Messages : m \in read[i] <=> m \in Current[i]
      BY <3>1, CurrentIsStored
    <3>3. \A i \in 1 .. 4 : read[i] \subseteq Messages /\ Current[i] \subseteq Messages
      BY <2>1, <2>2
    <3> QED
      BY <3>2, <3>3
  <2>4. read = [i \in 1 .. 4 |-> read[i]] /\ Current = [i \in 1 .. 4 |-> Current[i]]
    BY <2>1, <2>2
  <2> HIDE DEF read
  <2>5. read = Current
    BY <2>3, <2>4, Zenon
  <2> QED
    BY <2>5 DEF read
<1>3. jobs[j] # Idle
  BY DEF Idle
<1>4. CASE Restart
  BY <1>4 DEF Restart, Load
<1>5. CASE LoadSamples(j)
  BY <1>2, <1>5 DEF LoadSamples, Load
<1>6. \A m : Overtaking(m)[j].op = "reload"
  BY <1>1 DEF Overtaking, Reloading
<1>7. ASSUME NEW k \in Jobs, NEW m \in Asked, NEW ty \in Types,
             WriteSample(k, m, ty) \/ UnlearnSample(k, m, ty)
               \/ UnlearnInVain(k, m, ty)
      PROVE  FALSE
  <2>1. CASE UnlearnInVain(k, m, ty)
    BY <1>3, <2>1 DEF UnlearnInVain
  <2>2. CASE WriteSample(k, m, ty)
    <3>1. k # j
      BY <1>3, <2>2 DEF WriteSample
    <3>2. jobs'[j] = Overtaking(m)[j]
      BY <2>2, <3>1 DEF WriteSample, Overtaking
    <3> QED
      BY <1>6, <3>2 DEF Idle
  <2>3. CASE UnlearnSample(k, m, ty)
    <3>1. k # j
      BY <1>3, <2>3 DEF UnlearnSample
    <3> QED
      BY <1>1, <1>3, <2>3, <3>1 DEF UnlearnSample
  <2> QED
    BY <1>7, <2>1, <2>2, <2>3
<1>8. ASSUME NEW k \in Jobs, DeleteMessage(k)
      PROVE  FALSE
  <2>1. k # j
    BY <1>8 DEF DeleteMessage
  <2>2. jobs'[j] = Overtaking(jobs[k].msg)[j]
    BY <1>8, <2>1 DEF DeleteMessage, Overtaking
  <2> QED
    BY <1>6, <2>2 DEF Idle
<1>9. ASSUME NEW k \in Jobs,
             LearnSample(k) \/ DeleteFails(k) \/ ReloadSamples(k) \/ Reader(k)
               \/ ReaderFails(k) \/ (k # j /\ LoadSamples(k))
      PROVE  FALSE
  <2>1. \E q : jobs' = [jobs EXCEPT ![k] = q] /\ (k = j => q.op = "reload")
    <3>1. CASE Reader(k)
      <4> DEFINE q == [jobs[k] EXCEPT !.read =
                         Append(@, Stored(Readers[Len(jobs[k].read) + 1][1],
                                          Readers[Len(jobs[k].read) + 1][2]))]
      <4>1. k # j
        BY <3>1 DEF Reader
      <4>2. jobs' = [jobs EXCEPT ![k] = q]
        BY <3>1 DEF Reader
      <4> QED
        BY <4>1, <4>2
    <3>2. CASE k # j /\ LoadSamples(k)
      BY <3>2 DEF LoadSamples
    <3>3. CASE LearnSample(k)
      BY <3>3 DEF LearnSample
    <3>4. CASE DeleteFails(k)
      BY <3>4 DEF DeleteFails
    <3>5. CASE ReloadSamples(k)
      BY <1>3, <3>5 DEF ReloadSamples
    <3>6. CASE ReaderFails(k)
      <4>1. k # j
        BY <3>6 DEF ReaderFails
      <4>2. jobs' = [jobs EXCEPT ![k] = Idle]
        BY <3>6 DEF ReaderFails
      <4> QED
        BY <4>1, <4>2
    <3> QED
      BY <1>9, <3>1, <3>2, <3>3, <3>4, <3>5, <3>6
  <2> QED
    BY <1>1, <1>3, <2>1 DEF Idle
<1>10. CASE UNCHANGED vars
  BY <1>3, <1>10 DEF vars
<1> QED
  BY <1>4, <1>5, <1>7, <1>8, <1>9, <1>10 DEF Next

(* A reload that nothing came into leaves what the table says and nothing  *)
(* of what was learned before, although it opens its readers one by one    *)
(* beside other requests (spam.go, ReloadSamples; detector.go,             *)
(* LoadSamples).                                                           *)
THEOREM ReloadsExact == Spec => ReloadIsExact
<1>1. IInv /\ [Next]_vars =>
        [\A j \in Jobs :
           /\ jobs[j].op = "reload" /\ jobs'[j] = Idle
           /\ Len(jobs[j].read) = 4 /\ jobs[j].late = {}
           => cls' = Trained(Current) /\ similar' = Current[1] \cup Current[3]]_vars
  BY ReloadEnds
<1> QED
  BY <1>1, Inductive, PTL DEF Spec, ReloadIsExact

=============================================================================
