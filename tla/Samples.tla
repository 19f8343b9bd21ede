------------------------------ MODULE Samples ------------------------------
(***************************************************************************)
(* The spam and ham samples: the table (app/storage/samples.go), the model *)
(* learned from it that the detectors of all chats and of the web UI share *)
(* (lib/tgspam/samples_model.go, classifier.go), and the operations that   *)
(* change both (detector.go, app/bot/spam.go).                             *)
(*                                                                         *)
(* An update writes the table first and learns under the lock of the model *)
(* afterwards; a removal unlearns and deletes under that lock; a reload    *)
(* opens one reader after the other without it and replaces the model      *)
(* under it.  The listener and any number of web requests do so at a time: *)
(* Jobs.  The model counts words, not samples.                             *)
(***************************************************************************)
EXTENDS Integers, FiniteSets, Sequences

CONSTANTS
  Messages,    \* the samples
  Tokens,      \* the words they are made of
  Has,         \* the words of each sample
  Presets,     \* the samples the bot comes with, and the class of each
  Asked,       \* the samples that are asked to be updated and removed
  Jobs,        \* what runs at a time: the listener and web requests
  MayFail,     \* the operations on the table that may fail
  MaxCopies,   \* bound on how often a sample is learned
  MaxDamaged   \* bound on the words wrongly taken away between two reloads

Types == {"spam", "ham"}
Origins == {"preset", "user"}

ASSUME SamplesAssumption ==
  /\ IsFiniteSet(Messages) /\ IsFiniteSet(Tokens)
  /\ Has \in [Messages -> SUBSET Tokens]
  /\ DOMAIN Presets \subseteq Messages
  /\ \A m \in DOMAIN Presets : Presets[m] \in Types
  /\ \A ty \in Types : \E m \in DOMAIN Presets : Presets[m] = ty
  /\ Asked \subseteq Messages
  /\ MayFail \subseteq {"read", "delete"}
  /\ MaxCopies \in Nat /\ MaxDamaged \in Nat

VARIABLES
  table,      \* the row of each sample, or NoRow
  cls,        \* the counts of the classifier
  similar,    \* the spam samples the similarity check compares with
  jobs,       \* what each job is in the middle of
  learned,    \* history: how often each sample is part of the counts
  damaged,    \* history: words that removals took away from other samples
  overtaken   \* history: samples written while the last reload was under way

vars == <<table, cls, similar, jobs, learned, damaged, overtaken>>

-----------------------------------------------------------------------------
(* The table: a sample is there once, in one class.                        *)

NoRow == [type |-> "none", origin |-> "none"]

Row(ty, o) == [type |-> ty, origin |-> o]

Stored(ty, o) == {m \in Messages : table[m] = Row(ty, o)}

Idle == [op |-> "idle"]

(* The readers of ReloadSamples, in the order they are opened. *)
Readers == << <<"spam", "preset">>, <<"ham", "preset">>,
              <<"spam", "user">>,   <<"ham", "user">> >>

(* A removal keeps the lock of the model while it deletes the row. *)
Unlocked == \A j \in Jobs : jobs[j].op # "remove"

-----------------------------------------------------------------------------
(* The classifier: documents in all and per class, words per class, and    *)
(* the count of each word per class.                                       *)

Untrained ==
  [all   |-> 0,
   docs  |-> [ty \in Types |-> 0],
   words |-> [ty \in Types |-> 0],
   tok   |-> [ty \in Types |-> [t \in Tokens |-> 0]]]

One(condition) == IF condition THEN 1 ELSE 0

Learn(c, m, ty) ==
  [all   |-> c.all + 1,
   docs  |-> [c.docs EXCEPT ![ty] = @ + 1],
   words |-> [c.words EXCEPT ![ty] = @ + Cardinality(Has[m])],
   tok   |-> [c.tok EXCEPT ![ty] =
                [t \in Tokens |-> @[t] + One(t \in Has[m])]]]

(* The documents of a class among what the four readers returned: a sample *)
(* that moved between two readers is there twice.                          *)
Documents(read, ty) ==
  {x \in (1 .. 4) \X Messages : Readers[x[1]][1] = ty /\ x[2] \in read[x[1]]}

(* Learning them all, from nothing. *)
Trained(read) ==
  [all   |-> Cardinality(Documents(read, "spam"))
               + Cardinality(Documents(read, "ham")),
   docs  |-> [ty \in Types |-> Cardinality(Documents(read, ty))],
   words |-> [ty \in Types |->
                Cardinality({x \in Documents(read, ty) \X Tokens :
                               x[2] \in Has[x[1][2]]})],
   tok   |-> [ty \in Types |-> [t \in Tokens |->
                Cardinality({x \in Documents(read, ty) : t \in Has[x[2]]})]]]

(* unlearn takes the words in no particular order and gives up at the      *)
(* first one it cannot take, leaving the counts as they are by then: after *)
(* the words "gone", and in the second case after the word total for the   *)
(* next word too.                                                          *)
TakeAway(c, ty, gone, total) ==
  [all   |-> c.all - 1,
   docs  |-> [c.docs EXCEPT ![ty] = @ - 1],
   words |-> [c.words EXCEPT ![ty] = total],
   tok   |-> [c.tok EXCEPT ![ty] = [t \in Tokens |-> @[t] - One(t \in gone)]]]

(* Mutant: the counts of the words are not looked at. *)
KnownUnchecked(c, m, ty) == Has[m]

Known(c, m, ty) == {t \in Has[m] : c.tok[ty][t] > 0}

(* The counts unlearn may leave when it gives up. *)
GivenUp(c, m, ty) ==
  IF c.all = 0 THEN {c}
  ELSE IF c.docs[ty] = 0 THEN {[c EXCEPT !.all = @ - 1]}
  ELSE {TakeAway(c, ty, gone, 0) :
          gone \in {s \in SUBSET Known(c, m, ty) :
                      Cardinality(s) = c.words[ty] /\ s # Has[m]}}
       \cup
       {TakeAway(c, ty, gone, c.words[ty] - Cardinality(gone) - 1) :
          gone \in {s \in SUBSET Known(c, m, ty) :
                      Cardinality(s) < c.words[ty]
                      /\ Known(c, m, ty) # Has[m]}}

(* unlearn goes through; the last document takes the word total along. *)
CanUnlearn(c, m, ty) ==
  /\ c.docs[ty] > 0 /\ c.all > 0
  /\ Known(c, m, ty) = Has[m]
  /\ c.words[ty] >= Cardinality(Has[m])

Unlearnt(c, m, ty) ==
  TakeAway(c, ty, Has[m],
           IF c.docs[ty] = 1 THEN 0 ELSE c.words[ty] - Cardinality(Has[m]))

-----------------------------------------------------------------------------
PresetRow(m) == IF m \in DOMAIN Presets THEN Row(Presets[m], "preset") ELSE NoRow

(* What a reload on its own would read. *)
Current == [i \in 1 .. 4 |-> Stored(Readers[i][1], Readers[i][2])]

(* How often each sample is in what the readers returned. *)
Times(read) ==
  [ty \in Types |-> [m \in Messages |->
     Cardinality({x \in Documents(read, ty) : x[2] = m})]]

(* Mutant: the reset forgets the total. *)
LoadKeepingTotal(read) ==
  /\ cls' = [Trained(read) EXCEPT !.all = @ + cls.all]
  /\ similar' = read[1] \cup read[3]
  /\ learned' = Times(read)
  /\ damaged' = {}

(* The whole model is replaced by what was read. *)
Load(read) ==
  /\ cls' = Trained(read)
  /\ similar' = read[1] \cup read[3]
  /\ learned' = Times(read)
  /\ damaged' = {}

Init ==
  /\ table = [m \in Messages |-> PresetRow(m)]
  /\ cls = Trained(Current)
  /\ similar = Stored("spam", "preset")
  /\ jobs = [j \in Jobs |-> Idle]
  /\ learned = Times(Current)
  /\ damaged = {}
  /\ overtaken = {}

(* The bot starts again: its jobs are gone, the model is read afresh.  It  *)
(* does not start without presets of both classes.                         *)
Restart ==
  /\ \A ty \in Types : Stored(ty, "preset") # {}
  /\ Load(Current)
  /\ jobs' = [j \in Jobs |-> Idle]
  /\ overtaken' = {}
  /\ UNCHANGED table

(* Reloads under way learn that m was written or deleted meanwhile. *)
Overtaking(m) ==
  [j \in Jobs |-> IF jobs[j].op = "reload"
                  THEN [jobs[j] EXCEPT !.late = @ \cup {m}] ELSE jobs[j]]

-----------------------------------------------------------------------------
(* updateSample: the row is written, INSERT OR REPLACE in user origin; if  *)
(* that fails nothing happens.                                             *)
WriteSample(j, m, ty) ==
  /\ jobs[j] = Idle
  /\ learned[ty][m] < MaxCopies
  /\ table' = [table EXCEPT ![m] = Row(ty, "user")]
  /\ jobs' = [Overtaking(m) EXCEPT
                ![j] = [op |-> "update", msg |-> m, type |-> ty]]
  /\ UNCHANGED <<cls, similar, learned, damaged, overtaken>>

(* Then it is learned, again if it was before. *)
LearnSample(j) ==
  /\ jobs[j].op = "update"
  /\ Unlocked
  /\ LET m  == jobs[j].msg
         ty == jobs[j].type
     IN /\ cls' = Learn(cls, m, ty)
        /\ similar' = IF ty = "spam" THEN similar \cup {m} ELSE similar
        /\ learned' = [learned EXCEPT ![ty][m] = @ + 1]
        /\ overtaken' = IF table[m].type = ty THEN overtaken \ {m}
                                              ELSE overtaken
  /\ jobs' = [jobs EXCEPT ![j] = Idle]
  /\ UNCHANGED <<table, damaged>>

-----------------------------------------------------------------------------
(* removeSample.  Any text may be asked to be removed, from either class.  *)

Words(m, ty) == {ty} \X Has[m]

(* The words of the sample are taken from the class ... *)
UnlearnSample(j, m, ty) ==
  /\ jobs[j] = Idle
  /\ Unlocked
  /\ CanUnlearn(cls, m, ty)
  /\ learned[ty][m] > 0 \/ Cardinality(damaged) <= MaxDamaged
  /\ LET own == learned[ty][m] > 0
     IN /\ cls' = Unlearnt(cls, m, ty)
        /\ jobs' = [jobs EXCEPT ![j] = [op |-> "remove", msg |-> m,
                                        type |-> ty, own |-> own]]
        /\ learned' = [learned EXCEPT ![ty][m] = IF own THEN @ - 1 ELSE 0]
        /\ damaged' = IF own THEN damaged ELSE damaged \cup Words(m, ty)
  /\ UNCHANGED <<table, similar, overtaken>>

(* ... or some of them, when they are not all there: the request fails. *)
UnlearnInVain(j, m, ty) ==
  /\ jobs[j] = Idle
  /\ Unlocked
  /\ ~CanUnlearn(cls, m, ty)
  /\ Cardinality(damaged) <= MaxDamaged
  /\ cls' \in GivenUp(cls, m, ty)
  /\ damaged' = damaged \cup Words(m, ty)
  /\ UNCHANGED <<table, similar, jobs, learned, overtaken>>

(* The row is deleted, whatever its class and origin ... *)
DeleteMessage(j) ==
  /\ jobs[j].op = "remove"
  /\ table[jobs[j].msg] # NoRow
  /\ table' = [table EXCEPT ![jobs[j].msg] = NoRow]
  /\ jobs' = [Overtaking(jobs[j].msg) EXCEPT ![j] = Idle]
  /\ UNCHANGED <<cls, similar, learned, damaged, overtaken>>

(* Mutant: the failure is only reported. *)
DeleteFailsUnnoticed(j) ==
  /\ jobs[j].op = "remove"
  /\ table[jobs[j].msg] = NoRow \/ "delete" \in MayFail
  /\ jobs' = [jobs EXCEPT ![j] = Idle]
  /\ UNCHANGED <<table, cls, similar, learned, damaged, overtaken>>

(* ... or, if there is none or the deletion fails, the sample is learned   *)
(* again.                                                                  *)
DeleteFails(j) ==
  /\ jobs[j].op = "remove"
  /\ table[jobs[j].msg] = NoRow \/ "delete" \in MayFail
  /\ cls' = Learn(cls, jobs[j].msg, jobs[j].type)
  /\ learned' = [learned EXCEPT ![jobs[j].type][jobs[j].msg] =
                    @ + One(jobs[j].own)]
  /\ jobs' = [jobs EXCEPT ![j] = Idle]
  /\ UNCHANGED <<table, similar, damaged, overtaken>>

-----------------------------------------------------------------------------
(* ReloadSamples.  It is refused without presets of both classes.          *)
ReloadSamples(j) ==
  /\ jobs[j] = Idle
  /\ \A ty \in Types : Stored(ty, "preset") # {}
  /\ jobs' = [jobs EXCEPT ![j] = [op |-> "reload", read |-> << >>, late |-> {}]]
  /\ UNCHANGED <<table, cls, similar, learned, damaged, overtaken>>

(* The next reader is opened. *)
Reader(j) ==
  /\ jobs[j].op = "reload"
  /\ Len(jobs[j].read) < 4
  /\ LET r == Readers[Len(jobs[j].read) + 1]
     IN jobs' = [jobs EXCEPT ![j].read = Append(@, Stored(r[1], r[2]))]
  /\ UNCHANGED <<table, cls, similar, learned, damaged, overtaken>>

ReaderFails(j) ==
  /\ "read" \in MayFail
  /\ jobs[j].op = "reload"
  /\ Len(jobs[j].read) < 4
  /\ jobs' = [jobs EXCEPT ![j] = Idle]
  /\ UNCHANGED <<table, cls, similar, learned, damaged, overtaken>>

LoadSamples(j) ==
  /\ jobs[j].op = "reload"
  /\ Len(jobs[j].read) = 4
  /\ Unlocked
  /\ Load(jobs[j].read)
  /\ overtaken' = jobs[j].late
  /\ jobs' = [jobs EXCEPT ![j] = Idle]
  /\ UNCHANGED table

-----------------------------------------------------------------------------
Next ==
  \/ Restart
  \/ \E j \in Jobs :
       \/ \E m \in Asked, ty \in Types :
            \/ WriteSample(j, m, ty)
            \/ UnlearnSample(j, m, ty)
            \/ UnlearnInVain(j, m, ty)
       \/ LearnSample(j)
       \/ DeleteMessage(j)
       \/ DeleteFails(j)
       \/ ReloadSamples(j)
       \/ Reader(j)
       \/ ReaderFails(j)
       \/ LoadSamples(j)

Spec == Init /\ [][Next]_vars

-----------------------------------------------------------------------------
(* All variables keep their types; no count ever goes below zero. *)
TypeOK ==
  /\ table \in [Messages -> [type : Types, origin : Origins] \cup {NoRow}]
  /\ cls \in [all   : Nat,
              docs  : [Types -> Nat],
              words : [Types -> Nat],
              tok   : [Types -> [Tokens -> Nat]]]
  /\ similar \in SUBSET Messages
  /\ jobs \in [Jobs ->
       {Idle}
       \cup [op : {"update"}, msg : Messages, type : Types]
       \cup [op : {"remove"}, msg : Messages, type : Types, own : BOOLEAN]
       \cup [op : {"reload"}, read : Seq(SUBSET Messages),
             late : SUBSET Messages]]
  /\ learned \in [Types -> [Messages -> Nat]]
  /\ damaged \in SUBSET (Types \X Tokens)
  /\ overtaken \in SUBSET Messages

(* Nobody is in the middle of updating or removing m. *)
AtRest(m) == \A j \in Jobs : jobs[j].op \in {"update", "remove"} => jobs[j].msg # m

Settled(ty) ==
  {m \in Messages \ overtaken : table[m].type = ty /\ AtRest(m)}

(* What is stored is known: the classifier counts the words of every       *)
(* stored sample, and the similarity check knows every stored spam sample, *)
(* through every interleaving of updates, removals, failed removals,       *)
(* reloads and restarts.  Two exceptions are the code's: a sample written  *)
(* while a reload was reading is missed until the next one, and a removal  *)
(* of what was not learned takes its words from other samples.             *)
StoredIsKnown ==
  \A ty \in Types :
    /\ \A t \in Tokens : <<ty, t>> \notin damaged =>
         cls.tok[ty][t] >= Cardinality({m \in Settled(ty) : t \in Has[m]})
    /\ ty = "spam" => Settled(ty) \subseteq similar

(* A reload that no update and no removal came into leaves exactly what    *)
(* the table says, however wrong the counts were before.                   *)
ReloadIsExact ==
  [][\A j \in Jobs :
       /\ jobs[j].op = "reload" /\ jobs'[j] = Idle
       /\ Len(jobs[j].read) = 4 /\ jobs[j].late = {}
       => cls' = Trained(Current) /\ similar' = Current[1] \cup Current[3]]_vars

(* With samples of both classes stored and at rest the classifier is       *)
(* ready, that is has documents of both: a removal is validated first      *)
(* (detector.go, "first validate that we can unlearn this sample").        *)
ReadyWithSamples ==
  (\A ty \in Types : Settled(ty) # {}) => \A ty \in Types : cls.docs[ty] > 0

=============================================================================
