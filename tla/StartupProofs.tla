--------------------------- MODULE StartupProofs ---------------------------
(***************************************************************************)
(* Proofs about Startup, for any texts, versions, files and requests, and  *)
(* a process that ends anywhere: a copy from before the last upgrade is    *)
(* kept, files are imported once in effect, and the checks use the phrases *)
(* that are stored.                                                        *)
(***************************************************************************)
EXTENDS Startup, FiniteSetTheorems, WellFoundedInduction, TLAPS

-----------------------------------------------------------------------------
(* Least and greatest elements. *)

LEMMA LeastExists ==
  ASSUME NEW S \in SUBSET Nat, S # {}
  PROVE  \E n \in S : \A m \in S : n <= m
<1>1. \E x \in S : \A y \in S : ~(<<y, x>> \in OpToRel(<, Nat))
  BY NatLessThanWellFounded, WFMin, Zenon
<1>2. PICK x \in S : \A y \in S : ~(<<y, x>> \in OpToRel(<, Nat))
  BY <1>1
<1>3. \A y \in S : ~(y < x)
  BY <1>2 DEF OpToRel
<1> QED
  BY <1>3

LEMMA OldestIsLeast ==
  ASSUME NEW S \in SUBSET Nat, S # {}
  PROVE  Oldest(S) \in S /\ \A m \in S : Oldest(S) <= m
BY LeastExists DEF Oldest

LEMMA LastPlaceExists ==
  ASSUME NEW S \in SUBSET Places, S # {}
  PROVE  \E p \in S : \A q \in S : p >= q
<1> DEFINE after == {7 - p : p \in S}
<1>1. \A p \in S : p \in 1 .. 6
  BY DEF Places
<1>2. after \in SUBSET Nat /\ after # {}
  BY <1>1
<1>3. PICK n \in after : \A m \in after : n <= m
  BY <1>2, LeastExists
<1>4. PICK p \in S : n = 7 - p
  BY <1>3
<1>5. \A q \in S : 7 - q \in after
  OBVIOUS
<1>6. \A q \in S : 7 - p <= 7 - q
  BY <1>3, <1>4, <1>5
<1> QED
  BY <1>1, <1>6

-----------------------------------------------------------------------------
(* The inductive invariant, in parts by the variables they are about.      *)

Converts == {"enabled", "disabled", "only"}

Copying == [at : {"copy", "prune", "tables"}, version : Versions,
            convert : Converts]

Looking == [at : {"stat"}, convert : Converts, place : Places]

Loading == [at : {"load"}, convert : Converts, place : 1 .. 7]

Renaming == [at : {"rename"}, convert : Converts, place : Places,
             lines : SUBSET Texts]

ProcessOK ==
  \/ process = Down \/ process = [at |-> "up"]
  \/ process \in Copying \/ process \in Looking \/ process \in Loading
  \/ process \in Renaming

TableOK ==
  /\ table \in [Texts -> Places \cup {Nowhere}]
  /\ \A t \in Texts : table[t] # Nowhere =>
       (t \in Samples <=> table[t] \in SamplePlaces)

(* The lines of a file are of the table of its place. *)
Fits(place, lines) ==
  lines \subseteq (IF place \in SamplePlaces THEN Samples ELSE Phrases)

FilesOK ==
  /\ DOMAIN files \subseteq Places
  /\ \A p \in DOMAIN files : files[p] = Bad \/ Fits(p, files[p])

(* Between the import of a file and its renaming the table has its lines   *)
(* at its place and nothing else, and a file is still there.               *)
ImportedOK ==
  process.at = "rename" =>
    /\ process.place \in DOMAIN files /\ process.lines # Bad
    /\ \A t \in Texts : table[t] = process.place <=> t \in process.lines

(* Copies are made of the tables as they were, of one version at most      *)
(* once, and what pruning removes is older than what it leaves.            *)
BackupsOK ==
  /\ schema \in Versions \cup {0}
  /\ DOMAIN backups \subseteq Versions
  /\ \A v \in DOMAIN backups : backups[v].schema \in Nat
                               /\ backups[v].schema <= schema
  /\ process.at = "copy" => process.version \notin DOMAIN backups
  /\ MaxBackups > 0 /\ process.at \in {"prune", "tables"} =>
       \E v \in DOMAIN backups : v >= process.version

ChecksOK ==
  /\ stops \subseteq Phrases /\ excluded \subseteq Phrases
  /\ doubtful \in [PhrasePlaces -> SUBSET Phrases]
  /\ inputs \in 0 .. MaxInputs

(* What a reload has read is what is stored, but for what was changed      *)
(* since.                                                                  *)
ReloadOK(tab, r) ==
  /\ r = [op |-> r.op, read |-> r.read, late |-> r.late]
  /\ \/ r.op = "read" /\ r.read = << >>
     \/ r.op = "read" /\ DOMAIN r.read = {StopPhrase}
     \/ r.op \in {"load", "stops"} /\ DOMAIN r.read = PhrasePlaces
  /\ r.late \in [PhrasePlaces -> SUBSET Phrases]
  /\ \A p \in DOMAIN r.read :
       /\ r.read[p] \subseteq Phrases
       /\ \A t \in Phrases \ r.late[p] : t \in r.read[p] <=> tab[t] = p

JobsOK ==
  /\ jobs = [j \in Jobs |-> jobs[j]]
  /\ \A j \in Jobs : jobs[j] = Idle \/ (Up /\ ReloadOK(table, jobs[j]))

IInv == /\ ProcessOK /\ TableOK /\ FilesOK /\ ImportedOK /\ BackupsOK
        /\ ChecksOK /\ JobsOK
        /\ UpgradeCanBeUndone /\ PhrasesInEffect

-----------------------------------------------------------------------------
(* What a step leaves alone stays right. *)

LEMMA KeptTable ==
  ASSUME TableOK, table' = table
  PROVE  TableOK'
BY DEF TableOK

LEMMA KeptFiles ==
  ASSUME FilesOK, files' = files
  PROVE  FilesOK'
BY DEF FilesOK

LEMMA KeptChecks ==
  ASSUME ChecksOK, UNCHANGED checks, inputs' = inputs
  PROVE  ChecksOK'
BY DEF ChecksOK, checks

(* A start has no requests, and nothing the checks use yet. *)
LEMMA NotUp ==
  ASSUME JobsOK, ~Up, ~Up', jobs' = jobs
  PROVE  JobsOK' /\ PhrasesInEffect'
BY DEF JobsOK, PhrasesInEffect

LEMMA SameSchema ==
  ASSUME BackupsOK, UpgradeCanBeUndone, schema' = schema, backups' = backups
  PROVE  UpgradeCanBeUndone'
BY DEF UpgradeCanBeUndone

(* Anywhere but in a copy and before the tables are made. *)
LEMMA SameBackups ==
  ASSUME BackupsOK, schema' = schema, backups' = backups,
         process'.at \notin {"copy", "prune", "tables"}
  PROVE  BackupsOK'
BY DEF BackupsOK

LEMMA VersionTypes ==
  ASSUME BackupsOK
  PROVE  /\ schema \in Nat /\ DOMAIN backups \in SUBSET Nat
         /\ IsFiniteSet(DOMAIN backups) /\ MaxBackups \in Nat
         /\ \A v \in Versions : v \in Nat /\ v > 0
<1>1. Versions \in SUBSET Nat /\ \A v \in Versions : v > 0
  BY StartupAssumption
<1>2. IsFiniteSet(DOMAIN backups)
  BY StartupAssumption, FS_Subset DEF BackupsOK
<1>3. MaxBackups \in Nat
  BY StartupAssumption
<1>4. schema \in Versions \cup {0} /\ DOMAIN backups \subseteq Versions
  BY DEF BackupsOK
<1>5. schema \in Nat
  BY <1>1, <1>4
<1>6. DOMAIN backups \in SUBSET Nat
  BY <1>1, <1>4
<1> QED
  BY <1>1, <1>2, <1>3, <1>5, <1>6
(* Where a start is says what its record has. *)
LEMMA ProcessAt ==
  ASSUME ProcessOK
  PROVE  /\ process.at \in {"copy", "prune", "tables"} => process \in Copying
         /\ process.at = "stat" => process \in Looking
         /\ process.at = "load" => process \in Loading
         /\ process.at = "rename" => process \in Renaming
         /\ process = Down => process.at = "down"
         /\ Up => process = [at |-> "up"]
BY DEF ProcessOK, Copying, Looking, Loading, Renaming, Down, Up

-----------------------------------------------------------------------------
(* The copy of the database. *)

LEMMA BackupDBStep ==
  ASSUME IInv, NEW version \in Versions, NEW convert \in Converts,
         BackupDB(version, convert)
  PROVE  IInv'
<1>1. /\ process = Down
      /\ process' = [at |-> IF MaxBackups = 0 \/ version \in DOMAIN backups
                            THEN "tables" ELSE "copy",
                     version |-> version, convert |-> convert]
      /\ UNCHANGED <<table, schema, files, backups, checks, jobs, inputs>>
  BY DEF BackupDB, data
<1>2. /\ process' \in Copying /\ process'.at \in {"copy", "tables"}
      /\ process'.version = version
      /\ process'.at = "copy" => version \notin DOMAIN backups
      /\ process'.at = "tables" => MaxBackups = 0 \/ version \in DOMAIN backups
  BY <1>1 DEF Copying
<1>3. ~Up /\ ~Up'
  BY <1>1, <1>2 DEF Up, Down
<1>4. version \in Nat
  BY VersionTypes DEF IInv
<1>5. BackupsOK'
  BY <1>1, <1>2, <1>4 DEF IInv, BackupsOK
<1>6. ImportedOK' /\ ProcessOK'
  BY <1>2 DEF ImportedOK, ProcessOK
<1> QED
  BY <1>1, <1>3, <1>5, <1>6, KeptTable, KeptFiles, KeptChecks, NotUp, SameSchema
     DEF IInv

(* A new copy is of no version that had one: what it is of was covered by  *)
(* a newer version already.                                                *)
LEMMA NewCopy ==
  ASSUME BackupsOK, UpgradeCanBeUndone, schema' = schema,
         NEW v \in Versions \ DOMAIN backups, NEW copy,
         copy.schema \in Nat, copy.schema <= schema,
         backups' = With(backups, v, copy)
  PROVE  /\ UpgradeCanBeUndone'
         /\ DOMAIN backups' \subseteq Versions /\ v \in DOMAIN backups'
         /\ \A w \in DOMAIN backups' : backups'[w].schema \in Nat
                                       /\ backups'[w].schema <= schema
<1>1. /\ DOMAIN backups' = DOMAIN backups \cup {v} /\ backups'[v] = copy
      /\ \A w \in DOMAIN backups : backups'[w] = backups[w]
  BY DEF With
<1>2. /\ DOMAIN backups' \subseteq Versions
      /\ \A w \in DOMAIN backups' : backups'[w].schema \in Nat
                                    /\ backups'[w].schema <= schema
  BY <1>1 DEF BackupsOK
<1>3. UpgradeCanBeUndone'
  <2> SUFFICES ASSUME MaxBackups > 0, schema > 0,
                      \A w \in DOMAIN backups' : w <= schema
               PROVE  /\ schema \in DOMAIN backups'
                      /\ backups'[schema].whole => backups'[schema].schema < schema
    BY DEF UpgradeCanBeUndone
  <2>1. \A w \in DOMAIN backups : w <= schema
    BY <1>1
  <2>2. /\ schema \in DOMAIN backups
        /\ backups[schema].whole => backups[schema].schema < schema
    BY <2>1 DEF UpgradeCanBeUndone
  <2> QED
    BY <1>1, <2>2
<1> QED
  BY <1>1, <1>2, <1>3

LEMMA CopyFileStep ==
  ASSUME IInv, NEW whole \in BOOLEAN, CopyFile(whole)
  PROVE  IInv'
<1> DEFINE copy == IF whole THEN [schema |-> schema, whole |-> TRUE] ELSE Torn
<1>1. /\ process.at = "copy" /\ backups' = With(backups, process.version, copy)
      /\ process' = IF whole THEN [process EXCEPT !.at = "prune"] ELSE Down
      /\ UNCHANGED <<table, schema, files, checks, jobs, inputs>>
  BY DEF CopyFile, data
<1>2. process \in Copying /\ process.version \in Versions \ DOMAIN backups
  BY <1>1, ProcessAt DEF IInv, BackupsOK, Copying
<1>3. schema \in Nat /\ copy.schema \in Nat /\ copy.schema <= schema
  BY VersionTypes DEF IInv, Torn
<1> HIDE DEF copy
<1>4. /\ UpgradeCanBeUndone'
      /\ DOMAIN backups' \subseteq Versions /\ process.version \in DOMAIN backups'
      /\ \A w \in DOMAIN backups' : backups'[w].schema \in Nat
                                    /\ backups'[w].schema <= schema
  BY <1>1, <1>2, <1>3, NewCopy DEF IInv
<1>5. \/ process' = Down
      \/ /\ process' \in Copying /\ process'.at = "prune"
         /\ process'.version = process.version
  BY <1>1, <1>2 DEF Copying
<1>6. ~Up /\ ~Up' /\ process'.at \notin {"copy", "tables", "rename"}
  BY <1>1, <1>5 DEF Up, Down
<1>7. process.version \in Nat
  BY <1>2, VersionTypes DEF IInv
<1>8. BackupsOK'
  BY <1>1, <1>4, <1>5, <1>6, <1>7 DEF IInv, BackupsOK, Down
<1>9. ImportedOK' /\ ProcessOK'
  BY <1>5, <1>6 DEF ImportedOK, ProcessOK
<1> QED
  BY <1>1, <1>4, <1>6, <1>8, <1>9, KeptTable, KeptFiles, KeptChecks, NotUp
     DEF IInv

(* The oldest copy goes only when there is another, which is newer. *)
LEMMA RemoveOldestStep ==
  ASSUME IInv, NEW fails \in BOOLEAN, RemoveOldest(fails)
  PROVE  IInv'
<1> DEFINE old == Oldest(DOMAIN backups)
<1>1. /\ process.at = "prune" /\ Cardinality(DOMAIN backups) > MaxBackups
      /\ UNCHANGED <<table, schema, files, checks, jobs, inputs>>
      /\ \/ process' = Down /\ backups' = backups
         \/ process' = process /\ backups' = Without(backups, old)
  BY DEF RemoveOldest, data
<1>2. process'.at \in {"down", "prune"} /\ ~Up /\ ~Up' /\ ProcessOK'
  BY <1>1 DEF Up, Down, ProcessOK, IInv, Copying, Looking, Loading, Renaming
<1>3. ImportedOK'
  BY <1>2 DEF ImportedOK
<1>4. BackupsOK' /\ UpgradeCanBeUndone'
  <2>1. CASE process' = Down /\ backups' = backups
    BY <1>1, <2>1, SameBackups, SameSchema DEF IInv, Down
  <2>2. CASE process' = process /\ backups' = Without(backups, old)
    <3>1. /\ DOMAIN backups \in SUBSET Nat /\ IsFiniteSet(DOMAIN backups)
          /\ schema \in Nat /\ MaxBackups \in Nat
      BY VersionTypes DEF IInv
    <3>2. DOMAIN backups # {}
      BY <1>1, <3>1, FS_EmptySet
    <3>3. old \in DOMAIN backups /\ \A w \in DOMAIN backups : old <= w
      BY <3>1, <3>2, OldestIsLeast
    <3>4. /\ DOMAIN backups' = DOMAIN backups \ {old}
          /\ \A w \in DOMAIN backups' : backups'[w] = backups[w]
      BY <2>2 DEF Without
    <3>5. MaxBackups > 0 => \E w \in DOMAIN backups : w # old
      <4> SUFFICES ASSUME MaxBackups > 0, \A w \in DOMAIN backups : w = old
                   PROVE  FALSE
        OBVIOUS
      <4>1. DOMAIN backups = {old}
        BY <3>3
      <4>2. Cardinality(DOMAIN backups) = 1
        BY <4>1, FS_Singleton
      <4> QED
        BY <1>1, <3>1, <4>2
    <3> HIDE DEF old
    <3>6. MaxBackups > 0 => \E w \in DOMAIN backups' : w > old
      BY <3>1, <3>3, <3>4, <3>5
    (* Whatever had a copy as new as itself still has. *)
    <3>7. ASSUME NEW x \in Nat, MaxBackups > 0,
                 \E v \in DOMAIN backups : v >= x
          PROVE  \E v \in DOMAIN backups' : v >= x
      BY <3>1, <3>3, <3>4, <3>6, <3>7
    <3>8. BackupsOK'
      <4>1. process.version \in Nat
        BY <1>1, ProcessAt, VersionTypes DEF IInv, Copying
      <4>2. MaxBackups > 0 => \E v \in DOMAIN backups' : v >= process.version
        BY <1>1, <3>7, <4>1 DEF IInv, BackupsOK
      <4> QED
        BY <1>1, <2>2, <3>4, <4>2 DEF IInv, BackupsOK
    <3>9. UpgradeCanBeUndone'
      <4> SUFFICES ASSUME MaxBackups > 0, schema > 0,
                          \A w \in DOMAIN backups' : w <= schema
                   PROVE  /\ schema \in DOMAIN backups'
                          /\ backups'[schema].whole =>
                               backups'[schema].schema < schema
        BY <1>1 DEF UpgradeCanBeUndone
      <4>1. old < schema
        BY <3>1, <3>3, <3>4, <3>6
      <4>2. \A w \in DOMAIN backups : w <= schema
        BY <3>1, <3>3, <3>4, <4>1
      <4>3. /\ schema \in DOMAIN backups
            /\ backups[schema].whole => backups[schema].schema < schema
        BY <4>2 DEF IInv, UpgradeCanBeUndone
      <4> QED
        BY <3>1, <3>3, <3>4, <4>1, <4>3
    <3> QED
      BY <3>8, <3>9
  <2> QED
    BY <1>1, <2>1, <2>2
<1> QED
  BY <1>1, <1>2, <1>3, <1>4, KeptTable, KeptFiles, KeptChecks, NotUp DEF IInv

LEMMA PrunedStep == ASSUME IInv, Pruned PROVE IInv'
<1>1. /\ process.at = "prune" /\ process' = [process EXCEPT !.at = "tables"]
      /\ UNCHANGED <<table, schema, files, backups, checks, jobs, inputs>>
  BY DEF Pruned, GoTo, data
<1>2. /\ process' \in Copying /\ process'.at = "tables"
      /\ process'.version = process.version
  BY <1>1, ProcessAt DEF IInv, Copying
<1>3. ~Up /\ ~Up' /\ ProcessOK' /\ ImportedOK'
  BY <1>1, <1>2 DEF Up, ProcessOK, ImportedOK
<1>4. BackupsOK'
  BY <1>1, <1>2 DEF IInv, BackupsOK
<1> QED
  BY <1>1, <1>3, <1>4, KeptTable, KeptFiles, KeptChecks, NotUp, SameSchema
     DEF IInv

(* A pass begins at the first file, or with the loading. *)
LEMMA PassType ==
  ASSUME NEW convert \in Converts
  PROVE  Pass(convert) \in Looking \/ Pass(convert) \in Loading
BY DEF Pass, Looking, Loading, Places

(* The tables change for a version that is newer than all that changed     *)
(* them, and its copy, if it is the newest, is from before.                *)
LEMMA InitTableStep == ASSUME IInv, InitTable PROVE IInv'
<1>1. /\ process.at = "tables"
      /\ schema' = IF process.version > schema THEN process.version ELSE schema
      /\ process' = Pass(process.convert)
      /\ UNCHANGED <<table, files, backups, checks, jobs, inputs>>
  BY DEF InitTable
<1>2. process \in Copying
  BY <1>1, ProcessAt DEF IInv
<1>3. process' \in Looking \/ process' \in Loading
  BY <1>1, <1>2, PassType DEF Copying
<1>4. /\ ~Up /\ ~Up' /\ ProcessOK' /\ ImportedOK'
      /\ process'.at \notin {"copy", "prune", "tables"}
  BY <1>1, <1>3 DEF Up, ProcessOK, ImportedOK, Looking, Loading
<1>5. /\ schema \in Nat /\ DOMAIN backups \in SUBSET Nat /\ MaxBackups \in Nat
      /\ process.version \in Versions /\ process.version \in Nat
  BY <1>2, VersionTypes DEF IInv, Copying
<1>6. schema' \in Versions \cup {0} /\ schema' >= schema /\ schema' \in Nat
  BY <1>1, <1>5 DEF IInv, BackupsOK
<1>7. BackupsOK'
  <2>1. \A v \in DOMAIN backups : /\ backups[v].schema \in Nat
                                  /\ backups[v].schema <= schema
    BY DEF IInv, BackupsOK
  <2>2. \A v \in DOMAIN backups : backups[v].schema <= schema'
    BY <1>5, <1>6, <2>1
  <2> QED
    BY <1>1, <1>4, <1>6, <2>1, <2>2 DEF IInv, BackupsOK
<1>8. UpgradeCanBeUndone'
  <2>1. CASE schema' = schema
    BY <1>1, <2>1, SameSchema DEF IInv
  <2>2. CASE schema' # schema
    <3>1. schema' = process.version /\ schema < process.version
      BY <1>1, <2>2
    <3> SUFFICES ASSUME MaxBackups > 0,
                        \A w \in DOMAIN backups : w <= process.version
                 PROVE  /\ process.version \in DOMAIN backups
                        /\ backups[process.version].schema < process.version
      BY <1>1, <3>1 DEF UpgradeCanBeUndone
    <3>2. process.version \in DOMAIN backups
      BY <1>1, <1>5 DEF IInv, BackupsOK
    <3> QED
      BY <1>5, <3>1, <3>2 DEF IInv, BackupsOK
  <2> QED
    BY <2>1, <2>2
<1> QED
  BY <1>1, <1>4, <1>7, <1>8, KeptTable, KeptFiles, KeptChecks, NotUp DEF IInv
-----------------------------------------------------------------------------
(* The import of the files. *)

(* The start goes on to the next place, and says nothing about copies or   *)
(* imports any more.                                                       *)
LEMMA NextPlaceStep ==
  ASSUME process \in Looking \/ process \in Renaming, NextPlace
  PROVE  /\ ~Up' /\ ProcessOK' /\ ImportedOK'
         /\ process'.at \notin {"copy", "prune", "tables"}
<1>1. process.place \in 1 .. 6 /\ process.convert \in Converts
  BY DEF Looking, Renaming, Places
<1>2. process' = [at |-> IF process.place = 6 THEN "load" ELSE "stat",
                  convert |-> process.convert, place |-> process.place + 1]
  BY DEF NextPlace
<1>3. CASE process.place = 6
  <2>1. process' \in Loading
    BY <1>1, <1>2, <1>3 DEF Loading
  <2> QED
    BY <2>1 DEF ProcessOK, ImportedOK, Loading, Up
<1>4. CASE process.place # 6
  <2>1. process.place + 1 \in Places
    BY <1>1, <1>4 DEF Places
  <2>2. process' \in Looking
    BY <1>1, <1>2, <1>4, <2>1 DEF Looking
  <2> QED
    BY <2>2 DEF ProcessOK, ImportedOK, Looking, Up
<1> QED
  BY <1>3, <1>4

LEMMA NoFileStep == ASSUME IInv, NoFile PROVE IInv'
<1>1. /\ process.at = "stat" /\ NextPlace
      /\ UNCHANGED <<table, schema, files, backups, checks, jobs, inputs>>
  BY DEF NoFile, data
<1>2. process \in Looking /\ ~Up
  BY <1>1, ProcessAt DEF IInv, Up
<1>3. /\ ~Up' /\ ProcessOK' /\ ImportedOK'
      /\ process'.at \notin {"copy", "prune", "tables"}
  BY <1>1, <1>2, NextPlaceStep
<1> QED
  BY <1>1, <1>2, <1>3, KeptTable, KeptFiles, KeptChecks, NotUp, SameSchema,
     SameBackups DEF IInv

(* The process is down, from a start: nothing else changed. *)
LEMMA GivesUp ==
  ASSUME IInv, ~Up, Ends,
         UNCHANGED <<table, schema, files, backups, jobs, inputs>>
  PROVE  IInv'
<1>1. /\ ~Up' /\ ProcessOK' /\ ImportedOK'
      /\ process'.at \notin {"copy", "prune", "tables"}
  BY DEF Ends, Up, Down, ProcessOK, ImportedOK
<1>2. ChecksOK'
  BY DEF Ends, IInv, ChecksOK
<1> QED
  BY <1>1, <1>2, KeptTable, KeptFiles, NotUp, SameSchema, SameBackups DEF IInv

(* What an import makes of the table, for lines of its place. *)
LEMMA ImportedTable ==
  ASSUME TableOK, NEW place \in Places, NEW lines, Fits(place, lines),
         table' = Imported(place, lines)
  PROVE  /\ TableOK'
         /\ \A t \in Texts : table'[t] = place <=> t \in lines
<1>1. \A t \in Texts : table'[t] = IF t \in lines THEN place
                                   ELSE IF table[t] = place THEN Nowhere ELSE table[t]
  BY DEF Imported
<1>2. Nowhere \notin Places
  BY DEF Places, Nowhere
<1>3. \A t \in lines : t \in Samples <=> place \in SamplePlaces
  BY StartupAssumption DEF Fits
<1>4. table' \in [Texts -> Places \cup {Nowhere}]
  BY DEF Imported, TableOK
<1>5. \A t \in Texts : table'[t] # Nowhere =>
        (t \in Samples <=> table'[t] \in SamplePlaces)
  BY <1>1, <1>3 DEF TableOK
<1> QED
  BY <1>1, <1>2, <1>4, <1>5 DEF TableOK

LEMMA ImportStep == ASSUME IInv, Import PROVE IInv'
<1> DEFINE lines == files[process.place]
<1>1. /\ process.at = "stat" /\ process.place \in DOMAIN files
      /\ UNCHANGED <<schema, files, backups, jobs, inputs>>
      /\ \/ lines = Bad /\ Ends /\ table' = table
         \/ /\ lines # Bad /\ UNCHANGED checks
            /\ table' = Imported(process.place, lines)
            /\ process' = [at |-> "rename", convert |-> process.convert,
                           place |-> process.place, lines |-> lines]
  BY DEF Import
<1>2. process \in Looking /\ ~Up
  BY <1>1, ProcessAt DEF IInv, Up
<1>3. CASE lines = Bad /\ Ends /\ table' = table
  BY <1>1, <1>2, <1>3, GivesUp
<1>4. CASE /\ lines # Bad /\ UNCHANGED checks
           /\ table' = Imported(process.place, lines)
           /\ process' = [at |-> "rename", convert |-> process.convert,
                          place |-> process.place, lines |-> lines]
  <2>1. process.place \in Places /\ process.convert \in Converts
    BY <1>2 DEF Looking
  <2>2. Fits(process.place, lines)
    BY <1>1, <1>4 DEF IInv, FilesOK
  <2>3. lines \in SUBSET Texts
    BY <2>2 DEF Fits, Texts
  <2>7. lines # Bad
    BY <1>4
  <2> HIDE DEF lines
  <2>4. TableOK' /\ \A t \in Texts : table'[t] = process.place <=> t \in lines
    BY <1>4, <2>1, <2>2, ImportedTable DEF IInv
  <2>5. /\ process' \in Renaming /\ process'.at = "rename"
        /\ process'.place = process.place /\ process'.lines = lines
    BY <1>4, <2>1, <2>3 DEF Renaming
  <2>6. ~Up' /\ ProcessOK' /\ ImportedOK'
    BY <1>1, <2>4, <2>5, <2>7 DEF Up, ProcessOK, ImportedOK
  <2> QED
    BY <1>1, <1>2, <1>4, <2>4, <2>5, <2>6, KeptFiles, KeptChecks, NotUp, SameSchema,
       SameBackups DEF IInv
<1> QED
  BY <1>1, <1>3, <1>4

LEMMA RenameStep ==
  ASSUME IInv, NEW fails \in BOOLEAN, Rename(fails)
  PROVE  IInv'
<1>1. /\ process.at = "rename"
      /\ UNCHANGED <<table, schema, backups, jobs, inputs>>
      /\ \/ Ends /\ files' = files
         \/ /\ NextPlace /\ files' = Without(files, process.place)
            /\ UNCHANGED checks
  BY DEF Rename, data
<1>2. process \in Renaming /\ ~Up
  BY <1>1, ProcessAt DEF IInv, Up
<1>3. CASE Ends /\ files' = files
  BY <1>1, <1>2, <1>3, GivesUp
<1>4. CASE /\ NextPlace /\ files' = Without(files, process.place)
           /\ UNCHANGED checks
  <2>1. /\ ~Up' /\ ProcessOK' /\ ImportedOK'
        /\ process'.at \notin {"copy", "prune", "tables"}
    BY <1>2, <1>4, NextPlaceStep
  <2>2. FilesOK'
    BY <1>4 DEF IInv, FilesOK, Without
  <2> QED
    BY <1>1, <1>2, <1>4, <2>1, <2>2, KeptTable, KeptChecks, NotUp, SameSchema,
       SameBackups DEF IInv
<1> QED
  BY <1>1, <1>3, <1>4

-----------------------------------------------------------------------------
(* Loading, the end, and files that come. *)

(* What is at a place of the dictionary are phrases. *)
LEMMA PhrasesAt ==
  ASSUME TableOK, NEW place \in PhrasePlaces
  PROVE  /\ At(place) \subseteq Phrases
         /\ \A t \in Phrases : t \in At(place) <=> table[t] = place
<1>1. place # Nowhere /\ place \notin SamplePlaces
  BY DEF PhrasePlaces, Nowhere, SamplePlaces
<1> QED
  BY <1>1 DEF TableOK, At, Texts

LEMMA LoadStep ==
  ASSUME IInv, NEW fails \in BOOLEAN, NEW more \in BOOLEAN, Load(fails, more)
  PROVE  IInv'
<1>1. /\ process.at = "load"
      /\ UNCHANGED <<table, schema, files, backups, jobs, inputs>>
      /\ \/ Ends
         \/ /\ process' = IF more THEN Pass(process.convert) ELSE [at |-> "up"]
            /\ stops' = At(StopPhrase) /\ excluded' = At(IgnoredWord)
            /\ doubtful' = [p \in PhrasePlaces |-> {}]
  BY DEF Load, data
<1>2. ~Up /\ process \in Loading
  BY <1>1, ProcessAt DEF IInv, Up
<1>3. CASE Ends
  BY <1>1, <1>2, <1>3, GivesUp
<1>4. CASE /\ process' = IF more THEN Pass(process.convert) ELSE [at |-> "up"]
           /\ stops' = At(StopPhrase) /\ excluded' = At(IgnoredWord)
           /\ doubtful' = [p \in PhrasePlaces |-> {}]
  <2>1. process' \in Looking \/ process' \in Loading \/ process' = [at |-> "up"]
    BY <1>2, <1>4, PassType DEF Loading
  <2>2. /\ ProcessOK' /\ ImportedOK'
        /\ process'.at \notin {"copy", "prune", "tables"}
    BY <2>1 DEF ProcessOK, ImportedOK, Looking, Loading
  <2>3. StopPhrase \in PhrasePlaces /\ IgnoredWord \in PhrasePlaces
    BY DEF StopPhrase, IgnoredWord, PhrasePlaces
  <2>4. ChecksOK'
    BY <1>1, <1>4, <2>3, PhrasesAt DEF IInv, ChecksOK
  <2>5. PhrasesInEffect'
    BY <1>1, <1>4, <2>3, PhrasesAt DEF IInv, PhrasesInEffect
  <2>6. JobsOK'
    BY <1>1, <1>2 DEF IInv, JobsOK
  <2> QED
    BY <1>1, <2>2, <2>4, <2>5, <2>6, KeptTable, KeptFiles, SameSchema,
       SameBackups DEF IInv
<1> QED
  BY <1>1, <1>3, <1>4

LEMMA CrashStep == ASSUME IInv, Crash PROVE IInv'
<1>1. /\ process' = Down
      /\ backups' = IF process.at = "copy"
                    THEN With(backups, process.version, Torn) ELSE backups
      /\ stops' = {} /\ excluded' = {} /\ doubtful' = [p \in PhrasePlaces |-> {}]
      /\ jobs' = [j \in Jobs |-> Idle]
      /\ UNCHANGED <<table, schema, files, inputs>>
  BY DEF Crash, Ends, data
<1>2. process'.at = "down" /\ ~Up' /\ ProcessOK' /\ ImportedOK'
  BY <1>1 DEF Down, Up, ProcessOK, ImportedOK
<1>3. ChecksOK' /\ JobsOK' /\ PhrasesInEffect'
  BY <1>1, <1>2 DEF IInv, ChecksOK, JobsOK, PhrasesInEffect
<1>4. BackupsOK' /\ UpgradeCanBeUndone'
  <2>1. CASE process.at = "copy"
    <3>1. process.version \in Versions \ DOMAIN backups
      BY <2>1, ProcessAt DEF IInv, BackupsOK, Copying
    <3>2. schema \in Nat /\ Torn.schema \in Nat /\ Torn.schema <= schema
      BY VersionTypes DEF IInv, Torn
    <3>3. /\ UpgradeCanBeUndone' /\ DOMAIN backups' \subseteq Versions
          /\ \A w \in DOMAIN backups' : backups'[w].schema \in Nat
                                        /\ backups'[w].schema <= schema
      BY <1>1, <2>1, <3>1, <3>2, NewCopy DEF IInv
    <3> QED
      BY <1>1, <1>2, <3>3 DEF IInv, BackupsOK
  <2>2. CASE process.at # "copy"
    BY <1>1, <1>2, <2>2, SameSchema, SameBackups DEF IInv
  <2> QED
    BY <2>1, <2>2
<1> QED
  BY <1>1, <1>2, <1>3, <1>4, KeptTable, KeptFiles DEF IInv

LEMMA DeliverStep ==
  ASSUME IInv, NEW d \in Deliveries, Deliver(d)
  PROVE  IInv'
<1>1. /\ ~Up /\ inputs < MaxInputs /\ inputs' = inputs + 1
      /\ files' = With(files, d.place, d.lines)
      /\ UNCHANGED <<table, schema, backups, process, checks, jobs>>
  BY DEF Deliver, data
<1>2. d.place \in Places /\ (d.lines = Bad \/ Fits(d.place, d.lines))
  BY StartupAssumption DEF Fits
<1>3. /\ FilesOK' /\ DOMAIN files \subseteq DOMAIN files'
  BY <1>1, <1>2 DEF IInv, FilesOK, With
<1>4. ImportedOK'
  BY <1>1, <1>3 DEF IInv, ImportedOK
<1>5. ProcessOK' /\ ~Up'
  BY <1>1 DEF IInv, ProcessOK, Up
<1>6. BackupsOK'
  BY <1>1 DEF IInv, BackupsOK
<1>7. ChecksOK'
  <2>1. MaxInputs \in Nat
    BY StartupAssumption
  <2> QED
    BY <1>1, <2>1 DEF IInv, ChecksOK, checks
<1> QED
  BY <1>1, <1>3, <1>4, <1>5, <1>6, <1>7, KeptTable, NotUp, SameSchema DEF IInv
-----------------------------------------------------------------------------
(* The web UI. *)

LEMMA ServingKeeps ==
  ASSUME IInv, Up, UNCHANGED <<schema, files, backups, process>>
  PROVE  /\ ProcessOK' /\ FilesOK' /\ ImportedOK' /\ BackupsOK'
         /\ UpgradeCanBeUndone' /\ Up'
BY SameSchema, SameBackups, KeptFiles DEF IInv, ProcessOK, ImportedOK, Up

LEMMA MaxInputsType == MaxInputs \in Nat /\ Samples \cap Phrases = {}
BY StartupAssumption

LEMMA PlaceNumbers ==
  /\ StopPhrase \in PhrasePlaces /\ IgnoredWord \in PhrasePlaces
  /\ PhrasePlaces = {StopPhrase, IgnoredWord} /\ StopPhrase # IgnoredWord
  /\ PhrasePlaces \subseteq Places /\ SamplePlaces \subseteq Places
  /\ PhrasePlaces \cap SamplePlaces = {} /\ Nowhere \notin Places
BY DEF StopPhrase, IgnoredWord, PhrasePlaces, SamplePlaces, Places, Nowhere

(* A row of either table changes its place. *)
LEMMA MovedRow ==
  ASSUME TableOK, NEW t \in Texts, NEW place \in Places \cup {Nowhere},
         place # Nowhere => (t \in Samples <=> place \in SamplePlaces),
         table' = [table EXCEPT ![t] = place]
  PROVE  /\ TableOK' /\ table'[t] = place
         /\ \A u \in Texts : u # t => table'[u] = table[u]
BY DEF TableOK

LEMMA ChangeSampleStep ==
  ASSUME IInv, NEW t \in Samples, NEW place \in {3, 4, Nowhere},
         ChangeSample(t, place)
  PROVE  IInv'
<1>1. /\ Up /\ inputs < MaxInputs /\ inputs' = inputs + 1
      /\ table' = [table EXCEPT ![t] = place]
      /\ UNCHANGED <<schema, files, backups, process, stops, excluded, doubtful,
                     jobs>>
  BY DEF ChangeSample, checks
<1>2. /\ ProcessOK' /\ FilesOK' /\ ImportedOK' /\ BackupsOK'
      /\ UpgradeCanBeUndone' /\ Up'
  BY <1>1, ServingKeeps
<1>3. TableOK' /\ \A u \in Texts : u # t => table'[u] = table[u]
  <2>1. t \in Texts
    BY DEF Texts
  <2>2. place \in Places \cup {Nowhere} /\ (place # Nowhere => place \in SamplePlaces)
    BY DEF Places, SamplePlaces
  <2> QED
    BY <1>1, <2>1, <2>2, MovedRow DEF IInv
<1>4. \A u \in Phrases : table'[u] = table[u]
  BY <1>3, MaxInputsType DEF Texts
<1>5. ChecksOK'
  BY <1>1, MaxInputsType DEF IInv, ChecksOK
<1>6. PhrasesInEffect'
  BY <1>1, <1>4 DEF IInv, PhrasesInEffect, Up
<1>7. JobsOK'
  BY <1>1, <1>2, <1>4 DEF IInv, JobsOK, ReloadOK
<1> QED
  BY <1>2, <1>3, <1>5, <1>6, <1>7 DEF IInv

(* The records of reloads, edited. *)
LEMMA ReloadRecord ==
  ASSUME NEW a, NEW b, NEW c, NEW x, NEW y,
         NEW r, r = [op |-> a, read |-> b, late |-> c]
  PROVE  /\ [r EXCEPT !.late = x] = [op |-> a, read |-> b, late |-> x]
         /\ [r EXCEPT !.op = x] = [op |-> x, read |-> b, late |-> c]
         /\ [r EXCEPT !.read = y, !.op = x] = [op |-> x, read |-> y, late |-> c]
<1> DEFINE s == [r EXCEPT !.read = y]
<1>1. s = [op |-> a, read |-> y, late |-> c]
  OBVIOUS
<1>2. [r EXCEPT !.read = y, !.op = x] = [s EXCEPT !.op = x]
  OBVIOUS
<1> HIDE DEF s
<1>3. [s EXCEPT !.op = x] = [op |-> x, read |-> y, late |-> c]
  BY <1>1
<1>4. /\ [r EXCEPT !.late = x] = [op |-> a, read |-> b, late |-> x]
      /\ [r EXCEPT !.op = x] = [op |-> x, read |-> b, late |-> c]
  OBVIOUS
<1> QED
  BY <1>2, <1>3, <1>4

(* A phrase moves: the reloads that have read it know that they are late.  *)
LEMMA WriteStep ==
  ASSUME IInv, Up, NEW j \in Jobs, NEW t \in Phrases,
         NEW place \in PhrasePlaces \cup {Nowhere}, inputs < MaxInputs,
         inputs' = inputs + 1, Write(j, t, place)
  PROVE  IInv'
<1>1. /\ table' = [table EXCEPT ![t] = place]
      /\ doubtful' = [p \in PhrasePlaces |-> doubtful[p] \cup {t}]
      /\ jobs' = [Late(t) EXCEPT ![j] = Reloading]
      /\ UNCHANGED <<schema, files, backups, process, stops, excluded>>
  BY DEF Write
<1>2. /\ ProcessOK' /\ FilesOK' /\ ImportedOK' /\ BackupsOK'
      /\ UpgradeCanBeUndone' /\ Up'
  BY <1>1, ServingKeeps
<1>3. TableOK' /\ \A u \in Texts : u # t => table'[u] = table[u]
  <2>1. t \in Texts /\ t \notin Samples
    BY MaxInputsType DEF Texts
  <2>2. /\ place \in Places \cup {Nowhere} /\ place \notin SamplePlaces
    BY PlaceNumbers DEF Nowhere, SamplePlaces
  <2> QED
    BY <1>1, <2>1, <2>2, MovedRow DEF IInv
<1>4. ChecksOK'
  BY <1>1, MaxInputsType DEF IInv, ChecksOK
<1>5. \A u \in Phrases : u # t => table'[u] = table[u]
  BY <1>3 DEF Texts
<1>6. PhrasesInEffect'
  BY <1>1, <1>2, <1>5, PlaceNumbers DEF IInv, PhrasesInEffect
<1>7. JobsOK'
  <2>1. \A k \in Jobs : jobs'[k] = IF k = j THEN Reloading ELSE Late(t)[k]
    BY <1>1 DEF Late
  <2>2. ReloadOK(table', Reloading)
    <3>1. /\ Reloading.op = "read" /\ Reloading.read = << >>
          /\ Reloading.late = [p \in PhrasePlaces |-> {}]
          /\ Reloading = [op |-> Reloading.op, read |-> Reloading.read,
                          late |-> Reloading.late]
      BY DEF Reloading
    <3>2. DOMAIN << >> = {}
      OBVIOUS
    <3> QED
      BY <3>1, <3>2 DEF ReloadOK
  <2>3. ASSUME NEW k \in Jobs, jobs[k] # Idle
        PROVE  ReloadOK(table', Late(t)[k])
    <3> DEFINE r == jobs[k]
               late == [p \in PhrasePlaces |->
                          IF p \in DOMAIN r.read THEN r.late[p] \cup {t}
                          ELSE r.late[p]]
    <3> DEFINE q == [r EXCEPT !.late = late]
    <3>1. ReloadOK(table, r)
      BY <2>3 DEF IInv, JobsOK
    <3>2. r = [op |-> r.op, read |-> r.read, late |-> r.late]
      BY <3>1 DEF ReloadOK
    <3>3. Late(t)[k] = q
      BY <2>3, <3>2 DEF Late
    <3>8. q = [r EXCEPT !.late = late]
      OBVIOUS
    <3> HIDE DEF q
    <3>4. q = [op |-> r.op, read |-> r.read, late |-> late]
      BY <3>2, <3>8, ReloadRecord, Zenon
    <3>5. /\ late \in [PhrasePlaces -> SUBSET Phrases]
          /\ \A p \in DOMAIN r.read : p \in PhrasePlaces /\ late[p] = r.late[p] \cup {t}
      BY <3>1, PlaceNumbers DEF ReloadOK
    <3> HIDE DEF late
    <3>6. \A p \in DOMAIN r.read : \A u \in Phrases \ late[p] :
            u # t /\ u \notin r.late[p]
      BY <3>5
    <3>7. /\ q.op = r.op /\ q.read = r.read /\ q.late = late
          /\ q = [op |-> q.op, read |-> q.read, late |-> q.late]
      BY <3>4
    <3> QED
      BY <1>5, <3>1, <3>3, <3>5, <3>6, <3>7 DEF ReloadOK
  <2>4. \A k \in Jobs : jobs[k] = Idle => Late(t)[k] = Idle
    BY DEF Late
  <2>5. jobs' = [k \in Jobs |-> jobs'[k]]
    BY <1>1 DEF Late
  <2> QED
    BY <1>2, <2>1, <2>2, <2>3, <2>4, <2>5 DEF JobsOK
<1> QED
  BY <1>2, <1>3, <1>4, <1>6, <1>7 DEF IInv

(* A request changes only itself. *)
LEMMA OneJob ==
  ASSUME JobsOK, NEW j \in Jobs, NEW r, r = Idle \/ (Up /\ ReloadOK(table, r)),
         jobs' = [jobs EXCEPT ![j] = r], UNCHANGED <<process, table>>
  PROVE  JobsOK'
<1>1. \A k \in Jobs : jobs'[k] = IF k = j THEN r ELSE jobs[k]
  BY DEF JobsOK
<1>2. jobs' = [k \in Jobs |-> jobs'[k]]
  BY DEF JobsOK
<1> QED
  BY <1>1, <1>2 DEF JobsOK, ReloadOK, Up

LEMMA NewReload == ReloadOK(table, Reloading)
<1>1. /\ Reloading.op = "read" /\ Reloading.read = << >>
      /\ Reloading.late = [p \in PhrasePlaces |-> {}]
      /\ Reloading = [op |-> Reloading.op, read |-> Reloading.read,
                      late |-> Reloading.late]
  BY DEF Reloading
<1>2. DOMAIN << >> = {}
  OBVIOUS
<1> QED
  BY <1>1, <1>2 DEF ReloadOK

LEMMA AddStep ==
  ASSUME IInv, NEW j \in Jobs, NEW t \in Phrases, NEW place \in PhrasePlaces,
         Add(j, t, place)
  PROVE  IInv'
<1>1. /\ Up /\ inputs < MaxInputs /\ inputs' = inputs + 1
      /\ \/ Write(j, t, place)
         \/ /\ jobs' = [jobs EXCEPT ![j] = Reloading]
            /\ UNCHANGED <<table, schema, files, backups, process, stops,
                           excluded, doubtful>>
  BY DEF Add, data, checks
<1>2. CASE Write(j, t, place)
  BY <1>1, <1>2, WriteStep
<1>3. CASE /\ jobs' = [jobs EXCEPT ![j] = Reloading]
           /\ UNCHANGED <<table, schema, files, backups, process, stops,
                          excluded, doubtful>>
  <2>1. JobsOK'
    BY <1>1, <1>3, OneJob, NewReload DEF IInv
  <2>2. ChecksOK'
    BY <1>1, <1>3, MaxInputsType DEF IInv, ChecksOK
  <2>3. PhrasesInEffect'
    BY <1>3 DEF IInv, PhrasesInEffect, Up
  <2> QED
    BY <1>1, <1>3, <2>1, <2>2, <2>3, ServingKeeps, KeptTable DEF IInv
<1> QED
  BY <1>1, <1>2, <1>3

LEMMA DeleteStep ==
  ASSUME IInv, NEW j \in Jobs, NEW t \in Phrases, Delete(j, t)
  PROVE  IInv'
BY WriteStep DEF Delete

(* Nothing but the requests and the checks changes. *)
LEMMA ServingStep ==
  ASSUME IInv, Up, UNCHANGED <<table, schema, files, backups, process>>,
         ChecksOK', PhrasesInEffect', JobsOK'
  PROVE  IInv'
BY ServingKeeps, KeptTable DEF IInv

LEMMA ReadStep ==
  ASSUME IInv, NEW j \in Jobs, NEW place \in PhrasePlaces, Read(j, place)
  PROVE  IInv'
<1> DEFINE r == jobs[j]
           read == With(r.read, place, At(place))
           op == IF place = IgnoredWord THEN "load" ELSE r.op
           q == [r EXCEPT !.read = read, !.op = op]
<1>1. /\ r.op = "read"
      /\ place = IF r.read = << >> THEN StopPhrase ELSE IgnoredWord
      /\ UNCHANGED <<table, schema, files, backups, process, stops, excluded,
                     doubtful, inputs>>
  BY DEF Read, data, checks
<1>2. r # Idle /\ Up /\ ReloadOK(table, r)
  BY <1>1 DEF IInv, JobsOK, Idle
<1>3. r = [op |-> r.op, read |-> r.read, late |-> r.late]
  BY <1>2 DEF ReloadOK
<1>12. jobs' = [jobs EXCEPT ![j] = q]
  BY DEF Read
<1>13. q = [r EXCEPT !.read = read, !.op = op]
  OBVIOUS
<1> HIDE DEF q, op, read
<1>11. q = [op |-> op, read |-> read, late |-> r.late]
  BY <1>3, <1>13, ReloadRecord, Zenon
<1>4. /\ q.op = (IF place = IgnoredWord THEN "load" ELSE "read")
      /\ q.read = read /\ q.late = r.late
      /\ q = [op |-> q.op, read |-> q.read, late |-> q.late]
  BY <1>1, <1>11 DEF op
<1>5. /\ DOMAIN read = DOMAIN r.read \cup {place} /\ read[place] = At(place)
      /\ \A p \in DOMAIN r.read : p # place => read[p] = r.read[p]
  BY DEF With, read
<1>6. DOMAIN read = IF place = IgnoredWord THEN PhrasePlaces ELSE {StopPhrase}
  <2>1. DOMAIN << >> = {}
    OBVIOUS
  <2> QED
    BY <1>1, <1>2, <1>5, <2>1, PlaceNumbers DEF ReloadOK
<1>7. \A p \in DOMAIN read :
        /\ read[p] \subseteq Phrases
        /\ \A t \in Phrases \ r.late[p] : t \in read[p] <=> table[t] = p
  BY <1>2, <1>5, PhrasesAt DEF IInv, ReloadOK
<1>8. ReloadOK(table, q)
  BY <1>2, <1>4, <1>6, <1>7, PlaceNumbers DEF ReloadOK
<1>9. JobsOK'
  BY <1>1, <1>2, <1>12, <1>8, OneJob DEF IInv
<1>10. ChecksOK' /\ PhrasesInEffect'
  BY <1>1 DEF IInv, ChecksOK, PhrasesInEffect, Up
<1> QED
  BY <1>1, <1>2, <1>9, <1>10, ServingStep

LEMMA ReadFailsStep == ASSUME IInv, NEW j \in Jobs, ReadFails(j) PROVE IInv'
<1>1. /\ jobs[j].op = "read" /\ jobs' = [jobs EXCEPT ![j] = Idle]
      /\ UNCHANGED <<table, schema, files, backups, process, stops, excluded,
                     doubtful, inputs>>
  BY DEF ReadFails, data, checks
<1>2. Up
  BY <1>1 DEF IInv, JobsOK, Idle
<1>3. JobsOK'
  BY <1>1, OneJob DEF IInv
<1>4. ChecksOK' /\ PhrasesInEffect'
  BY <1>1 DEF IInv, ChecksOK, PhrasesInEffect, Up
<1> QED
  BY <1>1, <1>2, <1>3, <1>4, ServingStep

LEMMA LoadSamplesStep == ASSUME IInv, NEW j \in Jobs, LoadSamples(j) PROVE IInv'
<1> DEFINE r == jobs[j]
           q == [r EXCEPT !.op = "stops"]
<1>1. /\ r.op = "load" /\ excluded' = r.read[IgnoredWord]
      /\ doubtful' = [doubtful EXCEPT ![IgnoredWord] = r.late[IgnoredWord]]
      /\ jobs' = [jobs EXCEPT ![j] = q]
      /\ UNCHANGED <<table, schema, files, backups, process, stops, inputs>>
  BY DEF LoadSamples, data
<1>2. Up /\ ReloadOK(table, r) /\ DOMAIN r.read = PhrasePlaces
  BY <1>1 DEF IInv, JobsOK, Idle, ReloadOK
<1>3. /\ q.op = "stops" /\ q.read = r.read /\ q.late = r.late
      /\ q = [op |-> q.op, read |-> q.read, late |-> q.late]
  BY <1>2 DEF ReloadOK
<1> HIDE DEF q
<1>4. ReloadOK(table, q)
  BY <1>2, <1>3 DEF ReloadOK
<1>5. JobsOK'
  BY <1>1, <1>2, <1>4, OneJob DEF IInv
<1>6. ChecksOK'
  BY <1>1, <1>2, PlaceNumbers DEF IInv, ChecksOK, ReloadOK
<1>7. PhrasesInEffect'
  <2>1. /\ doubtful'[StopPhrase] = doubtful[StopPhrase]
        /\ doubtful'[IgnoredWord] = r.late[IgnoredWord]
    BY <1>1, PlaceNumbers DEF IInv, ChecksOK
  <2>2. \A t \in Phrases \ r.late[IgnoredWord] :
          t \in r.read[IgnoredWord] <=> table[t] = IgnoredWord
    BY <1>2, PlaceNumbers DEF ReloadOK
  <2> QED
    BY <1>1, <2>1, <2>2 DEF IInv, PhrasesInEffect, Up
<1> QED
  BY <1>1, <1>2, <1>5, <1>6, <1>7, ServingStep

LEMMA LoadStopWordsStep ==
  ASSUME IInv, NEW j \in Jobs, LoadStopWords(j)
  PROVE  IInv'
<1> DEFINE r == jobs[j]
<1>1. /\ r.op = "stops" /\ stops' = r.read[StopPhrase]
      /\ doubtful' = [doubtful EXCEPT ![StopPhrase] = r.late[StopPhrase]]
      /\ jobs' = [jobs EXCEPT ![j] = Idle]
      /\ UNCHANGED <<table, schema, files, backups, process, excluded, inputs>>
  BY DEF LoadStopWords, data
<1>2. Up /\ ReloadOK(table, r) /\ DOMAIN r.read = PhrasePlaces
  BY <1>1 DEF IInv, JobsOK, Idle, ReloadOK
<1>3. JobsOK'
  BY <1>1, OneJob DEF IInv
<1>4. ChecksOK'
  BY <1>1, <1>2, PlaceNumbers DEF IInv, ChecksOK, ReloadOK
<1>5. PhrasesInEffect'
  <2>1. /\ doubtful'[IgnoredWord] = doubtful[IgnoredWord]
        /\ doubtful'[StopPhrase] = r.late[StopPhrase]
    BY <1>1, PlaceNumbers DEF IInv, ChecksOK
  <2>2. \A t \in Phrases \ r.late[StopPhrase] :
          t \in r.read[StopPhrase] <=> table[t] = StopPhrase
    BY <1>2, PlaceNumbers DEF ReloadOK
  <2> QED
    BY <1>1, <2>1, <2>2 DEF IInv, PhrasesInEffect, Up
<1> QED
  BY <1>1, <1>2, <1>3, <1>4, <1>5, ServingStep
-----------------------------------------------------------------------------
(* The invariant is inductive. *)

LEMMA InitInv == ASSUME Init PROVE IInv
<1>1. process.at = "down" /\ ~Up /\ ProcessOK /\ ImportedOK
  BY DEF Init, Down, Up, ProcessOK, ImportedOK
<1>2. TableOK
  BY StartupAssumption DEF Init, TableOK
<1>3. DOMAIN << >> = {}
  OBVIOUS
<1>4. FilesOK /\ BackupsOK /\ UpgradeCanBeUndone
  BY <1>1, <1>3 DEF Init, FilesOK, BackupsOK, UpgradeCanBeUndone
<1>5. ChecksOK
  BY MaxInputsType DEF Init, ChecksOK
<1>6. JobsOK /\ PhrasesInEffect
  BY <1>1 DEF Init, JobsOK, PhrasesInEffect
<1> QED
  BY <1>1, <1>2, <1>4, <1>5, <1>6 DEF IInv

LEMMA StutterStep == ASSUME IInv, UNCHANGED vars PROVE IInv'
<1>1. UNCHANGED <<table, schema, files, backups, process, stops, excluded,
                  doubtful, jobs, inputs>>
  BY DEF vars, data, checks
<1>2. ProcessOK' /\ TableOK' /\ FilesOK' /\ ImportedOK' /\ BackupsOK' /\ ChecksOK'
  BY <1>1 DEF IInv, ProcessOK, TableOK, FilesOK, ImportedOK, BackupsOK, ChecksOK
<1>3. JobsOK' /\ UpgradeCanBeUndone' /\ PhrasesInEffect'
  BY <1>1 DEF IInv, JobsOK, Up, UpgradeCanBeUndone, PhrasesInEffect
<1> QED
  BY <1>2, <1>3 DEF IInv

LEMMA StartingStep == ASSUME IInv, Starting PROVE IInv'
BY CopyFileStep, RemoveOldestStep, RenameStep, LoadStep, PrunedStep,
   InitTableStep, NoFileStep, ImportStep DEF Starting

LEMMA RequestStep == ASSUME IInv, Serving PROVE IInv'
BY AddStep, DeleteStep, ReadStep, ReadFailsStep, LoadSamplesStep,
   LoadStopWordsStep DEF Serving

(* Every step of a start, of the web UI or of nobody keeps all parts of    *)
(* the invariant, wherever the process ends.                               *)
THEOREM Inductive == Spec => []IInv
<1>1. Init => IInv
  BY InitInv
<1>2. IInv /\ [Next]_vars => IInv'
  <2> SUFFICES ASSUME IInv, [Next]_vars PROVE IInv'
    OBVIOUS
  <2>1. CASE \E version \in Versions, convert \in {"enabled", "disabled", "only"} :
               BackupDB(version, convert)
    BY <2>1, BackupDBStep DEF Converts
  <2>2. CASE \E t \in Samples, place \in {3, 4, Nowhere} : ChangeSample(t, place)
    BY <2>2, ChangeSampleStep
  <2>3. CASE Starting \/ Serving \/ Crash
    BY <2>3, StartingStep, RequestStep, CrashStep
  <2>4. CASE \E d \in Deliveries : Deliver(d)
    BY <2>4, DeliverStep
  <2>5. CASE UNCHANGED vars
    BY <2>5, StutterStep
  <2> QED
    BY <2>1, <2>2, <2>3, <2>4, <2>5 DEF Next
<1> QED
  BY <1>1, <1>2, PTL DEF Spec

-----------------------------------------------------------------------------
(* What it says. *)

(* Every variable keeps its type; requests are served only while the bot   *)
(* is up, and a row stays in the table its text is of.                     *)
THEOREM TypeCorrect == Spec => []TypeOK
<1>1. IInv => TypeOK
  <2> SUFFICES ASSUME IInv PROVE TypeOK
    OBVIOUS
  <2>1. \/ process = Down \/ process = [at |-> "up"]
        \/ /\ process.at \in Steps
           /\ process.at \in {"copy", "prune"} => process.version \in Versions
           /\ process.at \in {"stat", "rename"} => process.place \in Places
    BY DEF IInv, ProcessOK, Copying, Looking, Loading, Renaming, Steps
  <2>2. \A j \in Jobs : jobs[j] # Idle =>
          Up /\ DOMAIN jobs[j].read \subseteq PhrasePlaces
    <3>1. DOMAIN << >> = {}
      OBVIOUS
    <3> QED
      BY <3>1, PlaceNumbers DEF IInv, JobsOK, ReloadOK
  <2> QED
    BY <2>1, <2>2 DEF IInv, TypeOK, TableOK, BackupsOK, FilesOK, ChecksOK
<1> QED
  BY <1>1, Inductive, PTL

(* Whatever versions run in whatever order, and wherever each start ends,  *)
(* pruning never takes the copy that an upgrade would be undone from.      *)
THEOREM UpgradeUndone == Spec => []UpgradeCanBeUndone
<1>1. IInv => UpgradeCanBeUndone
  BY DEF IInv
<1> QED
  BY <1>1, Inductive, PTL

(* With any number of requests reloading at a time, the checks use every   *)
(* phrase that is stored and no other, but for those that no reload has    *)
(* brought into effect.                                                    *)
THEOREM InEffect == Spec => []PhrasesInEffect
<1>1. IInv => PhrasesInEffect
  BY DEF IInv
<1> QED
  BY <1>1, Inductive, PTL

-----------------------------------------------------------------------------
(* What the tables will be, of any table and any files that wait. *)

WaitingIn(fs) == {p \in DOMAIN fs : fs[p] # Bad}

Holding(fs, t) == {p \in WaitingIn(fs) : t \in fs[p]}

LastOf(S) == CHOOSE p \in S : \A q \in S : p >= q

Final(tab, fs, t) ==
  IF Holding(fs, t) # {} THEN LastOf(Holding(fs, t))
  ELSE IF tab[t] \in WaitingIn(fs) THEN Nowhere ELSE tab[t]

LEMMA OutcomeIsFinal == Outcome = [t \in Texts |-> Final(table, files, t)]
BY DEF Outcome, Waiting, Final, Holding, WaitingIn, LastOf

LEMMA OutcomeIsFinalPrimed ==
  Outcome' = [t \in Texts |-> Final(table', files', t)]
BY DEF Outcome, Waiting, Final, Holding, WaitingIn, LastOf

LEMMA LastOfIsLast ==
  ASSUME NEW S \in SUBSET Places, S # {}
  PROVE  LastOf(S) \in S /\ \A q \in S : LastOf(S) >= q
BY LastPlaceExists DEF LastOf

(* Importing a file that waits changes nothing about it: the old rows of   *)
(* its place would go, and its lines have a last place already.            *)
LEMMA ImportKeepsOutcome ==
  ASSUME FilesOK, NEW place \in WaitingIn(files), NEW t \in Texts,
         table' = Imported(place, files[place])
  PROVE  Final(table', files, t) = Final(table, files, t)
<1>1. table'[t] = IF t \in files[place] THEN place
                  ELSE IF table[t] = place THEN Nowhere ELSE table[t]
  BY DEF Imported
<1>2. t \in files[place] => Holding(files, t) # {}
  BY DEF Holding
<1>3. Nowhere \notin WaitingIn(files)
  BY PlaceNumbers DEF FilesOK, WaitingIn
<1> QED
  BY <1>1, <1>2, <1>3 DEF Final

(* Nor does it when the first of the files that wait goes, once its lines  *)
(* are at its place, and only they.                                        *)
LEMMA RenameKeepsOutcome ==
  ASSUME FilesOK, NEW place \in WaitingIn(files), NEW t \in Texts,
         \A p \in DOMAIN files : ~(p < place),
         table[t] = place <=> t \in files[place]
  PROVE  Final(table, Without(files, place), t) = Final(table, files, t)
<1> DEFINE less == Without(files, place)
           H == Holding(files, t)
           L == Holding(less, t)
<1>1. WaitingIn(less) = WaitingIn(files) \ {place} /\ L = H \ {place}
  BY DEF Without, WaitingIn, Holding
<1>2. H \in SUBSET Places /\ \A p \in H : p \in Nat /\ p >= place
  BY DEF FilesOK, Holding, WaitingIn, Places
<1>3. CASE t \notin files[place]
  <2>1. place \notin H
    BY <1>3 DEF Holding
  <2>2. L = H
    BY <1>1, <2>1
  <2> QED
    BY <1>1, <1>3, <2>2 DEF Final
<1>4. CASE t \in files[place]
  <2>1. place \in H /\ H # {}
    BY <1>4 DEF Holding
  <2>2. LastOf(H) \in H /\ \A q \in H : LastOf(H) >= q
    BY <1>2, <2>1, LastOfIsLast
  <2>3. CASE L = {}
    <3>1. LastOf(H) = place
      BY <1>1, <2>2, <2>3
    <3> QED
      BY <1>1, <1>4, <2>1, <2>3, <3>1 DEF Final
  <2>4. CASE L # {}
    <3>1. LastOf(L) \in L /\ \A q \in L : LastOf(L) >= q
      BY <1>1, <1>2, <2>4, LastOfIsLast
    <3>2. LastOf(L) \in H /\ LastOf(L) # place
      BY <1>1, <3>1
    <3>3. LastOf(H) # place
      BY <1>2, <2>1, <2>2, <3>2
    <3>4. LastOf(H) \in L
      BY <1>1, <2>2, <3>3
    <3>5. LastOf(H) >= LastOf(L) /\ LastOf(L) >= LastOf(H)
      BY <2>2, <3>1, <3>2, <3>4
    <3>6. LastOf(H) = LastOf(L)
      BY <1>2, <2>2, <3>2, <3>5
    <3> QED
      BY <2>1, <2>4, <3>6 DEF Final
  <2> QED
    BY <2>3, <2>4
<1> QED
  BY <1>3, <1>4

LEMMA StartKeepsOutcome ==
  ASSUME IInv, Next, process.at \in Steps, inputs' = inputs, ~CameTooLate
  PROVE  Outcome' = Outcome
<1>0. SUFFICES ASSUME NEW t \in Texts
               PROVE  Final(table', files', t) = Final(table, files, t)
  BY OutcomeIsFinal, OutcomeIsFinalPrimed
<1>1. ~Up /\ process # Down
  BY DEF Up, Down, Steps
<1>2. CASE UNCHANGED <<table, files>>
  BY <1>2
<1>3. CASE Import
  <2>1. CASE table' = table
    BY <1>3, <2>1 DEF Import
  <2>2. CASE table' # table
    <3>1. /\ process.place \in DOMAIN files /\ files[process.place] # Bad
          /\ table' = Imported(process.place, files[process.place])
          /\ files' = files
      BY <1>3, <2>2 DEF Import
    <3>2. process.place \in WaitingIn(files)
      BY <3>1 DEF WaitingIn
    <3> QED
      BY <3>1, <3>2, ImportKeepsOutcome DEF IInv
  <2> QED
    BY <2>1, <2>2
<1>4. CASE \E fails \in BOOLEAN : Rename(fails)
  <2>1. process.at = "rename" /\ table' = table
    BY <1>4 DEF Rename, data
  <2>2. CASE files' = files
    BY <2>1, <2>2
  <2>3. CASE files' # files
    <3>1. files' = Without(files, process.place)
      BY <1>4, <2>3 DEF Rename
    <3>2. /\ \A p \in DOMAIN files : ~(p < process.place)
          /\ \A p \in DOMAIN files : p = process.place => files[p] = process.lines
      BY <2>1 DEF CameTooLate
    <3>3. /\ process.place \in DOMAIN files /\ process.lines # Bad
          /\ table[t] = process.place <=> t \in process.lines
      BY <2>1 DEF IInv, ImportedOK
    <3>4. files[process.place] = process.lines
      BY <3>2, <3>3
    <3>5. process.place \in WaitingIn(files)
      BY <3>3, <3>4 DEF WaitingIn
    <3> QED
      BY <2>1, <3>1, <3>2, <3>3, <3>4, <3>5, RenameKeepsOutcome DEF IInv
  <2> QED
    BY <2>2, <2>3
<1>5. CASE Starting
  <2>1. \/ Import \/ \E fails \in BOOLEAN : Rename(fails)
        \/ UNCHANGED <<table, files>>
    BY <1>5 DEF Starting, CopyFile, RemoveOldest, Load, Pruned, InitTable,
                NoFile, data
  <2> QED
    BY <1>2, <1>3, <1>4, <2>1
<1>6. CASE Serving
  <2>1. UNCHANGED <<table, files>>
    BY <1>1, <1>6 DEF Serving, Add, Delete, Read, ReadFails, LoadSamples,
                      LoadStopWords, data
  <2> QED
    BY <1>2, <2>1
<1>7. CASE Crash
  BY <1>2, <1>7 DEF Crash, data
<1>8. CASE \/ \E d \in Deliveries : Deliver(d)
           \/ \E u \in Samples, place \in {3, 4, Nowhere} : ChangeSample(u, place)
           \/ \E version \in Versions, convert \in {"enabled", "disabled", "only"} :
                BackupDB(version, convert)
  <2>1. inputs \in Nat
    BY MaxInputsType DEF IInv, ChecksOK
  <2>2. inputs' # inputs + 1
    BY <2>1
  <2> QED
    BY <1>1, <1>8, <2>2 DEF Deliver, ChangeSample, BackupDB
<1> QED
  BY <1>5, <1>6, <1>7, <1>8 DEF Next

(* No step of a start changes what the tables will be once it is through,  *)
(* whatever fails and wherever the process ends: an import that is done    *)
(* again does nothing.                                                     *)
THEOREM ImportsExact == Spec => ImportsAreExact
<1>1. IInv /\ [Next]_vars =>
        [process.at \in Steps /\ inputs' = inputs /\ ~CameTooLate
           => Outcome' = Outcome]_vars
  BY StartKeepsOutcome
<1> QED
  BY <1>1, Inductive, PTL DEF Spec, ImportsAreExact

=============================================================================
