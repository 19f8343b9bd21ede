------------------------------- MODULE Startup -------------------------------
(***************************************************************************)
(* The data of the bot around its start (app/main.go): the copy of the     *)
(* database that an upgrade makes, the import of sample and dictionary     *)
(* files that the operator or the updater put into the data directory, and *)
(* the loading of what the checks use: a pass over the files for the       *)
(* detector of the web UI and one for each chat, of which there is any     *)
(* number; all detectors share what is loaded.  Later the web UI changes   *)
(* the dictionary, several requests at a time.  The process may end        *)
(* anywhere.                                                               *)
(*                                                                         *)
(* Both tables have their rows in one of six places, which is also the     *)
(* order of their files: spam and ham presets, spam and ham of users, stop *)
(* phrases, ignored words.  A version stands for the time it was built at. *)
(* What the classifier makes of the samples is in the module Samples.      *)
(***************************************************************************)
EXTENDS Integers, FiniteSets, Functions

CONSTANTS
  Samples,      \* texts of the table "samples"
  Phrases,      \* texts of the table "dictionary"
  Tables,       \* what an older version, or nobody, may have left
  Deliveries,   \* what is put into the data directory: [place, lines]
  Bad,          \* a file that cannot be imported
  Versions,     \* the versions of the bot
  MaxBackups,   \* --max-backups
  Jobs,         \* requests of the web UI served at a time
  MaxInputs     \* bound on the files put there and the requests

Places == 1 .. 6
SamplePlaces == 1 .. 4
PhrasePlaces == 5 .. 6
StopPhrase == 5
IgnoredWord == 6
Nowhere == 0

Texts == Samples \cup Phrases

ASSUME StartupAssumption ==
  /\ Samples \cap Phrases = {}
  /\ Versions \subseteq Nat \ {0} /\ IsFiniteSet(Versions)
  /\ Tables \subseteq [Texts -> Places \cup {Nowhere}]
  /\ \A tab \in Tables : \A t \in Texts :
       tab[t] # Nowhere => (t \in Samples <=> tab[t] \in SamplePlaces)
  /\ \A d \in Deliveries :
       /\ d.place \in Places
       /\ d.lines = Bad \/ d.lines \subseteq (IF d.place \in SamplePlaces
                                              THEN Samples ELSE Phrases)
  /\ MaxBackups \in Nat /\ MaxInputs \in Nat

VARIABLES
  table,      \* the place of each row, or Nowhere
  schema,     \* the newest version that made or changed the tables
  files,      \* the files in the data directory: their lines by place
  backups,    \* the copies of the database: by version, what they have
  process,    \* how far the start came
  stops,      \* the stop phrases of the checks
  excluded,   \* the ignored words of the checks
  jobs,       \* what each request is in the middle of
  doubtful,   \* history: phrases no reload has brought into effect yet
  inputs      \* the number of files put there and of requests

data == <<table, schema>>
checks == <<stops, excluded, doubtful>>
vars == <<data, files, backups, process, checks, jobs, inputs>>

Idle == [op |-> "idle"]

Down == [at |-> "down"]

Up == process.at = "up"

Init ==
  /\ table \in Tables /\ schema = 0
  /\ files = << >> /\ backups = << >>
  /\ process = Down
  /\ stops = {} /\ excluded = {} /\ doubtful = [p \in PhrasePlaces |-> {}]
  /\ jobs = [j \in Jobs |-> Idle]
  /\ inputs = 0

GoTo(step) == process' = [process EXCEPT !.at = step]

(* A pass (makeSpamBot) begins with the file of the first place.           *)
Pass(convert) == [at |-> IF convert = "disabled" THEN "load" ELSE "stat",
                  convert |-> convert, place |-> 1]

(* The process ends, and what it had in memory with it.                    *)
Ends ==
  /\ process' = Down
  /\ stops' = {} /\ excluded' = {} /\ doubtful' = [p \in PhrasePlaces |-> {}]

Without(f, x) == [y \in DOMAIN f \ {x} |-> f[y]]
With(f, x, v) == [y \in DOMAIN f \cup {x} |-> IF y = x THEN v ELSE f[y]]

-----------------------------------------------------------------------------
(* The copy of the database, before anything else touches it (makeDB).     *)

Torn == [schema |-> 0, whole |-> FALSE]

(* The start of a version it has a copy for makes no other one.            *)
BackupDB(version, convert) ==
  /\ process = Down
  /\ process' = [at |-> IF MaxBackups = 0 \/ version \in DOMAIN backups
                        THEN "tables" ELSE "copy",
                 version |-> version, convert |-> convert]
  /\ UNCHANGED <<data, files, backups, checks, jobs, inputs>>

(* CopyFile: the file is there as soon as the copying starts, and stays if *)
(* it fails.                                                               *)
CopyFile(whole) ==
  /\ process.at = "copy"
  /\ backups' = With(backups, process.version,
                     IF whole THEN [schema |-> schema, whole |-> TRUE] ELSE Torn)
  /\ process' = IF whole THEN [process EXCEPT !.at = "prune"] ELSE Down
  /\ UNCHANGED <<data, files, checks, jobs, inputs>>

(* Mutant: the sort is the wrong way round. *)
NewestFirst(versions) == CHOOSE v \in versions : \A w \in versions : v >= w

Oldest(versions) == CHOOSE v \in versions : \A w \in versions : v <= w

RemoveOldest(fails) ==
  /\ process.at = "prune"
  /\ Cardinality(DOMAIN backups) > MaxBackups
  /\ IF fails THEN process' = Down /\ UNCHANGED backups
     ELSE process' = process
          /\ backups' = Without(backups, Oldest(DOMAIN backups))
  /\ UNCHANGED <<data, files, checks, jobs, inputs>>

Pruned ==
  /\ process.at = "prune"
  /\ Cardinality(DOMAIN backups) <= MaxBackups
  /\ GoTo("tables")
  /\ UNCHANGED <<data, files, backups, checks, jobs, inputs>>

(* InitTable creates the tables, or brings them to this version. *)
InitTable ==
  /\ process.at = "tables"
  /\ schema' = IF process.version > schema THEN process.version ELSE schema
  /\ process' = Pass(process.convert)
  /\ UNCHANGED <<table, files, backups, checks, jobs, inputs>>

-----------------------------------------------------------------------------
(* The import of the files (migrateSamples, migrateDicts).                 *)

(* Mutant: what was there of the place stays there. *)
ImportedOver(place, lines) ==
  [t \in Texts |-> IF t \in lines THEN place ELSE table[t]]

(* Import, in a transaction: the old rows of the place go, and each line   *)
(* is put there from wherever it was.                                      *)
Imported(place, lines) ==
  [t \in Texts |-> IF t \in lines THEN place
                   ELSE IF table[t] = place THEN Nowhere ELSE table[t]]

(* Mutant: one place too many. *)
NextPlaceAgain ==
  process' = [at |-> IF process.place > 6 THEN "load" ELSE "stat",
              convert |-> process.convert, place |-> process.place + 1]

NextPlace ==
  process' = [at |-> IF process.place = 6 THEN "load" ELSE "stat",
              convert |-> process.convert, place |-> process.place + 1]

NoFile ==
  /\ process.at = "stat" /\ process.place \notin DOMAIN files
  /\ NextPlace
  /\ UNCHANGED <<data, files, backups, checks, jobs, inputs>>

Import ==
  /\ process.at = "stat" /\ process.place \in DOMAIN files
  /\ LET lines == files[process.place]
     IN IF lines = Bad THEN Ends /\ UNCHANGED table
        ELSE /\ table' = Imported(process.place, lines)
             /\ process' = [at |-> "rename", convert |-> process.convert,
                            place |-> process.place, lines |-> lines]
             /\ UNCHANGED checks
  /\ UNCHANGED <<schema, files, backups, jobs, inputs>>

Rename(fails) ==
  /\ process.at = "rename"
  /\ IF fails THEN Ends /\ UNCHANGED files
     ELSE NextPlace /\ files' = Without(files, process.place) /\ UNCHANGED checks
  /\ UNCHANGED <<data, backups, jobs, inputs>>

-----------------------------------------------------------------------------
(* Loading (ReloadSamples).  Presets of both classes have to be there.     *)

At(place) == {t \in Texts : table[t] = place}

Mandatory == At(1) # {} /\ At(2) # {}

(* Nobody else is there at the start.  With --convert=only it ends after   *)
(* the first pass; otherwise the next chat has its own, or the bot is up.  *)
Load(fails, more) ==
  /\ process.at = "load"
  /\ IF fails \/ ~Mandatory \/ process.convert = "only" THEN Ends
     ELSE /\ process' = IF more THEN Pass(process.convert) ELSE [at |-> "up"]
          /\ stops' = At(StopPhrase) /\ excluded' = At(IgnoredWord)
          /\ doubtful' = [p \in PhrasePlaces |-> {}]
  /\ UNCHANGED <<data, files, backups, jobs, inputs>>

(* A copy under way stays as it is. *)
Crash ==
  /\ process # Down /\ Ends
  /\ backups' = IF process.at = "copy"
                THEN With(backups, process.version, Torn) ELSE backups
  /\ jobs' = [j \in Jobs |-> Idle]
  /\ UNCHANGED <<data, files, inputs>>

(* A file comes into the data directory, in place of one with its name.    *)
(* Only a start looks: one that comes earlier may as well come when the    *)
(* process has ended.                                                      *)
Deliver(d) ==
  /\ ~Up /\ inputs < MaxInputs
  /\ files' = With(files, d.place, d.lines)
  /\ inputs' = inputs + 1
  /\ UNCHANGED <<data, backups, process, checks, jobs>>

-----------------------------------------------------------------------------
(* The web UI.  Samples come and go with other handlers.                   *)
ChangeSample(t, place) ==
  /\ Up /\ inputs < MaxInputs
  /\ table' = [table EXCEPT ![t] = place]
  /\ inputs' = inputs + 1
  /\ UNCHANGED <<schema, files, backups, process, checks, jobs>>

(* A phrase changed: reloads that have read already do not know.           *)
Late(t) ==
  [k \in Jobs |-> IF jobs[k] = Idle THEN Idle
                  ELSE [jobs[k] EXCEPT !.late =
                          [p \in PhrasePlaces |->
                             IF p \in DOMAIN jobs[k].read THEN @[p] \cup {t}
                             ELSE @[p]]]]

Reloading == [op |-> "read", read |-> << >>, late |-> [p \in PhrasePlaces |-> {}]]

Write(j, t, place) ==
  /\ table' = [table EXCEPT ![t] = place]
  /\ doubtful' = [p \in PhrasePlaces |-> doubtful[p] \cup {t}]
  /\ jobs' = [Late(t) EXCEPT ![j] = Reloading]
  /\ UNCHANGED <<schema, files, backups, process, stops, excluded>>

(* addDictionaryEntryHandler: a phrase that is there stays where it is.    *)
Add(j, t, place) ==
  /\ Up /\ jobs[j] = Idle /\ inputs < MaxInputs
  /\ inputs' = inputs + 1
  /\ IF table[t] = Nowhere THEN Write(j, t, place)
     ELSE /\ jobs' = [jobs EXCEPT ![j] = Reloading]
          /\ UNCHANGED <<data, files, backups, process, checks>>

(* deleteDictionaryEntryHandler *)
Delete(j, t) ==
  /\ Up /\ jobs[j] = Idle /\ table[t] # Nowhere /\ inputs < MaxInputs
  /\ inputs' = inputs + 1
  /\ Write(j, t, Nowhere)

(* The stop phrases are read, then the ignored words; or the reload fails. *)
Read(j, place) ==
  /\ jobs[j].op = "read" /\ Mandatory
  /\ place = IF jobs[j].read = << >> THEN StopPhrase ELSE IgnoredWord
  /\ jobs' = [jobs EXCEPT ![j].read = With(@, place, At(place)),
                          ![j].op = IF place = IgnoredWord THEN "load" ELSE @]
  /\ UNCHANGED <<data, files, backups, process, checks, inputs>>

ReadFails(j) ==
  /\ jobs[j].op = "read"
  /\ jobs' = [jobs EXCEPT ![j] = Idle]
  /\ UNCHANGED <<data, files, backups, process, checks, inputs>>

(* LoadSamples begins with the ignored words. *)
LoadSamples(j) ==
  /\ jobs[j].op = "load"
  /\ excluded' = jobs[j].read[IgnoredWord]
  /\ doubtful' = [doubtful EXCEPT ![IgnoredWord] = jobs[j].late[IgnoredWord]]
  /\ jobs' = [jobs EXCEPT ![j].op = "stops"]
  /\ UNCHANGED <<data, files, backups, process, stops, inputs>>

(* Mutant: the list is not emptied first. *)
LoadStopWordsAdding(j) ==
  /\ jobs[j].op = "stops"
  /\ stops' = stops \cup jobs[j].read[StopPhrase]
  /\ doubtful' = [doubtful EXCEPT ![StopPhrase] = jobs[j].late[StopPhrase]]
  /\ jobs' = [jobs EXCEPT ![j] = Idle]
  /\ UNCHANGED <<data, files, backups, process, excluded, inputs>>

LoadStopWords(j) ==
  /\ jobs[j].op = "stops"
  /\ stops' = jobs[j].read[StopPhrase]
  /\ doubtful' = [doubtful EXCEPT ![StopPhrase] = jobs[j].late[StopPhrase]]
  /\ jobs' = [jobs EXCEPT ![j] = Idle]
  /\ UNCHANGED <<data, files, backups, process, excluded, inputs>>

Starting ==
  \/ \E whole \in BOOLEAN : CopyFile(whole)
  \/ \E fails \in BOOLEAN : RemoveOldest(fails) \/ Rename(fails)
  \/ \E fails, more \in BOOLEAN : Load(fails, more)
  \/ Pruned \/ InitTable \/ NoFile \/ Import

Serving ==
  \E j \in Jobs :
    \/ \E t \in Phrases, place \in PhrasePlaces : Add(j, t, place)
    \/ \E t \in Phrases : Delete(j, t)
    \/ \E place \in PhrasePlaces : Read(j, place)
    \/ ReadFails(j) \/ LoadSamples(j) \/ LoadStopWords(j)

Next ==
  \/ \E version \in Versions, convert \in {"enabled", "disabled", "only"} :
       BackupDB(version, convert)
  \/ Starting
  \/ Crash
  \/ \E d \in Deliveries : Deliver(d)
  \/ \E t \in Samples, place \in {3, 4, Nowhere} : ChangeSample(t, place)
  \/ Serving

Spec == Init /\ [][Next]_vars

-----------------------------------------------------------------------------
Steps == {"copy", "prune", "tables", "stat", "rename", "load"}

(* Every variable has its type, and requests are served only by a bot that *)
(* is up.                                                                  *)
TypeOK ==
  /\ table \in [Texts -> Places \cup {Nowhere}]
  /\ \A t \in Texts : table[t] # Nowhere =>
       (t \in Samples <=> table[t] \in SamplePlaces)
  /\ schema \in Versions \cup {0}
  /\ DOMAIN files \subseteq Places
  /\ DOMAIN backups \subseteq Versions
  /\ \/ process = Down \/ process = [at |-> "up"]
     \/ /\ process.at \in Steps
        /\ process.at \in {"copy", "prune"} => process.version \in Versions
        /\ process.at \in {"stat", "rename"} => process.place \in Places
  /\ stops \subseteq Phrases /\ excluded \subseteq Phrases
  /\ doubtful \in [PhrasePlaces -> SUBSET Phrases]
  /\ \A j \in Jobs : jobs[j] # Idle =>
       Up /\ DOMAIN jobs[j].read \subseteq PhrasePlaces
  /\ inputs \in 0 .. MaxInputs

(* An upgrade can be undone: of the newest version that changed the tables *)
(* there is a copy of the database from before, whatever older or newer    *)
(* versions ran since, and wherever the process ended, unless the copying  *)
(* itself failed, or a version newer still failed before it got so far.    *)
UpgradeCanBeUndone ==
  MaxBackups > 0 /\ schema > 0 /\ (\A v \in DOMAIN backups : v <= schema) =>
    /\ schema \in DOMAIN backups
    /\ backups[schema].whole => backups[schema].schema < schema

(* What the tables will be when the files that wait have been imported, in *)
(* their order: the last file with a text has it, and the old rows of a    *)
(* place that gets a file are gone.                                        *)
Waiting == {p \in DOMAIN files : files[p] # Bad}

Outcome ==
  [t \in Texts |->
     LET places == {p \in Waiting : t \in files[p]}
     IN IF places # {} THEN CHOOSE p \in places : \A q \in places : p >= q
        ELSE IF table[t] \in Waiting THEN Nowhere ELSE table[t]]

(* A file that came during a pass, to a place the pass has gone by, or in  *)
(* place of the file that is being imported (the code sets it aside        *)
(* unread, with the other's name).                                         *)
CameTooLate ==
  process.at \in {"stat", "rename"} /\ \E p \in DOMAIN files :
    \/ p < process.place
    \/ p = process.place /\ process.at = "rename" /\ files[p] # process.lines

(* Files are imported exactly once in effect: no step of a start, failed   *)
(* or not, and no crash between the import of a file and its renaming      *)
(* changes what the tables will be.  It is about the files that are there  *)
(* when the start comes to them.                                           *)
ImportsAreExact ==
  [][process.at \in Steps /\ inputs' = inputs /\ ~CameTooLate
     => Outcome' = Outcome]_vars

(* The checks use the phrases that are stored ("apply dictionary changes   *)
(* immediately", webapi.go): all those no request has changed since, and   *)
(* those whose change was followed by a reload that was not overtaken by   *)
(* one that had read before.                                               *)
PhrasesInEffect ==
  Up => \A t \in Phrases :
          /\ t \notin doubtful[StopPhrase] =>
               (t \in stops <=> table[t] = StopPhrase)
          /\ t \notin doubtful[IgnoredWord] =>
               (t \in excluded <=> table[t] = IgnoredWord)

=============================================================================
