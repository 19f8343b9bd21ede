----------------------------- MODULE LuaPlugins -----------------------------
(***************************************************************************)
(* The Lua plugins of a detector: how its engine (lib/tgspam/plugin)       *)
(* loads the scripts of a directory at the start, and the goroutine of the *)
(* watcher that loads them again when they change, while somebody edits    *)
(* the files.  The engine reads a script twice, once to see whether it is  *)
(* fit and once for good, and the file may change in between.              *)
(*                                                                         *)
(* The content of a file is a value: one that works, one that runs but     *)
(* defines no "check", or one that cannot be run.                          *)
(***************************************************************************)
EXTENDS Naturals, SequencesExt

CONSTANTS
  Scripts,     \* names of files
  Contents,    \* what is in them
  Working,     \* the contents that define a check
  Silent,      \* the contents that run and define none
  Absent,      \* no file, no function
  MaxChanges   \* bound on the changes made to the files

ASSUME LuaAssumption ==
  /\ Working \subseteq Contents /\ Silent \subseteq Contents
  /\ Working \cap Silent = {}
  /\ Absent \notin Contents \cup Scripts
  /\ MaxChanges \in Nat

VARIABLES
  enabled,     \* --lua-plugins.enabled-plugins; none means all
  dynamic,     \* --lua-plugins.dynamic-reload
  phase,       \* how far the start has come
  files,       \* the directory
  notices,     \* what the file system has to tell the watcher
  events,      \* the files to look at: "fresh" until the debounce time is over
  todo,        \* the files this pass over the directory or the events has left
  current,     \* the script being loaded
  fit,         \* it has been read once
  global,      \* "check" in the virtual machine all scripts share
  checkers,    \* the engine's functions
  luaChecks,   \* the functions the detector calls
  changes,     \* history: changes made so far
  seen         \* history: the files changed since the watcher started

lua == <<todo, current, fit, global, checkers>>

vars == <<enabled, dynamic, phase, files, notices, events, lua, luaChecks,
          changes, seen>>

Init ==
  /\ enabled \in SUBSET Scripts /\ dynamic \in BOOLEAN
  /\ files \in [Scripts -> Contents \cup {Absent}]
  /\ phase = "load" /\ todo = {s \in Scripts : files[s] # Absent}
  /\ notices = << >> /\ events = [s \in Scripts |-> "none"]
  /\ current = Absent /\ fit = FALSE /\ global = Absent
  /\ checkers = [s \in Scripts |-> Absent]
  /\ luaChecks = [s \in Scripts |-> Absent]
  /\ changes = 0 /\ seen = {}

-----------------------------------------------------------------------------
(* The files change. *)
Change(s, content) ==
  /\ changes < MaxChanges /\ changes' = changes + 1
  /\ files' = [files EXCEPT ![s] = content]
  /\ UNCHANGED <<enabled, dynamic, phase, events, lua, luaChecks>>

Notify(s) ==
  IF phase = "run"
  THEN notices' = Append(notices, s) /\ seen' = seen \cup {s}
  ELSE UNCHANGED <<notices, seen>>

Write(s, content) == Change(s, content) /\ Notify(s)

RemoveFile(s) == files[s] # Absent /\ Change(s, Absent) /\ Notify(s)

(* The watcher does not look at events of this kind. *)
MoveAway(s) ==
  files[s] # Absent /\ Change(s, Absent) /\ UNCHANGED <<notices, seen>>

-----------------------------------------------------------------------------
Idle == todo = {} /\ current = Absent

(* handleEvent *)
HandleEvent ==
  /\ phase = "run" /\ Idle /\ notices # << >>
  /\ events' = [events EXCEPT ![Head(notices)] = "fresh"]
  /\ notices' = Tail(notices)
  /\ UNCHANGED <<enabled, dynamic, phase, files, lua, luaChecks, changes, seen>>

(* Half a second without an event for the file. *)
Ripen(s) ==
  /\ events[s] = "fresh"
  /\ events' = [events EXCEPT ![s] = "ripe"]
  /\ UNCHANGED <<enabled, dynamic, phase, files, notices, lua, luaChecks,
                 changes, seen>>

(* processEvents starts.  Without an event it would do nothing.  *)
Tick ==
  /\ phase = "run" /\ Idle
  /\ todo' = {s \in Scripts : events[s] = "ripe"} /\ todo' # {}
  /\ UNCHANGED <<enabled, dynamic, phase, files, notices, events, current, fit,
                 global, checkers, luaChecks, changes, seen>>

(* Mutant: the pass ends with a file that is gone. *)
SkipRest(s) ==
  /\ phase = "run" /\ current = Absent /\ s \in todo /\ files[s] = Absent
  /\ todo' = {}
  /\ UNCHANGED <<enabled, dynamic, phase, files, notices, events, current, fit,
                 global, checkers, luaChecks, changes, seen>>

(* A file that is gone: its event stays, and its function as well. *)
Skip(s) ==
  /\ phase = "run" /\ current = Absent /\ s \in todo /\ files[s] = Absent
  /\ todo' = todo \ {s}
  /\ UNCHANGED <<enabled, dynamic, phase, files, notices, events, current, fit,
                 global, checkers, luaChecks, changes, seen>>

(* ReloadScript: the old function goes first. *)
ReloadScript(s) ==
  /\ phase = "run" /\ current = Absent /\ s \in todo /\ files[s] # Absent
  /\ checkers' = [checkers EXCEPT ![s] = Absent]
  /\ current' = s
  /\ UNCHANGED <<enabled, dynamic, phase, files, notices, events, todo, fit,
                 global, luaChecks, changes, seen>>

(* LoadDirectory, the next file. *)
LoadScript(s) ==
  /\ phase = "load" /\ current = Absent /\ s \in todo
  /\ current' = s
  /\ UNCHANGED <<enabled, dynamic, phase, files, notices, events, todo, fit,
                 global, checkers, luaChecks, changes, seen>>

(* Mutant: the pass forgets all events, not that of the script only. *)
FinishAll(failed) ==
  /\ current' = Absent /\ fit' = FALSE
  /\ todo' = IF phase = "load" /\ failed THEN {} ELSE todo \ {current}
  /\ phase' = IF phase = "load" /\ failed THEN "failed" ELSE phase
  /\ events' = IF phase = "run" THEN [s \in Scripts |-> "none"] ELSE events

(* LoadScript returns.  An error ends the start, and is logged by the      *)
(* watcher, which forgets the event either way.                            *)
Finish(failed) ==
  /\ current' = Absent /\ fit' = FALSE
  /\ todo' = IF phase = "load" /\ failed THEN {} ELSE todo \ {current}
  /\ phase' = IF phase = "load" /\ failed THEN "failed" ELSE phase
  /\ events' = IF phase = "run" THEN [events EXCEPT ![current] = "none"]
               ELSE events

(* LoadScript, first reading: in a virtual machine of its own. *)
ReadFirst ==
  /\ current # Absent /\ ~fit
  /\ IF files[current] \in Working
     THEN fit' = TRUE /\ UNCHANGED <<phase, events, todo, current>>
     ELSE Finish(TRUE)
  /\ UNCHANGED <<enabled, dynamic, files, notices, global, checkers, luaChecks,
                 changes, seen>>

(* Mutant: whatever the shared virtual machine holds is taken. *)
ReadAgainUnchecked ==
  /\ current # Absent /\ fit
  /\ IF files[current] \in Working \cup Silent
     THEN /\ checkers' = [checkers EXCEPT ![current] = files[current]]
          /\ global' = files[current] /\ Finish(FALSE)
     ELSE UNCHANGED <<checkers, global>> /\ Finish(TRUE)
  /\ UNCHANGED <<enabled, dynamic, files, notices, luaChecks, changes, seen>>

(* LoadScript, second reading: in the shared one, where a script without a *)
(* check of its own finds that of the script before.                       *)
ReadAgain ==
  /\ current # Absent /\ fit
  /\ global' = IF files[current] \in Working THEN files[current] ELSE global
  /\ IF files[current] \in Working \cup Silent /\ global' # Absent
     THEN /\ checkers' = [checkers EXCEPT ![current] = global']
          /\ Finish(FALSE)
     ELSE UNCHANGED checkers /\ Finish(TRUE)
  /\ UNCHANGED <<enabled, dynamic, files, notices, luaChecks, changes, seen>>

(* WithLuaEngine: the detector takes the functions that are enabled.  With *)
(* a name that has none it keeps those it took before it, and gives up.    *)
Register ==
  /\ phase = "load" /\ Idle
  /\ LET wanted == IF enabled = {} THEN Scripts ELSE enabled
         missing == {s \in enabled : checkers[s] = Absent}
     IN \E taken \in SUBSET (wanted \ missing) :
          /\ missing = {} => taken = wanted
          /\ luaChecks' = [s \in Scripts |-> IF s \in taken THEN checkers[s]
                                             ELSE Absent]
          /\ phase' = IF missing # {} THEN "failed"
                      ELSE IF dynamic THEN "watch" ELSE "static"
  /\ UNCHANGED <<enabled, dynamic, files, notices, events, lua, changes, seen>>

(* The watcher starts. *)
Watch ==
  /\ phase = "watch" /\ phase' = "run"
  /\ UNCHANGED <<enabled, dynamic, files, notices, events, lua, luaChecks,
                 changes, seen>>

Process(s) == Skip(s) \/ ReloadScript(s)

Next ==
  \/ \E s \in Scripts : \/ \E content \in Contents : Write(s, content)
                        \/ RemoveFile(s) \/ MoveAway(s)
                        \/ Ripen(s) \/ Process(s) \/ LoadScript(s)
  \/ HandleEvent \/ Tick \/ ReadFirst \/ ReadAgain \/ Register \/ Watch

(* The start and the watcher's goroutine go on, and time passes.  The loop *)
(* waits in a select, which takes any case that is ready at random: none   *)
(* is passed over for ever.  Nobody has to change a file.                  *)
Fairness ==
  /\ SF_vars(HandleEvent) /\ SF_vars(Tick)
  /\ WF_vars(ReadFirst) /\ WF_vars(ReadAgain)
  /\ WF_vars(Register) /\ WF_vars(Watch)
  /\ WF_vars(\E s \in Scripts : LoadScript(s))
  /\ WF_vars(\E s \in Scripts : Process(s))
  /\ \A s \in Scripts : WF_vars(Ripen(s))

Spec == Init /\ [][Next]_vars /\ Fairness

-----------------------------------------------------------------------------
(* Every variable has its type, and only what works is ever called.        *)
TypeOK ==
  /\ enabled \subseteq Scripts /\ dynamic \in BOOLEAN
  /\ phase \in {"load", "failed", "watch", "static", "run"}
  /\ files \in [Scripts -> Contents \cup {Absent}]
  /\ notices \in Seq(Scripts)
  /\ events \in [Scripts -> {"none", "fresh", "ripe"}]
  /\ todo \subseteq Scripts /\ current \in todo \cup {Absent}
  /\ fit \in BOOLEAN /\ (fit => current # Absent)
  /\ global \in Working \cup {Absent}
  /\ checkers \in [Scripts -> Working \cup {Absent}]
  /\ luaChecks \in [Scripts -> Working \cup {Absent}]
  /\ changes \in 0 .. MaxChanges /\ seen \subseteq Scripts

(* The function a check runs: the one that was bound, not its name. *)
Called(s) == luaChecks[s]

Pending(s) == events[s] # "none" \/ s \in Range(notices)

Expected(content) == IF content \in Working THEN content ELSE Absent

(* Once the watcher has caught up with a file that changed, the engine has *)
(* the function of the file as it is, or none if it is unfit, whatever     *)
(* happened to the file while it was read.                                 *)
SettledIsCurrent ==
  \A s \in seen : ~Pending(s) /\ files[s] # Absent
                    => checkers[s] = Expected(files[s])

(* A working script that is written and left alone is loaded in the end,   *)
(* whatever became of the other files.                                     *)
ChangesAreLoaded ==
  \A s \in Scripts, content \in Working :
    (s \in seen /\ files[s] = content)
      ~> (checkers[s] = content \/ files[s] # content)

(* Plugins are reloaded when they change (README, "Optionally, enable      *)
(* dynamic reloading"): the detector calls the new function in the end.    *)
ReloadTakesEffect ==
  \A s \in Scripts, content \in Working :
    (s \in seen /\ Called(s) # Absent /\ files[s] = content)
      ~> (Called(s) = content \/ files[s] # content)

=============================================================================
