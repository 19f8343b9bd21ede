---------------------------- MODULE AdminActions ----------------------------
(***************************************************************************)
(* What admins do to members (app/events/admin.go) in a bot with one       *)
(* group: they reply /spam, /ban or /warn to a message, forward a missed   *)
(* message to the admin chat, and press the buttons under the notes the    *)
(* bot posts there about its own bans.                                     *)
(*                                                                         *)
(* Every handler looks at the modes of the bot (dry, training, soft ban)   *)
(* for itself, effect by effect, and any call may fail: the failing ones   *)
(* of a step are its parameter "fails".  Handlers run one at a time; a     *)
(* button press is handled later than it is made, with the keyboard and    *)
(* the text the note had when it was pressed.  Only the removal of all     *)
(* messages of a spammer runs beside them, in a goroutine of its own.      *)
(***************************************************************************)
EXTENDS Locator, Sequences

CONSTANTS
  Users,          \* people
  Channels,       \* channels that post in the group
  Group,          \* the group itself, whose anonymous admins post as it
  Supers,         \* the people the bot takes for admins
  Named,          \* the people and channels that have a username
  Texts,          \* the texts of the messages, never empty
  WarnThreshold,  \* warnings that ban, 0 = never (--warn.threshold)
  WarnWindow,     \* the time they count for (--warn.window)
  CleanupLimit,   \* messages removed by aggressive cleanup
  MaxFailures,    \* failures in a row that stop it (5)
  MaxPresses      \* bound on the presses waiting to be handled

Members == Users \cup Channels \cup {Group}

ASSUME AdminActionsAssumption ==
  /\ Supers \subseteq Users /\ Named \subseteq Users \cup Channels
  /\ Group \notin Users \cup Channels /\ Users \cap Channels = {}
  /\ Users \cap Texts = {}
  /\ {WarnThreshold, WarnWindow, CleanupLimit, MaxFailures, MaxPresses}
       \subseteq Nat

VARIABLES
  setting,   \* how the bot was started: a record with its "options"
  now,       \* the clock; a message has the instant it came as its id
  posts,     \* the messages sent to the group: [id, by, text, at]
  standing,  \* what Telegram lets each member do
  approved,  \* the members the detector has approved
  learned,   \* what each text was last learned as
  warnings,  \* the warnings table: [user, at]
  notes,     \* the notes with buttons in the admin chat
  presses,   \* button presses not handled yet
  cleanups,  \* running removals of all messages of a member
  removals,  \* history: deleted messages, with the member this was done to
  bans,      \* history: the bans that went through, with what led to them
  told       \* history: notes about which an error went to the admin chat

actions == <<standing, approved, learned, warnings, notes, presses, cleanups,
             removals, bans, told>>

On(option) == option \in setting.options

IsSuper(u) == u \in Supers

(* Mutant: replies spare nobody. *)
IsNamedSuperNever(u) == FALSE

(* Replies are checked by name first: who has none is not found. *)
IsNamedSuper(u) == u \in Named /\ IsSuper(u)

-----------------------------------------------------------------------------
(* The effects the handlers are made of. *)

(* Mutant: a soft ban asks for the mode of the bot only. *)
BanAlways(u, site, restrict, training, fails) ==
  IF training \/ "ban" \in fails
  THEN UNCHANGED <<standing, bans>>
  ELSE LET kind == IF restrict /\ u \notin Channels
                   THEN "restricted" ELSE "banned"
       IN /\ standing' = [standing EXCEPT ![u] = kind]
          /\ bans' = bans \cup {[user |-> u, site |-> site, kind |-> kind]}

(* banUserOrChannel: nothing happens in dry mode and in training mode, the *)
(* latter as the site sees it, and a channel is never only restricted.     *)
Ban(u, site, restrict, training, fails) ==
  IF On("dry") \/ training \/ "ban" \in fails
  THEN UNCHANGED <<standing, bans>>
  ELSE LET kind == IF restrict /\ u \notin Channels
                   THEN "restricted" ELSE "banned"
       IN /\ standing' = [standing EXCEPT ![u] = kind]
          /\ bans' = bans \cup {[user |-> u, site |-> site, kind |-> kind]}

Erase(ids, u, fails) ==
  removals' = IF "erase" \in fails THEN removals
              ELSE removals \cup {[id |-> i, user |-> u] : i \in ids}

Learn(text, class) == learned' = [learned EXCEPT ![text] = class]

(* The Telegram call that failed is the only thing that went wrong: an     *)
(* error of a callback goes to the admin chat.                             *)
Complain(n, fails) ==
  told' = IF "send" \in fails THEN told ELSE told \cup {n}

-----------------------------------------------------------------------------
(* ReportBan: a note about a ban, with the buttons "change ban" and "info". *)
ReportBan(u, id, text, fails) ==
  notes' = IF "send" \in fails THEN notes
           ELSE Append(notes, [user |-> u, id |-> id, text |-> text,
                               buttons |-> {"?", "!"}, said |-> "banned",
                               at |-> now'])

(* directReport: /spam and /ban.  A failure to learn ends it before the    *)
(* deletion and the ban, though after the approval is gone.  The ban is    *)
(* for real in soft-ban mode too.  The clean-up looks at dry mode only.    *)
DirectReport(p, learns, fails) ==
  /\ ~IsNamedSuper(p.by)
  /\ approved' = approved \ {p.by}
  /\ \/ /\ On("dry") \/ (learns /\ "learn" \in fails)
        /\ UNCHANGED <<standing, learned, cleanups, removals, bans>>
     \/ /\ ~On("dry") /\ ~(learns /\ "learn" \in fails)
        /\ IF learns THEN Learn(p.text, "spam") ELSE UNCHANGED learned
        /\ Erase({p.id}, p.by, fails)
        /\ IF p.by = Group
           THEN UNCHANGED <<standing, cleanups, bans>>
           ELSE /\ Ban(p.by, "command", FALSE, On("training"), fails)
                /\ cleanups' = IF On("cleanup")
                               THEN cleanups \cup
                                      {[user |-> p.by, listed |-> FALSE,
                                        left |-> {}, failures |-> 0]}
                               ELSE cleanups
  /\ UNCHANGED <<warnings, notes, presses, told>>

(* Mutant: warnings older than the window count. *)
CountWithinRetention(table, u) == Quantify(table, LAMBDA w : w.user = u)

(* CountWithin *)
CountWithin(table, u) ==
  Quantify(table, LAMBDA w : w.user = u /\ w.at > now' - WarnWindow)

(* resolveWarnTarget: a post of the group has nobody to warn. *)
IsWarnTarget(u) == u # Group

(* Warnings.Add.  The retention of the table, a year, is longer than any   *)
(* run of the model.                                                       *)
AddWarning(u) == warnings' = warnings \cup {[user |-> u, at |-> now']}

(* trackWarnAndMaybeBan, executeWarnBan.  It is the writing of the warning *)
(* or the counting that fails, and neither bans.                           *)
TrackWarnAndMaybeBan(u, fails) ==
  \/ /\ WarnThreshold = 0 \/ ~IsWarnTarget(u) \/ "warn" \in fails
     /\ UNCHANGED <<warnings, standing, bans>>
  \/ /\ WarnThreshold > 0 /\ IsWarnTarget(u)
     /\ AddWarning(u)
     /\ IF "warn" \notin fails /\ CountWithin(warnings', u) >= WarnThreshold
        THEN Ban(u, "warn", On("soft"), On("training"), fails)
        ELSE UNCHANGED <<standing, bans>>

(* DirectWarnReport: the message goes in every mode. *)
DirectWarnReport(p, fails) ==
  /\ ~IsNamedSuper(p.by)
  /\ Erase({p.id}, p.by, fails)
  /\ TrackWarnAndMaybeBan(p.by, fails)
  /\ UNCHANGED <<approved, learned, notes, presses, cleanups, told>>

-----------------------------------------------------------------------------
(* MsgHandler: a forward in the admin chat.  The author is whoever posted  *)
(* the text last, as far as the locator remembers; the sender Telegram     *)
(* names counts only when the locator has no row.                          *)
MsgHandlerFound(row, fails) ==
  /\ ~IsSuper(row.user)
  /\ approved' = approved \ {row.user}
  /\ IF On("dry") \/ "learn" \in fails
     THEN UNCHANGED <<learned, removals, standing, bans>>
     ELSE /\ Learn(row.text, "spam")
          /\ Erase({row.id}, row.user, fails)
          /\ IF row.user = Group
             THEN UNCHANGED <<standing, bans>>
             ELSE Ban(row.user, "forward", FALSE, On("training"), fails)
  /\ UNCHANGED <<warnings, notes, presses, cleanups, told>>

(* msgHandlerFallback: the message itself cannot be deleted. *)
MsgHandlerFallback(u, text, fails) ==
  /\ ~IsSuper(u)
  /\ approved' = approved \ {u}
  /\ IF On("dry") \/ "learn" \in fails
     THEN UNCHANGED <<learned, standing, bans>>
     ELSE /\ Learn(text, "spam")
          /\ Ban(u, "forward", FALSE, On("training"), fails)
  /\ UNCHANGED <<warnings, notes, presses, cleanups, removals, told>>

(* p is forwarded; a person may hide that it is the sender. *)
MsgHandler(p, hidden, fails) ==
  \/ \E row \in Message(p.text) : MsgHandlerFound(row, fails)
  \/ /\ Message(p.text) = {}
     /\ p.by \in Users /\ ~hidden
     /\ MsgHandlerFallback(p.by, p.text, fails)

-----------------------------------------------------------------------------
(* The buttons. *)

AdminPress(n, b) ==
  /\ b \in notes[n].buttons
  /\ Cardinality(presses) < MaxPresses
  /\ presses' = presses \cup {[note |-> n, button |-> b]}

Handle(k, b) == k.button = b /\ presses' = presses \ {k}

Edit(n, buttons, said) ==
  notes' = [notes EXCEPT ![n].buttons = buttons, ![n].said = said]

Failed(k, fails) == Complain(k.note, fails)

(* callbackAskBanConfirmation: only the keyboard changes. *)
CallbackAskBanConfirmation(k, fails) ==
  /\ Handle(k, "?")
  /\ IF "edit" \in fails
     THEN Failed(k, fails) /\ UNCHANGED notes
     ELSE Edit(k.note, {"unban", "+"}, notes[k.note].said) /\ UNCHANGED told
  /\ UNCHANGED <<standing, approved, learned, warnings, cleanups, removals,
                 bans>>

(* callbackShowInfo: the text and the first button the note had when this  *)
(* one was pressed come back, with the detection results.                  *)
CallbackShowInfo(k, fails) ==
  /\ Handle(k, "!")
  /\ IF "edit" \in fails
     THEN Failed(k, fails) /\ UNCHANGED notes
     ELSE Edit(k.note, {"?"}, "banned") /\ UNCHANGED told
  /\ UNCHANGED <<standing, approved, learned, warnings, cleanups, removals,
                 bans>>

(* Mutant: a failed ban is only logged. *)
DeleteAndBanQuietly(n, fails) ==
  LET note == notes[n]
  IN \E named \in UserNameByID(note.user) :
       /\ IF named /\ IsSuper(note.user)
          THEN UNCHANGED <<standing, bans>>
          ELSE Ban(note.user, "confirm", FALSE, FALSE, fails)
       /\ Erase({note.id}, note.user, fails)
       /\ IF "erase" \in fails
          THEN Complain(n, fails)
          ELSE UNCHANGED told

(* deleteAndBan: the ban of training mode, once an admin confirmed it.     *)
(* The name that shows a super comes from the locator.  The message goes   *)
(* in dry mode too.                                                        *)
DeleteAndBan(n, fails) ==
  LET note == notes[n]
  IN \E named \in UserNameByID(note.user) :
       LET super == named /\ IsSuper(note.user)
       IN /\ IF super
             THEN UNCHANGED <<standing, bans>>
             ELSE Ban(note.user, "confirm", FALSE, FALSE, fails)
          /\ Erase({note.id}, note.user, fails)
          /\ IF "erase" \in fails \/ (~super /\ "ban" \in fails)
             THEN Complain(n, fails)
             ELSE UNCHANGED told

(* callbackBanConfirmed: the note is closed first, then the text is        *)
(* learned, and only then training and soft-ban mode do the real ban.      *)
CallbackBanConfirmed(k, fails) ==
  LET note == notes[k.note]
  IN /\ Handle(k, "+")
     /\ \/ /\ "edit" \in fails
           /\ Failed(k, fails)
           /\ UNCHANGED <<notes, learned, standing, removals, bans>>
        \/ /\ "edit" \notin fails
           /\ Edit(k.note, {}, "confirmed")
           /\ \/ /\ "learn" \in fails
                 /\ Failed(k, fails)
                 /\ UNCHANGED <<learned, standing, removals, bans>>
              \/ /\ "learn" \notin fails
                 /\ Learn(note.text, "spam")
                 /\ CASE On("training") -> DeleteAndBan(k.note, fails)
                      [] On("soft") /\ ~On("training") ->
                           /\ Ban(note.user, "confirm", FALSE, FALSE, fails)
                           /\ IF "ban" \in fails THEN Failed(k, fails)
                              ELSE UNCHANGED told
                           /\ UNCHANGED removals
                      [] OTHER -> UNCHANGED <<standing, removals, bans, told>>
     /\ UNCHANGED <<approved, warnings, cleanups>>

(* unban, unbanChannel.  Soft-ban mode lifts the restrictions; what that   *)
(* does to a banned member is up to Telegram.                              *)
Unbanned(u) ==
  IF On("soft") /\ u \notin Channels /\ standing[u] = "banned"
  THEN {"banned", "free"}
  ELSE {"free"}

(* callbackUnbanConfirmed: it changes everything in dry mode too; training *)
(* mode leaves out the unban itself.                                       *)
CallbackUnbanConfirmed(k, fails) ==
  LET u == notes[k.note].user
      lifts == ~On("training")
  IN /\ Handle(k, "unban")
     /\ \/ /\ "learn" \in fails
           /\ Failed(k, fails)
           /\ UNCHANGED <<learned, standing, approved, notes>>
        \/ /\ "learn" \notin fails
           /\ Learn(notes[k.note].text, "ham")
           /\ \/ /\ lifts /\ "ban" \in fails
                 /\ Failed(k, fails)
                 /\ UNCHANGED <<standing, approved, notes>>
              \/ /\ ~(lifts /\ "ban" \in fails)
                 /\ \E s \in IF lifts THEN Unbanned(u) ELSE {standing[u]} :
                      standing' = [standing EXCEPT ![u] = s]
                 /\ approved' = approved \cup {u}
                 /\ IF "edit" \in fails
                    THEN Failed(k, fails) /\ UNCHANGED notes
                    ELSE Edit(k.note, {}, "unbanned") /\ UNCHANGED told
     /\ UNCHANGED <<warnings, cleanups, removals, bans>>

(* InlineCallbackHandler: the prefix of the payload tells the button. *)
InlineCallbackHandler(k, fails) ==
  \/ CallbackAskBanConfirmation(k, fails)
  \/ CallbackShowInfo(k, fails)
  \/ CallbackBanConfirmed(k, fails)
  \/ CallbackUnbanConfirmed(k, fails)

-----------------------------------------------------------------------------
(* deleteUserMessages, in the goroutine of a /spam or /ban: the list is    *)
(* read once, then the messages go one by one.                             *)
CleanupRead(c) ==
  /\ ~c.listed
  /\ cleanups' = (cleanups \ {c}) \cup
                   {[c EXCEPT !.listed = TRUE,
                              !.left = GetUserMessageIDs(c.user,
                                                         CleanupLimit)]}
  /\ UNCHANGED removals

(* Mutant: it never gives up. *)
CleanupDeleteOn(c, id, fails) ==
  /\ c.listed /\ id \in c.left
  /\ Erase({id}, c.user, fails)
  /\ cleanups' = (cleanups \ {c}) \cup
                   {[c EXCEPT !.left = @ \ {id},
                              !.failures = IF "erase" \in fails
                                           THEN @ + 1 ELSE 0]}

CleanupDelete(c, id, fails) ==
  /\ c.listed /\ id \in c.left /\ c.failures < MaxFailures
  /\ Erase({id}, c.user, fails)
  /\ cleanups' = (cleanups \ {c}) \cup
                   {[c EXCEPT !.left = @ \ {id},
                              !.failures = IF "erase" \in fails
                                           THEN @ + 1 ELSE 0]}

CleanupEnd(c) ==
  /\ c.listed /\ (c.left = {} \/ c.failures >= MaxFailures)
  /\ cleanups' = cleanups \ {c}
  /\ UNCHANGED removals

=============================================================================
