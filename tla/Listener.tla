------------------------------ MODULE Listener ------------------------------
(***************************************************************************)
(* TelegramListener (app/events/listener.go) with its admin actions, its   *)
(* locator and its warnings, in a bot with one group and an admin chat.    *)
(*                                                                         *)
(* Do takes one update at a time: a message, an edit, a join, a kick, a    *)
(* reaction, a reply of an admin, a forward in the admin chat, the press   *)
(* of a button.  The detector's verdict on a message is an input: the      *)
(* classification is not this module's business.  The members, the admins  *)
(* and the failing calls are the environment.                              *)
(*                                                                         *)
(* A setting is what one start of the bot gets: its options, the updates   *)
(* that come, from whom, with which texts and until when, and the calls    *)
(* that may fail.  It never changes; Settings names the ones examined.     *)
(***************************************************************************)
EXTENDS AdminActions

CONSTANTS
  Settings,  \* records [options, updates, who, texts, until, fails]
  MaxTime    \* bound on the clock, and so on the messages

Options == {"dry", "training", "soft",   \* the modes
            "cleanup",                   \* --aggressive-cleanup
            "deleteJoins",               \* --delete.join-messages
            "suppressJoins"}             \* --suppress-join-message

Updates == {"message", "edit", "join", "kick", "reaction", "spam", "ban",
            "warn", "forward", "press", "pause"}

Calls == {"locate",  \* AddMessage and AddSpam
          "ban",     \* a ban, a restriction, an unban
          "erase",   \* the deletion of a message
          "learn",   \* UpdateSpam and UpdateHam
          "warn",    \* Warnings.Add and CountWithin
          "send",    \* a new message in the admin chat
          "edit"}    \* an edit of a message in the admin chat

ASSUME ListenerAssumption ==
  /\ MaxTime \in Nat
  /\ Settings \subseteq [options : SUBSET Options, updates : SUBSET Updates,
                         who : SUBSET Members, texts : SUBSET Texts,
                         until : 0 .. MaxTime, fails : SUBSET Calls]

vars == <<setting, now, posts, messages, spam, actions>>

-----------------------------------------------------------------------------
(* An update of this kind comes, with these calls failing; it takes an     *)
(* instant.                                                                *)
Update(kind, fails) ==
  /\ kind \in setting.updates
  /\ fails \in SUBSET setting.fails
  /\ now < setting.until
  /\ now' = now + 1
  /\ setting' = setting

locator == <<messages, spam>>

Init ==
  /\ setting \in Settings
  /\ now = 0
  /\ posts = {}
  /\ messages = {} /\ spam = {}
  /\ standing = [m \in Members |-> "free"]
  /\ approved = {}
  /\ learned = [t \in Texts |-> "nothing"]
  /\ warnings = {}
  /\ notes = << >>
  /\ presses = {}
  /\ cleanups = {}
  /\ removals = {}
  /\ bans = {}
  /\ told = {}

(* deleteExtraMessages: the earlier messages a verdict brings along.       *)
Extra(u, id, extra) ==
  IF extra /\ ~On("training") THEN {p.id : p \in {q \in posts : q.by = u}}
  ELSE {}

(* The end of procEvents for spam: a detection for the locator, then the   *)
(* ban, the note, and the deletion of the message and of those it          *)
(* repeats.  The spam of a super only makes a note, in training mode.      *)
ProcSpam(u, id, text, extra, fails) ==
  /\ AddSpam(u, now', fails)
  /\ IF IsSuper(u)
     THEN /\ IF On("training") THEN ReportBan(u, id, text, fails)
             ELSE UNCHANGED notes
          /\ UNCHANGED <<standing, bans, removals>>
     ELSE /\ Ban(u, "message", On("soft"), On("training"), fails)
          /\ IF "ban" \in fails /\ ~On("dry") /\ ~On("training")
             THEN UNCHANGED notes
             ELSE ReportBan(u, id, text, fails)
          /\ IF On("dry") \/ On("training")
             THEN UNCHANGED removals
             ELSE Erase({id} \cup Extra(u, id, extra), u, fails)

(* procEvents, for a new or an edited message.  The group's own posts are  *)
(* located but not checked.                                                *)
ProcEvents(u, id, text, isSpam, extra, fails) ==
  /\ AddMessage(text, u, id, u \in Named, now', fails)
  /\ IF isSpam /\ u # Group
     THEN ProcSpam(u, id, text, extra, fails) /\ UNCHANGED approved
     ELSE /\ approved' \in {approved, approved \cup ({u} \ {Group})}
          /\ UNCHANGED <<spam, standing, bans, notes, removals>>
  /\ UNCHANGED <<learned, warnings, presses, cleanups, told>>

Message_(u, text, isSpam, extra, fails) ==
  /\ Update("message", fails)
  /\ posts' = posts \cup {[id |-> now', by |-> u, text |-> text,
                              at |-> now']}
  /\ ProcEvents(u, now', text, isSpam, extra, fails)

EditedMessage(p, text, isSpam, extra, fails) ==
  /\ Update("edit", fails)
  /\ p.text # text
  /\ posts' = (posts \ {p}) \cup {[p EXCEPT !.text = text, !.at = now']}
  /\ ProcEvents(p.by, p.id, text, isSpam, extra, fails)

(* procNewChatMemberMessage: the join message is kept by a text made of    *)
(* the member's id, for which the id stands here, and with no name; or it  *)
(* is deleted at once.                                                     *)
ProcNewChatMemberMessage(u, fails) ==
  /\ Update("join", fails)
  /\ posts' = posts \cup {[id |-> now', by |-> u, text |-> u, at |-> now']}
  /\ IF On("deleteJoins")
     THEN Erase({now'}, u, fails) /\ UNCHANGED messages
     ELSE AddMessage(u, u, now', FALSE, now', fails) /\ UNCHANGED removals
  /\ UNCHANGED <<spam, standing, approved, learned, warnings, notes, presses,
                 cleanups, bans, told>>

(* procLeftChatMemberMessage: the member was kicked by somebody else.      *)
ProcLeftChatMemberMessage(u, fails) ==
  /\ Update("kick", fails)
  /\ On("suppressJoins")
  /\ Erase({r.id : r \in Message(u)}, u, fails)
  /\ UNCHANGED <<posts, locator, standing, approved, learned, warnings, notes,
                 presses, cleanups, bans, told>>

(* procReaction, once the detector has counted too many reactions of a     *)
(* member it has not approved.                                             *)
ProcReaction(u, fails) ==
  /\ Update("reaction", fails)
  /\ ~IsSuper(u) /\ u \notin approved
  /\ AddSpam(u, now', fails)
  /\ Ban(u, "reaction", On("soft"), On("training"), fails)
  /\ UNCHANGED <<posts, messages, approved, learned, warnings, notes, presses,
                 cleanups, removals, told>>

(* procSuperReply *)
ProcSuperReply(p, kind, fails) ==
  /\ Update(kind, fails)
  /\ IF kind = "warn"
     THEN DirectWarnReport(p, fails)
     ELSE DirectReport(p, kind = "spam", fails)
  /\ UNCHANGED <<posts, locator>>

Forward(p, hidden, fails) ==
  /\ Update("forward", fails)
  /\ MsgHandler(p, hidden, fails)
  /\ UNCHANGED <<posts, locator>>

(* Somebody in the admin chat presses a button ... *)
Press(n, b) ==
  /\ "press" \in setting.updates
  /\ AdminPress(n, b)
  /\ UNCHANGED <<setting, now, posts, locator, standing, approved, learned,
                 warnings, notes, cleanups, removals, bans, told>>

(* ... and Do comes to it. *)
HandlePress(k, fails) ==
  /\ fails \in SUBSET setting.fails
  /\ InlineCallbackHandler(k, fails)
  /\ UNCHANGED <<setting, now, posts, locator>>

(* The idle timer: time passes and nothing happens. *)
Pause ==
  /\ Update("pause", {})
  /\ UNCHANGED <<posts, locator, actions>>

Cleanup(c, fails) ==
  /\ fails \in SUBSET (setting.fails \cap {"erase"})
  /\ \/ CleanupRead(c) \/ CleanupEnd(c)
     \/ \E id \in c.left : CleanupDelete(c, id, fails)
  /\ UNCHANGED <<setting, now, posts, locator, standing, approved, learned,
                 warnings, notes, presses, bans, told>>

Do(fails) ==
  \/ \E text \in setting.texts, isSpam \in BOOLEAN, extra \in BOOLEAN :
       \/ \E u \in setting.who : Message_(u, text, isSpam, extra, fails)
       \/ \E p \in posts : /\ p.text \in Texts
                           /\ EditedMessage(p, text, isSpam, extra, fails)
  \/ \E u \in Users \cap setting.who :
       \/ ProcNewChatMemberMessage(u, fails)
       \/ ProcLeftChatMemberMessage(u, fails)
       \/ ProcReaction(u, fails)
  \/ \E p \in posts : /\ p.text \in Texts
                      /\ \/ \E kind \in {"spam", "ban", "warn"} :
                              ProcSuperReply(p, kind, fails)
                         \/ \E hidden \in BOOLEAN : Forward(p, hidden, fails)
  \/ \E k \in presses : HandlePress(k, fails)

Next ==
  \/ \E fails \in SUBSET setting.fails :
       Do(fails) \/ \E c \in cleanups : Cleanup(c, fails)
  \/ \E n \in DOMAIN notes : \E b \in notes[n].buttons : Press(n, b)
  \/ Pause

Spec == Init /\ [][Next]_vars

-----------------------------------------------------------------------------
(* Every variable has its type; presses are about notes that exist.        *)
TypeOK ==
  /\ setting \in Settings
  /\ now \in 0 .. MaxTime
  /\ posts \in SUBSET [id : 1 .. MaxTime, by : Members,
                       text : Texts \cup Users, at : 1 .. MaxTime]
  /\ messages \in SUBSET [text : Texts \cup Users, user : Members,
                          id : 1 .. MaxTime, named : BOOLEAN,
                          at : 1 .. MaxTime]
  /\ spam \in SUBSET [user : Members, at : 1 .. MaxTime]
  /\ standing \in [Members -> {"free", "restricted", "banned"}]
  /\ approved \in SUBSET Members
  /\ learned \in [Texts -> {"nothing", "spam", "ham"}]
  /\ warnings \in SUBSET [user : Members, at : 0 .. MaxTime]
  /\ \A n \in DOMAIN notes :
       notes[n] \in [user : Members, id : 1 .. MaxTime, text : Texts,
                    buttons : SUBSET {"?", "!", "+", "unban"},
                    said : {"banned", "confirmed", "unbanned"},
                    at : 1 .. MaxTime]
  /\ presses \in SUBSET [note : DOMAIN notes,
                         button : {"?", "!", "+", "unban"}]
  /\ told \in SUBSET DOMAIN notes
  /\ \A c \in cleanups : c.user \in Members /\ c.failures <= MaxFailures
  /\ \A r \in removals : r.user \in Members
  /\ \A b \in bans : b.user \in Members

(* The sites that ban without an admin who says so. *)
OwnSites == {"message", "reaction", "warn"}

(* Whoever is not free owes it to a ban the mode allows, after whatever    *)
(* sequence of verdicts, orders, late presses and unbans: a dry bot takes  *)
(* nothing from anybody, a training bot does so on an admin's word only,   *)
(* and a soft-ban bot puts a person out of the group on an admin's word    *)
(* only.  What an admin's word is worth in a mode is not said here: the    *)
(* README has the differences between the code and its documentation.      *)
BansFollowTheModes ==
  \A u \in Members : standing[u] # "free" =>
    /\ ~On("dry")
    /\ On("training") \/ (On("soft") /\ u \in Users /\ standing[u] = "banned")
       => \E b \in bans : b.user = u /\ b.site \notin OwnSites

(* Whatever is deleted on account of a member was posted by that member,   *)
(* whoever else posted the same text, edited a message, joined or left     *)
(* since: the locator's rows keep author and message together.             *)
DeletionsAreTheirs ==
  \A r \in removals : \E p \in posts : p.id = r.id /\ p.by = r.user

(* A message younger than the history can be found by its text, as that of *)
(* its author or of whoever repeated it, and the detection behind a note   *)
(* that young can be shown, however much comes in between.                 *)
LocatorRemembers ==
  "locate" \notin setting.fails =>
    /\ \A p \in posts :
         p.at >= now - TTL /\ (p.text \in Users => ~On("deleteJoins")) =>
           \E r \in messages : r.text = p.text /\ r.at >= p.at
    /\ \A n \in DOMAIN notes :
         notes[n].at >= now - TTL =>
           \E r \in spam : r.user = notes[n].user

(* A note closed with "ban confirmed", in the modes where the ban waits    *)
(* for it, means a ban, unless an error told the admins otherwise or the   *)
(* member is a super.                                                      *)
ClosedNotesAreSettled ==
  \A n \in DOMAIN notes :
    /\ notes[n].said = "confirmed"
    /\ ~On("dry") /\ (On("training") \/ On("soft"))
    /\ "send" \notin setting.fails
    => \/ \E b \in bans : b.user = notes[n].user /\ b.site = "confirm"
       \/ n \in told
       \/ IsSuper(notes[n].user)

(* A member the bot banned by itself for a message can be freed: some note *)
(* about it has buttons, or was closed by an admin who confirmed the ban.  *)
BannedCanBeFreed ==
  "send" \notin setting.fails =>
    \A u \in Members :
      standing[u] # "free" /\ (\A b \in bans : b.user = u => b.site = "message")
      => \E n \in DOMAIN notes :
           /\ notes[n].user = u
           /\ notes[n].buttons # {} \/ notes[n].said = "confirmed"

(* What the notes in the admin chat say and what was done agree: admins    *)
(* go by the notes alone, and press their buttons late, twice, or after    *)
(* steps that failed half way.                                             *)
NotesAreTrue == ClosedNotesAreSettled /\ BannedCanBeFreed

(* Nobody is banned by warnings before WarnThreshold of them came within   *)
(* one window, about that member.                                          *)
WarnBansAreEarned ==
  \A b \in bans : b.site = "warn" =>
    \E t \in 0 .. MaxTime :
      Quantify(warnings, LAMBDA w : /\ w.user = b.user
                                    /\ w.at \in (t - WarnWindow + 1) .. t)
        >= WarnThreshold

(* The anonymous admins of a group post with the id of the group, which    *)
(* every way to a ban has to tell from a channel's.                        *)
GroupIsNotBanned == standing[Group] = "free"

(* Supers are never banned, whichever of the sites it is (admin.go, "check *)
(* if user is super and don't ban if so"), nor is the group, but for the   *)
(* two sites that know supers by name only: a reply to a super without a   *)
(* username, and the confirmed ban of training mode, whose name comes from *)
(* the locator and may be that of a join message, or gone.                 *)
SupersAreSpared ==
  /\ GroupIsNotBanned
  /\ \A b \in bans : b.user \in Supers =>
       \/ b.site \in {"command", "warn"} /\ b.user \notin Named
       \/ b.site = "confirm" /\ On("training")

=============================================================================
