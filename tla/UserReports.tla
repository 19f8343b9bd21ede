---------------------------- MODULE UserReports ----------------------------
(***************************************************************************)
(* The /report workflow of one group (app/events/reports.go over the table *)
(* of app/storage/reports.go): approved members report a message, the      *)
(* reports are collected in the reports table, a quorum of them posts a    *)
(* notification with buttons to the admin chat, a larger quorum bans       *)
(* without asking, and the admins' button presses settle the case.         *)
(*                                                                         *)
(* All handlers run in the goroutine of TelegramListener.Do, one update at *)
(* a time, so a handler is one action.  What interleaves with them is the  *)
(* world: members report, admins press buttons of whatever keyboard they   *)
(* see and the press is handled later, time passes, and any call to        *)
(* Telegram or to the database may fail.  The calls that fail in a step    *)
(* are its parameter "fails".  A crash in the middle of a handler leaves   *)
(* what the failure of all its remaining calls leaves, as the handlers     *)
(* keep no state in memory between calls.                                  *)
(***************************************************************************)
EXTENDS Integers, FiniteSets, Sequences

CONSTANTS
  Users,             \* the members of the group
  Messages,          \* the messages that may be reported
  Admins,            \* the people who press buttons in the admin chat
  Author,            \* the sender of each message
  SuperUsers,        \* the members the bot takes for admins
  StoredApproved,    \* the approved members the bot loads at its start
  WithText,          \* the messages whose text is not empty
  Threshold,         \* reports that notify the admins (--report.threshold)
  AutoBanThreshold,  \* reports that ban at once, 0 = never
  RateLimit,         \* reports of one member per period, 0 = no limit
  RatePeriod,        \* the length of that period
  Retention,         \* the age at which a report is dropped (7 days)
  HasAdminChat,      \* an admin chat is configured
  Dry, Training, SoftBan,   \* the modes of the bot
  Settings,          \* what is tried: the messages that are reported, the
                     \* calls that fail and a bound on the clock
  MaxNotes           \* bound on the messages posted to the admin chat

(* The fallible calls whose failure still leaves a trace in the state. *)
Calls == {"cleanup",   \* cleanupOldReports
          "read",      \* the first GetByMessage of a handler
          "reread",    \* the second one, of callbackReportBanReporterConfirm
          "record",    \* UpdateAdminMsgID
          "delete",    \* DeleteByMessage
          "deleteOne", \* DeleteReporter
          "learn",     \* Bot.UpdateSpam
          "erase",     \* the deletion of the reported message
          "ban",       \* the ban or restriction of a member
          "send",      \* a new message in the admin chat
          "edit"}      \* an edit of a message in the admin chat

(* Those a report makes, and those a press of a button makes. *)
ReportCalls == Calls \ {"reread", "deleteOne"}

CallbackCalls == Calls \ {"cleanup", "record", "send"}

ASSUME UserReportsAssumption ==
  /\ Author \in [Messages -> Users]
  /\ SuperUsers \subseteq Users
  /\ StoredApproved \subseteq Users
  /\ WithText \subseteq Messages
  /\ IsFiniteSet(Users)
  /\ Threshold \in Nat \ {0}
  /\ AutoBanThreshold \in Nat
  /\ AutoBanThreshold > 0 => AutoBanThreshold >= Threshold
  /\ RateLimit \in Nat
  /\ RatePeriod \in Nat
  /\ Retention \in Nat
  /\ HasAdminChat \in BOOLEAN
  /\ Dry \in BOOLEAN /\ Training \in BOOLEAN /\ SoftBan \in BOOLEAN
  /\ Settings \subseteq
       [about : SUBSET Messages, fails : SUBSET Calls, until : Nat]
  /\ MaxNotes \in Nat

VARIABLES
  setting,    \* what this behaviour tries, one of Settings
  now,        \* the clock
  rows,       \* the reports table
  notes,      \* the notifications in the admin chat, in the order posted
  clicks,     \* button presses not yet handled, at most one per admin
  approved,   \* the members Bot.IsApprovedUser accepts
  standing,   \* what Telegram lets each member do
  deleted,    \* the reported messages the bot removed from the group
  learned,    \* the messages added to the spam samples
  filed       \* history: every report ever inserted, never deleted

vars == <<setting, now, rows, notes, clicks, approved, standing, deleted,
          learned, filed>>

(* The group and the bot's knowledge, as one for UNCHANGED. *)
effects == <<approved, standing, deleted, learned>>

-----------------------------------------------------------------------------
(* The types.  A row of the table keeps the notification flag and the id   *)
(* of the notification, 0 when none was recorded.                          *)

Row == [msg : Messages, by : Users, at : Nat, sent : BOOLEAN, note : Nat]

Key == [button : {"R+", "R-", "R?", "R!", "RX"}, user : Users]

Note == [msg : Messages, keyboard : SUBSET Key]

Click == [admin : Admins, note : Nat, button : {"R+", "R-", "R?", "R!", "RX"},
          user : Users]

Standing == {"member", "restricted", "banned"}

Filing == [msg : Messages, by : Users, at : Nat]

-----------------------------------------------------------------------------
(* The reports table.                                                      *)

(* GetByMessage: the reports about a message.  The query orders them by    *)
(* time; the code looks at reports[0], one of Oldest.                      *)
About(table, m) == {r \in table : r.msg = m}

(* The other end, for a mutant: ORDER BY report_time DESC. *)
Newest(reports) == {r \in reports : \A s \in reports : r.at >= s.at}

Oldest(reports) == {r \in reports : \A s \in reports : r.at <= s.at}

(* Mutant: -1 stands for "no notification yet". *)
InsertMinusOne(u, m) ==
  IF \E r \in rows : r.msg = m /\ r.by = u
  THEN rows
  ELSE rows \cup
         {[msg |-> m, by |-> u, at |-> now, sent |-> FALSE, note |-> -1]}

(* INSERT OR IGNORE on (message, reporter). *)
Insert(u, m) ==
  IF \E r \in rows : r.msg = m /\ r.by = u
  THEN rows
  ELSE rows \cup
         {[msg |-> m, by |-> u, at |-> now, sent |-> FALSE, note |-> 0]}

(* Add: the insertion and the clean-up of everything too old. *)
Add(u, m, fails) ==
  IF "cleanup" \in fails
  THEN Insert(u, m)
  ELSE {r \in Insert(u, m) : r.at >= now - Retention}

(* Mutant: only the report that completed the quorum is marked. *)
UpdateAdminMsgIDOfLatest(table, m, id, fails) ==
  IF "record" \in fails
  THEN table
  ELSE {IF r \in Newest(About(table, m))
        THEN [r EXCEPT !.sent = TRUE, !.note = id] ELSE r : r \in table}

(* All reports about m get the flag and the id of the notification. *)
UpdateAdminMsgID(table, m, id, fails) ==
  IF "record" \in fails
  THEN table
  ELSE {IF r.msg = m THEN [r EXCEPT !.sent = TRUE, !.note = id] ELSE r :
          r \in table}

(* Mutant: the WHERE clause forgets the message. *)
DeleteAll(table, m, fails) ==
  IF "delete" \in fails THEN table ELSE {}

DeleteByMessage(table, m, fails) ==
  IF "delete" \in fails THEN table ELSE {r \in table : r.msg # m}

(* Mutant: the WHERE clause forgets the reporter. *)
DeleteReporterAll(table, u, m, fails) ==
  IF "deleteOne" \in fails
  THEN table
  ELSE {r \in table : r.msg # m}

DeleteReporter(table, u, m, fails) ==
  IF "deleteOne" \in fails
  THEN table
  ELSE {r \in table : ~(r.msg = m /\ r.by = u)}

(* GetReporterCountSince against the limit. *)
RateLimited(u) ==
  /\ RateLimit > 0
  /\ Cardinality({r \in rows : r.by = u /\ r.at > now - RatePeriod})
       >= RateLimit

-----------------------------------------------------------------------------
(* The admin chat.                                                         *)

(* Approve Ban, Reject, Ban Reporter; the payload names the author. *)
ActionKeyboard(m) ==
  {[button |-> b, user |-> Author[m]] : b \in {"R+", "R-", "R?"}}

(* One button per reporter, and Cancel. *)
ReporterKeyboard(m, reports) ==
  {[button |-> "R!", user |-> r.by] : r \in reports}
    \cup {[button |-> "RX", user |-> Author[m]]}

NoKeyboard == {}

Post(m, keyboard, fails) ==
  IF "send" \in fails
  THEN notes
  ELSE Append(notes, [msg |-> m, keyboard |-> keyboard])

Edit(id, keyboard, fails) ==
  IF "edit" \in fails
  THEN notes
  ELSE [notes EXCEPT ![id].keyboard = keyboard]

-----------------------------------------------------------------------------
(* The group.                                                              *)

(* Mutant: members are always banned for real. *)
BanUserForReal(u, restrict, fails) ==
  IF Dry \/ Training \/ "ban" \in fails
  THEN standing
  ELSE [standing EXCEPT ![u] = "banned"]

(* banUserOrChannel for a member. *)
BanUser(u, restrict, fails) ==
  IF Dry \/ Training \/ "ban" \in fails
  THEN standing
  ELSE [standing EXCEPT ![u] = IF restrict THEN "restricted" ELSE "banned"]

(* What an automatic and an approved ban do to the author of m: drop the   *)
(* approval, learn the text, delete the message, ban or restrict.          *)
PunishAuthor(m, fails) ==
  /\ approved' = approved \ {Author[m]}
  /\ learned' = IF Dry \/ m \notin WithText \/ "learn" \in fails
                THEN learned
                ELSE learned \cup {m}
  /\ deleted' = IF Dry \/ "erase" \in fails
                THEN deleted
                ELSE deleted \cup {m}
  /\ standing' = BanUser(Author[m], SoftBan, fails)

-----------------------------------------------------------------------------
Init ==
  /\ setting \in Settings
  /\ now = 0
  /\ rows = {}
  /\ notes = << >>
  /\ clicks = {}
  /\ approved = StoredApproved
  /\ standing = [u \in Users |-> "member"]
  /\ deleted = {}
  /\ learned = {}
  /\ filed = {}

(* The member becomes approved: by the messages the detector lets pass, by *)
(* an unban or in the web UI.  The ban of a report may take it back.       *)
AddApprovedUser(u) ==
  /\ approved' = approved \cup {u}
  /\ UNCHANGED <<now, rows, notes, clicks, standing, deleted, learned, filed>>

Tick ==
  /\ now < setting.until
  /\ now' = now + 1
  /\ UNCHANGED <<rows, notes, clicks, effects, filed>>

-----------------------------------------------------------------------------
(* A report.  "stored" is the table once the new report is in.             *)

(* Mutant: off by one. *)
QuorumReachedEarly(reports) == Cardinality(reports) + 1 >= Threshold

QuorumReached(reports) == Cardinality(reports) >= Threshold

(* Mutant: off by one. *)
AutoBanReachedLate(reports) ==
  AutoBanThreshold > 0 /\ Cardinality(reports) > AutoBanThreshold

AutoBanReached(reports) ==
  AutoBanThreshold > 0 /\ Cardinality(reports) >= AutoBanThreshold

(* executeAutoBan: punish, tell the admins, and drop the reports only when *)
(* that message got through.                                               *)
ExecuteAutoBan(m, first, stored, fails) ==
  LET told == \/ ~HasAdminChat
              \/ first.sent /\ "edit" \notin fails
              \/ ~first.sent /\ "send" \notin fails
  IN /\ PunishAuthor(m, fails)
     /\ notes' = IF ~HasAdminChat THEN notes
                 ELSE IF first.sent THEN Edit(first.note, NoKeyboard, fails)
                 ELSE Post(m, NoKeyboard, fails)
     /\ rows' = IF told THEN DeleteByMessage(stored, m, fails) ELSE stored

(* sendReportNotification: the id of the new message goes to all reports   *)
(* about m there are by now.                                               *)
SendReportNotification(m, stored, fails) ==
  /\ notes' = Post(m, ActionKeyboard(m), fails)
  /\ rows' = IF "send" \in fails
             THEN stored
             ELSE UpdateAdminMsgID(stored, m, Len(notes) + 1, fails)
  /\ UNCHANGED effects

(* updateReportNotification: also brings the action buttons back. *)
UpdateReportNotification(m, first, stored, fails) ==
  /\ notes' = Edit(first.note, ActionKeyboard(m), fails)
  /\ rows' = stored
  /\ UNCHANGED effects

(* checkReportThreshold: ban, else ask or tell the admins, else wait. *)
CheckReportThreshold(m, stored, fails) ==
  LET reports == About(stored, m)
      quiet   == rows' = stored /\ UNCHANGED <<notes, effects>>
  IN \/ "read" \in fails /\ quiet
     \/ /\ "read" \notin fails
        /\ AutoBanReached(reports)
        /\ \E first \in Oldest(reports) :
             ExecuteAutoBan(m, first, stored, fails)
     \/ /\ "read" \notin fails
        /\ ~AutoBanReached(reports)
        /\ QuorumReached(reports) /\ HasAdminChat
        /\ \E first \in Oldest(reports) :
             IF first.sent
             THEN UpdateReportNotification(m, first, stored, fails)
             ELSE SendReportNotification(m, stored, fails)
     \/ /\ "read" \notin fails
        /\ ~AutoBanReached(reports)
        /\ ~(QuorumReached(reports) /\ HasAdminChat)
        /\ quiet

(* DirectUserReport: u replies "/report" to m.  Rejected reports change    *)
(* nothing here.  Every report takes an instant of its own, so their times *)
(* are distinct.                                                           *)
DirectUserReport(u, m, fails) ==
  /\ m \in setting.about
  /\ now < setting.until /\ Len(notes) < MaxNotes
  /\ u \notin SuperUsers
  /\ Author[m] \notin SuperUsers
  /\ u \in approved
  /\ ~RateLimited(u)
  /\ CheckReportThreshold(m, Add(u, m, fails), fails)
  /\ filed' = IF Insert(u, m) = rows
              THEN filed
              ELSE filed \cup {[msg |-> m, by |-> u, at |-> now]}
  /\ now' = now + 1
  /\ UNCHANGED clicks

-----------------------------------------------------------------------------
(* The buttons.  The press of a button is an update that waits its turn:   *)
(* it is handled later, whatever happened to the case in between.          *)

AdminClick(a, id, key) ==
  /\ key \in notes[id].keyboard
  /\ \A k \in clicks : k.admin # a
  /\ clicks' = clicks \cup {[admin |-> a, note |-> id,
                             button |-> key.button, user |-> key.user]}
  /\ UNCHANGED <<now, rows, notes, effects, filed>>

(* What all callbacks do: take the press k; all but Cancel look the        *)
(* reports up, and give up when there are none.                            *)
Handle(k, button) ==
  /\ k.button = button
  /\ clicks' = clicks \ {k}
  /\ UNCHANGED <<now, filed>>

CaseOf(k) == notes[k.note].msg

Found(k, fails) == "read" \notin fails /\ About(rows, CaseOf(k)) # {}

CallbackNoReports(k, fails) ==
  /\ k.button # "RX"
  /\ ~Found(k, fails)
  /\ clicks' = clicks \ {k}
  /\ UNCHANGED <<now, rows, notes, effects, filed>>

CallbackReportBan(k, fails) ==
  /\ Handle(k, "R+")
  /\ Found(k, fails)
  /\ PunishAuthor(CaseOf(k), fails)
  /\ rows' = DeleteByMessage(rows, CaseOf(k), fails)
  /\ notes' = Edit(k.note, NoKeyboard, fails)

(* Mutant: the buttons go, the reports stay. *)
CallbackReportRejectKeeping(k, fails) ==
  /\ Handle(k, "R-")
  /\ Found(k, fails)
  /\ rows' = rows
  /\ notes' = Edit(k.note, NoKeyboard, fails)
  /\ UNCHANGED effects

CallbackReportReject(k, fails) ==
  /\ Handle(k, "R-")
  /\ Found(k, fails)
  /\ rows' = DeleteByMessage(rows, CaseOf(k), fails)
  /\ notes' = Edit(k.note, NoKeyboard, fails)
  /\ UNCHANGED effects

CallbackReportBanReporterAsk(k, fails) ==
  /\ Handle(k, "R?")
  /\ Found(k, fails)
  /\ LET m == CaseOf(k)
     IN notes' = Edit(k.note, ReporterKeyboard(m, About(rows, m)), fails)
  /\ UNCHANGED <<rows, effects>>

(* The reporter of the button is banned, whether its report is still there *)
(* or not, and never only restricted.  A failed second read counts as "no  *)
(* reports left".                                                          *)
CallbackReportBanReporterConfirm(k, fails) ==
  /\ Handle(k, "R!")
  /\ Found(k, fails)
  /\ LET m    == CaseOf(k)
         left == DeleteReporter(rows, k.user, m, fails)
         over == "reread" \in fails \/ About(left, m) = {}
     IN /\ standing' = BanUser(k.user, FALSE, fails)
        /\ rows' = IF over THEN DeleteByMessage(left, m, fails) ELSE left
        /\ notes' = Edit(k.note,
                         IF over THEN NoKeyboard ELSE ActionKeyboard(m),
                         fails)
  /\ UNCHANGED <<approved, deleted, learned>>

(* Cancel restores the buttons without a look at the reports. *)
CallbackReportCancel(k, fails) ==
  /\ Handle(k, "RX")
  /\ notes' = Edit(k.note, ActionKeyboard(CaseOf(k)), fails)
  /\ UNCHANGED <<rows, effects>>

HandleReportCallback(k, fails) ==
  \/ CallbackNoReports(k, fails)
  \/ CallbackReportBan(k, fails)
  \/ CallbackReportReject(k, fails)
  \/ CallbackReportBanReporterAsk(k, fails)
  \/ CallbackReportBanReporterConfirm(k, fails)
  \/ CallbackReportCancel(k, fails)

-----------------------------------------------------------------------------
Next ==
  /\ \/ Tick
     \/ \E u \in Users : AddApprovedUser(u)
     \/ \E a \in Admins, id \in DOMAIN notes :
          \E key \in notes[id].keyboard : AdminClick(a, id, key)
     \/ \E fails \in SUBSET (setting.fails \cap ReportCalls),
           u \in Users, m \in Messages : DirectUserReport(u, m, fails)
     \/ \E fails \in SUBSET (setting.fails \cap CallbackCalls),
           k \in clicks : HandleReportCallback(k, fails)
  /\ UNCHANGED setting

Spec == Init /\ [][Next]_vars

-----------------------------------------------------------------------------
(* Every variable has its type: the table and the pending presses refer to *)
(* members, messages and notifications that exist.                         *)
TypeOK ==
  /\ setting \in Settings
  /\ now \in Nat
  /\ rows \in SUBSET Row
  /\ notes \in Seq(Note)
  /\ clicks \in SUBSET Click
  /\ \A k \in clicks : k.note \in DOMAIN notes
  /\ approved \in SUBSET Users
  /\ standing \in [Users -> Standing]
  /\ deleted \in SUBSET Messages
  /\ learned \in SUBSET Messages
  /\ filed \in SUBSET Filing

(* reports[0] speaks for all: the code decides "already notified, and      *)
(* where" by the oldest report about a message alone.  That is right as    *)
(* long as the flagged reports of a message name one notification, a       *)
(* notification about that message, and are older than the unflagged ones, *)
(* whatever calls fail, whoever is removed and whatever expires.           *)
FirstReportSpeaksForAll ==
  \A r \in rows : r.sent =>
    /\ r.note \in DOMAIN notes
    /\ notes[r.note].msg = r.msg
    /\ \A s \in rows : s.msg = r.msg =>
         IF s.sent THEN s.note = r.note ELSE r.at < s.at

(* Who ever reported m, and whether they were enough to ask the admins. *)
ReportersIn(filings, m) == {x.by : x \in {y \in filings : y.msg = m}}

ReportersOf(m) == ReportersIn(filed, m)

HadQuorum(m) == Cardinality(ReportersOf(m)) >= Threshold

(* Nobody is banned or restricted on the strength of fewer than Threshold  *)
(* distinct reporters: a punished member wrote a message that many members *)
(* reported, or is one of its reporters, singled out by an admin.  It      *)
(* holds through stale keyboards, late button presses and failing calls.   *)
PunishmentIsGrounded ==
  \A u \in Users : standing[u] # "member" =>
    \E m \in Messages : /\ HadQuorum(m)
                        /\ u = Author[m] \/ u \in ReportersOf(m)

(* The refinement mapping to ReportCases. *)
Reporters(table) == [m \in Messages |-> {r.by : r \in About(table, m)}]

Accused(filings) == [m \in Messages |-> ReportersIn(filings, m)]

Asked(chat) == {chat[id].msg : id \in DOMAIN chat}

Punished(state) == {u \in Users : state[u] # "member"}

Cases == INSTANCE ReportCases WITH
  reporters <- Reporters(rows),
  accused   <- Accused(filed),
  asked     <- Asked(notes),
  punished  <- Punished(standing)

(* What the group is promised: punishment by enough current reports or by  *)
(* an admin who was asked about a message with reports, and a banned       *)
(* reporter takes only its own report along.  Every step, with whatever    *)
(* calls failing except the second read of a confirmed reporter ban, is a  *)
(* step of ReportCases or changes nothing there.                           *)
ImplementsCases == Cases!Spec

(* A notification with live buttons. *)
Open(id) == notes[id].keyboard # NoKeyboard

(* A message with enough reports is in front of the admins: some           *)
(* notification about it has live buttons (README, "the bot sends a        *)
(* notification").  This needs the reads, the sends and the final deletion *)
(* of the reports to work; other calls may fail.                           *)
Asking == {"read", "send", "delete"}

QuorumIsNotified ==
  HasAdminChat /\ setting.fails \cap Asking = {} =>
    \A m \in Messages : Cardinality(About(rows, m)) >= Threshold =>
      \E id \in DOMAIN notes : notes[id].msg = m /\ Open(id)

(* Reports never pile up to the automatic ban without it: when the calls   *)
(* that end a case work, a message never keeps AutoBanThreshold reports.   *)
Ending == {"read", "send", "edit", "delete"}

AutoBanSettles ==
  AutoBanThreshold > 0 /\ setting.fails \cap Ending = {} =>
    \A m \in Messages : Cardinality(About(rows, m)) < AutoBanThreshold

(* In soft-ban mode a member is banned for real only as a reporter singled *)
(* out by an admin: for a message of its own it is restricted, by the      *)
(* automatic ban as by the button, each of which sets the mode itself.     *)
SoftBanSparesAuthors ==
  SoftBan =>
    \A u \in Users : standing[u] = "banned" =>
      \E m \in Messages : HadQuorum(m) /\ u \in ReportersOf(m)

(* The limit on a member's reports (README, "each user can submit up to    *)
(* this many reports per period") counts rows, and settling a case deletes *)
(* them, so that a member may report again at once.  What is left of the   *)
(* promise: the way round the limit takes a quorum.  Of the reports of a   *)
(* period, those about messages that fewer than Threshold members ever     *)
(* reported never exceed the limit, whatever cases were settled and        *)
(* reports expired in between, provided reports outlive the period.        *)
UnbackedReportsWithinLimit ==
  RateLimit > 0 /\ RatePeriod <= Retention =>
    \A u \in Users :
      Cardinality({x \in filed : /\ x.by = u /\ x.at >= now - RatePeriod
                                /\ ~HadQuorum(x.msg)}) <= RateLimit

=============================================================================
