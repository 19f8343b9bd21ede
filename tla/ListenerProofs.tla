-------------------------- MODULE ListenerProofs --------------------------
(***************************************************************************)
(* Proofs about Listener with AdminActions and Locator, for any members,   *)
(* texts and settings, any sequence of updates and presses, and any calls  *)
(* failing: what is deleted and who is banned is right (the modes, the     *)
(* authors, the supers, the group, the warnings), what the locator         *)
(* remembers, and that the notes of the admin chat say what was done.      *)
(***************************************************************************)
EXTENDS Listener, FiniteSetTheorems, TLAPS

-----------------------------------------------------------------------------
(* The inductive invariant, in parts by the variables they are about.      *)

Post == [id : 1 .. MaxTime, by : Members, text : Texts \cup Users,
         at : 1 .. MaxTime]

LocatorRow == [text : Texts \cup Users, user : Members, id : 1 .. MaxTime,
               named : BOOLEAN, at : 1 .. MaxTime]

Detection == [user : Members, at : 1 .. MaxTime]

Buttons == {"?", "!", "+", "unban"}

Note == [user : Members, id : 1 .. MaxTime, text : Texts,
         buttons : SUBSET Buttons,
         said : {"banned", "confirmed", "unbanned"}, at : 1 .. MaxTime]

CleanupRun == [user : Members, listed : BOOLEAN, left : SUBSET (1 .. MaxTime),
               failures : 0 .. MaxFailures]

Sites == {"message", "reaction", "command", "warn", "forward", "confirm"}

BanRecord == [user : Members, site : Sites, kind : {"restricted", "banned"}]

(* Message id is by u: an author stays the author through every edit, so   *)
(* what was once true of a message can be relied on later.                 *)
IsBy(id, u) == \E p \in posts : p.id = id /\ p.by = u

SettingOK == setting \in Settings /\ now \in 0 .. MaxTime

PostsOK == posts \in SUBSET Post /\ \A p \in posts : p.at <= now

(* Author and message of a row belong together, and the text of a join     *)
(* message is its author's.                                                *)
RowsOK ==
  /\ messages \in SUBSET LocatorRow
  /\ \A r \in messages : IsBy(r.id, r.user) /\ (r.text \in Users => r.user = r.text)

SpamOK == spam \in SUBSET Detection

GroupOK == /\ approved \in SUBSET Members
           /\ learned \in [Texts -> {"nothing", "spam", "ham"}]

(* Notes are about other members than the group, and about supers in       *)
(* training mode only: their buttons ban.                                  *)
NotesOK ==
  /\ notes \in Seq(Note)
  /\ \A n \in DOMAIN notes :
       /\ IsBy(notes[n].id, notes[n].user)
       /\ notes[n].user # Group
       /\ notes[n].user \in Supers => On("training")
       /\ notes[n].at <= now

PressesOK == /\ presses \in SUBSET [note : DOMAIN notes, button : Buttons]
             /\ told \in SUBSET DOMAIN notes

(* A ban that the modes and the standing of its member allow. *)
BanAllowed(b) ==
  /\ ~On("dry")
  /\ On("training") => b.site = "confirm"
  /\ On("soft") /\ b.site \in {"message", "reaction", "warn"} =>
       b.kind = "restricted" \/ b.user \in Channels
  /\ b.user # Group
  /\ b.user \in Supers =>
       \/ b.site \in {"command", "warn"} /\ b.user \notin Named
       \/ b.site = "confirm" /\ On("training")

(* Whoever is not free was banned like that. *)
BansOK ==
  /\ bans \in SUBSET BanRecord
  /\ \A b \in bans : BanAllowed(b)
  /\ standing \in [Members -> {"free", "restricted", "banned"}]
  /\ \A u \in Members : standing[u] # "free" =>
       \E b \in bans : b.user = u /\ b.kind = standing[u]

WarningsOK == /\ warnings \in SUBSET [user : Members, at : 0 .. MaxTime]
              /\ IsFiniteSet(warnings)
              /\ \A w \in warnings : w.at <= now

(* What a clean-up has left to delete, and what was deleted. *)
CleanupsOK ==
  /\ cleanups \in SUBSET CleanupRun
  /\ \A c \in cleanups : \A id \in c.left : IsBy(id, c.user)

RemovalsOK ==
  /\ removals \in SUBSET [id : 1 .. MaxTime, user : Members]
  /\ \A r \in removals : IsBy(r.id, r.user)

(* A row is at least as new as the youngest message it stands for, and a   *)
(* detection as the youngest note it stands for: what is young enough      *)
(* keeps a row that is.                                                    *)
RowsRemember ==
  "locate" \notin setting.fails =>
    \A p \in posts :
      p.at >= now - TTL /\ (p.text \in Users => ~On("deleteJoins")) =>
        \E r \in messages : r.text = p.text /\ r.at >= p.at

SpamRemembers ==
  "locate" \notin setting.fails =>
    \A n \in DOMAIN notes : notes[n].at >= now - TTL =>
      \E r \in spam : r.user = notes[n].user /\ r.at >= notes[n].at

IInv ==
  /\ SettingOK /\ PostsOK /\ RowsOK /\ SpamOK /\ GroupOK
  /\ NotesOK /\ PressesOK /\ BansOK /\ WarningsOK /\ CleanupsOK /\ RemovalsOK
  /\ RowsRemember /\ SpamRemembers
  /\ NotesAreTrue /\ WarnBansAreEarned

-----------------------------------------------------------------------------
(* Time and settings. *)

LEMMA SettingTypes ==
  ASSUME SettingOK
  PROVE  /\ setting.texts \in SUBSET Texts /\ setting.who \in SUBSET Members
         /\ setting.fails \in SUBSET Calls /\ setting.until \in 0 .. MaxTime
         /\ now \in 0 .. MaxTime /\ MaxTime \in Nat
<1>1. setting \in [options : SUBSET Options, updates : SUBSET Updates,
                   who : SUBSET Members, texts : SUBSET Texts,
                   until : 0 .. MaxTime, fails : SUBSET Calls]
  BY ListenerAssumption DEF SettingOK
<1> QED
  BY <1>1, ListenerAssumption DEF SettingOK

(* An update takes an instant and leaves the setting alone. *)
LEMMA UpdateStep ==
  ASSUME SettingOK, NEW kind, NEW fails, Update(kind, fails)
  PROVE  /\ SettingOK' /\ setting' = setting
         /\ now \in Nat /\ now' = now + 1 /\ now' \in 1 .. MaxTime
         /\ fails \in SUBSET setting.fails
BY SettingTypes DEF Update, SettingOK

(* Authors stay. *)
Authors == \A id, u : IsBy(id, u) => IsBy(id, u)'

-----------------------------------------------------------------------------
(* The locator. *)

LEMMA CleanedKeepsYoung ==
  ASSUME NEW table, NEW time
  PROVE  /\ Cleaned(table, time) \in SUBSET table
         /\ \A r \in table : r.at >= time - TTL => r \in Cleaned(table, time)
BY DEF Cleaned

(* A message is located: author and message come together. *)
LEMMA LocateStep ==
  ASSUME RowsOK, Authors, NEW text \in Texts \cup Users, NEW u \in Members,
         NEW id \in 1 .. MaxTime, NEW named \in BOOLEAN, NEW fails,
         now' \in 1 .. MaxTime, IsBy(id, u)', text \in Users => u = text,
         AddMessage(text, u, id, named, now', fails)
  PROVE  RowsOK'
<1>1. CASE "locate" \in fails
  BY <1>1 DEF AddMessage, RowsOK, Authors
<1>2. CASE "locate" \notin fails
  <2> DEFINE row == [text |-> text, user |-> u, named |-> named,
                     at |-> now', id |-> id]
  <2>1. messages' \in SUBSET (messages \cup {row})
    BY <1>2, CleanedKeepsYoung DEF AddMessage
  <2>2. row \in LocatorRow /\ row.id = id /\ row.user = u /\ row.text = text
    BY DEF LocatorRow
  <2> HIDE DEF row
  <2>3. messages' \in SUBSET LocatorRow
    BY <2>1, <2>2 DEF RowsOK
  <2>4. \A r \in messages' : (IsBy(r.id, r.user))'
                             /\ (r.text \in Users => r.user = r.text)
    BY <2>1, <2>2 DEF RowsOK, Authors
  <2> QED
    BY <2>3, <2>4 DEF RowsOK
<1> QED
  BY <1>1, <1>2

LEMMA LocateRemembers ==
  ASSUME SettingOK, PostsOK, RowsOK, RowsRemember,
         NEW text, NEW u, NEW id, NEW named, NEW fails \in SUBSET setting.fails,
         setting' = setting, now' = now + 1,
         AddMessage(text, u, id, named, now', fails),
         \A p \in posts' : p \in posts \/ (p.text = text /\ p.at = now')
  PROVE  RowsRemember'
<1> DEFINE row == [text |-> text, user |-> u, named |-> named,
                   at |-> now', id |-> id]
           others == {r \in messages : r.text # text}
<1>0. now \in Nat /\ TTL \in Nat
  BY SettingTypes, LocatorAssumption
<1> SUFFICES ASSUME "locate" \notin setting.fails, NEW p \in posts',
                    p.at >= now' - TTL,
                    p.text \in Users => ~On("deleteJoins")
             PROVE  \E r \in messages' : r.text = p.text /\ r.at >= p.at
  BY DEF RowsRemember, On
<1>1. messages' = Cleaned(others \cup {row}, now')
  BY DEF AddMessage
<1>2. row.text = text /\ row.at = now'
  OBVIOUS
<1>3. row \in messages'
  BY <1>0, <1>1, <1>2, CleanedKeepsYoung
<1> HIDE DEF row
<1>4. CASE p.text = text
  <2>1. p.at <= now'
    BY <1>0 DEF PostsOK, Post
  <2> QED
    BY <1>0, <1>2, <1>3, <1>4, <2>1 DEF PostsOK, Post
<1>5. CASE p.text # text
  <2>1. p \in posts /\ p.at \in Nat
    BY <1>5 DEF PostsOK, Post
  <2>2. PICK r \in messages : r.text = p.text /\ r.at >= p.at
    BY <1>0, <2>1 DEF RowsRemember
  <2>3. r.at \in Nat
    BY DEF RowsOK, LocatorRow
  <2>4. r \in others /\ r.at >= now' - TTL
    BY <1>0, <1>5, <2>1, <2>2, <2>3
  <2> QED
    BY <1>1, <2>2, <2>4, CleanedKeepsYoung
<1> QED
  BY <1>4, <1>5

(* Time passes; if a message comes, it is a join message deleted at once. *)
LEMMA TimeRemembers ==
  ASSUME SettingOK, PostsOK, RowsRemember, setting' = setting,
         now' \in {now, now + 1}, messages' = messages,
         \A p \in posts' : \/ p \in posts
                           \/ p.text \in Users /\ On("deleteJoins")
  PROVE  RowsRemember'
<1>0. now \in Nat /\ TTL \in Nat
  BY SettingTypes, LocatorAssumption
<1> SUFFICES ASSUME "locate" \notin setting.fails, NEW p \in posts',
                    p.at >= now' - TTL,
                    p.text \in Users => ~On("deleteJoins")
             PROVE  \E r \in messages : r.text = p.text /\ r.at >= p.at
  BY DEF RowsRemember, On
<1>1. p \in posts /\ p.at \in Nat
  BY DEF PostsOK, Post
<1> QED
  BY <1>0, <1>1 DEF RowsRemember

(* The notes one by one. *)
LEMMA NoteTypes ==
  ASSUME NotesOK, NEW n \in DOMAIN notes
  PROVE  /\ notes[n] \in Note
         /\ notes[n].user \in Members /\ notes[n].id \in 1 .. MaxTime
         /\ notes[n].text \in Texts /\ notes[n].buttons \in SUBSET Buttons
         /\ notes[n].at \in 1 .. MaxTime /\ notes[n].at \in Nat
         /\ notes[n].at <= now
<1>1. notes[n] \in Note
  BY DEF NotesOK
<1>2. notes[n].at <= now
  BY DEF NotesOK
<1> QED
  BY <1>1, <1>2 DEF Note

(* A detection: the one row of the member gets the time of now. *)
LEMMA SpamStep ==
  ASSUME SpamOK, NEW u \in Members, NEW fails, now' \in 1 .. MaxTime,
         AddSpam(u, now', fails)
  PROVE  SpamOK'
<1>1. CASE "locate" \in fails
  BY <1>1 DEF AddSpam, SpamOK
<1>2. CASE "locate" \notin fails
  <2> DEFINE row == [user |-> u, at |-> now']
  <2>1. spam' \in SUBSET (spam \cup {row})
    BY <1>2, CleanedKeepsYoung DEF AddSpam
  <2>2. row \in Detection
    BY DEF Detection
  <2> QED
    BY <2>1, <2>2 DEF SpamOK
<1> QED
  BY <1>1, <1>2

LEMMA DetectionRemembers ==
  ASSUME SettingOK, NotesOK, SpamOK, SpamRemembers,
         NEW u, NEW fails \in SUBSET setting.fails,
         setting' = setting, now' = now + 1, AddSpam(u, now', fails),
         \A n \in DOMAIN notes' :
           \/ /\ n \in DOMAIN notes
              /\ notes'[n].user = notes[n].user /\ notes'[n].at = notes[n].at
           \/ notes'[n].user = u /\ notes'[n].at = now'
  PROVE  SpamRemembers'
<1> DEFINE row == [user |-> u, at |-> now']
           others == {r \in spam : r.user # u}
<1>0. now \in Nat /\ TTL \in Nat
  BY SettingTypes, LocatorAssumption
<1> SUFFICES ASSUME "locate" \notin setting.fails, NEW n \in DOMAIN notes',
                    notes'[n].at >= now' - TTL
             PROVE  \E r \in spam' : /\ r.user = notes'[n].user
                                     /\ r.at >= notes'[n].at
  BY DEF SpamRemembers
<1>1. spam' = Cleaned(others \cup {row}, now')
  BY DEF AddSpam
<1>2. row \in spam' /\ row.user = u /\ row.at = now'
  BY <1>0, <1>1, CleanedKeepsYoung
<1> HIDE DEF row
<1>3. \A m \in DOMAIN notes : notes[m].at \in Nat /\ notes[m].at <= now
  BY NoteTypes
<1>4. CASE notes'[n].user = u
  BY <1>0, <1>2, <1>3, <1>4
<1>5. CASE notes'[n].user # u
  <2>1. /\ n \in DOMAIN notes /\ notes[n].at \in Nat
        /\ notes'[n].user = notes[n].user /\ notes'[n].at = notes[n].at
    BY <1>3, <1>5
  <2>2. PICK r \in spam : r.user = notes[n].user /\ r.at >= notes[n].at
    BY <1>0, <2>1 DEF SpamRemembers
  <2>3. r.at \in Nat
    BY DEF SpamOK, Detection
  <2>4. r \in others /\ r.at >= now' - TTL
    BY <1>0, <1>5, <2>1, <2>2, <2>3
  <2> QED
    BY <1>1, <2>1, <2>2, <2>4, CleanedKeepsYoung
<1> QED
  BY <1>4, <1>5

LEMMA TimeKeepsDetections ==
  ASSUME SettingOK, NotesOK, SpamRemembers, setting' = setting,
         now' \in {now, now + 1}, spam' = spam,
         \A n \in DOMAIN notes' :
           /\ n \in DOMAIN notes
           /\ notes'[n].user = notes[n].user /\ notes'[n].at = notes[n].at
  PROVE  SpamRemembers'
<1>0. now \in Nat /\ TTL \in Nat
  BY SettingTypes, LocatorAssumption
<1>1. \A m \in DOMAIN notes : notes[m].at \in Nat
  BY NoteTypes
<1> QED
  BY <1>0, <1>1 DEF SpamRemembers

-----------------------------------------------------------------------------
(* Bans and deletions. *)

(* What a site has to see to before it asks for a ban. *)
MayAsk(u, site, restrict, training) ==
  /\ u \in Members \ {Group} /\ site \in Sites
  /\ restrict \in BOOLEAN /\ training \in BOOLEAN
  /\ On("training") /\ site # "confirm" => training
  /\ On("soft") /\ site \in {"message", "reaction", "warn"} => restrict
  /\ u \in Supers => \/ site \in {"command", "warn"} /\ u \notin Named
                     \/ site = "confirm" /\ On("training")

LEMMA BanStep ==
  ASSUME BansOK, NEW u, NEW site, NEW restrict, NEW training, NEW fails,
         MayAsk(u, site, restrict, training), setting' = setting,
         Ban(u, site, restrict, training, fails)
  PROVE  /\ BansOK' /\ bans \in SUBSET bans'
         /\ UNCHANGED <<standing, bans>>
              \/ \E b \in bans' : /\ b.user = u /\ b.site = site
                                  /\ standing' = [standing EXCEPT ![u] = b.kind]
                                  /\ bans' = bans \cup {b}
                                  /\ b.kind # "free"
         /\ ~On("dry") /\ ~training /\ "ban" \notin fails =>
              \E b \in bans' : b.user = u /\ b.site = site
<1>1. CASE On("dry") \/ training \/ "ban" \in fails
  BY <1>1 DEF Ban, BansOK, BanAllowed, On
<1>2. CASE ~(On("dry") \/ training \/ "ban" \in fails)
  <2> DEFINE kind == IF restrict /\ u \notin Channels
                     THEN "restricted" ELSE "banned"
             b == [user |-> u, site |-> site, kind |-> kind]
  <2>1. standing' = [standing EXCEPT ![u] = kind] /\ bans' = bans \cup {b}
    BY <1>2 DEF Ban
  <2>2. b \in BanRecord /\ b.user = u /\ b.site = site /\ b.kind = kind
    BY DEF MayAsk, BanRecord
  <2>3. BanAllowed(b)
    BY <1>2, <2>2 DEF MayAsk, BanAllowed
  <2>4. kind \in {"restricted", "banned"}
    OBVIOUS
  <2> HIDE DEF b, kind
  <2>5. bans' \in SUBSET BanRecord /\ \A c \in bans' : BanAllowed(c)'
    BY <2>1, <2>2, <2>3 DEF BansOK, BanAllowed, On
  <2>6. /\ standing' \in [Members -> {"free", "restricted", "banned"}]
        /\ standing'[u] = kind
        /\ \A v \in Members : v # u => standing'[v] = standing[v]
    BY <2>1, <2>4 DEF BansOK, MayAsk
  <2>7. \A v \in Members : standing'[v] # "free" =>
          \E c \in bans' : c.user = v /\ c.kind = standing'[v]
    BY <2>1, <2>2, <2>6 DEF BansOK
  <2>8. BansOK'
    BY <2>5, <2>6, <2>7 DEF BansOK
  <2>9. b \in bans' /\ standing' = [standing EXCEPT ![u] = b.kind]
        /\ b.kind # "free"
    BY <2>1, <2>2, <2>4
  <2> QED
    BY <2>1, <2>2, <2>8, <2>9
<1> QED
  BY <1>1, <1>2

LEMMA EraseStep ==
  ASSUME RemovalsOK, Authors, NEW u \in Members, NEW ids \in SUBSET (1 .. MaxTime),
         NEW fails, \A id \in ids : IsBy(id, u)', Erase(ids, u, fails)
  PROVE  RemovalsOK'
<1> DEFINE new == {[id |-> i, user |-> u] : i \in ids}
<1>1. \A r \in new : /\ r \in [id : 1 .. MaxTime, user : Members]
                     /\ IsBy(r.id, r.user)'
  OBVIOUS
<1> HIDE DEF new
<1>2. removals' \in SUBSET (removals \cup new)
  BY DEF Erase, new
<1> QED
  BY <1>1, <1>2 DEF RemovalsOK, Authors

-----------------------------------------------------------------------------
(* The notes in the admin chat. *)

LEMMA NotesKept ==
  ASSUME NotesOK, Authors, setting' = setting, now \in Nat,
         now' \in {now, now + 1}, notes' = notes
  PROVE  NotesOK'
<1>1. \A n \in DOMAIN notes : notes[n].at \in Nat /\ notes[n].at <= now
  BY NoteTypes
<1> QED
  BY <1>1 DEF NotesOK, Authors, On

(* A new note comes last. *)
LEMMA ReportBanStep ==
  ASSUME NotesOK, PressesOK, Authors, setting' = setting,
         now \in Nat, now' = now + 1, now' \in 1 .. MaxTime,
         NEW u \in Members \ {Group}, NEW id \in 1 .. MaxTime,
         NEW text \in Texts, NEW fails, IsBy(id, u)',
         u \in Supers => On("training"),
         presses' = presses, told' = told, ReportBan(u, id, text, fails)
  PROVE  /\ NotesOK' /\ PressesOK'
         /\ DOMAIN notes \in SUBSET DOMAIN notes'
         /\ \A n \in DOMAIN notes : notes'[n] = notes[n]
         /\ \A n \in DOMAIN notes' \ DOMAIN notes :
              /\ notes'[n].user = u /\ notes'[n].at = now'
              /\ notes'[n].said = "banned"
         /\ "send" \notin fails =>
              \E n \in DOMAIN notes' : /\ notes'[n].user = u
                                       /\ notes'[n].buttons # {}
<1>1. CASE "send" \in fails
  <2>1. notes' = notes
    BY <1>1 DEF ReportBan
  <2> QED
    BY <1>1, <2>1, NotesKept DEF PressesOK
<1>2. CASE "send" \notin fails
  <2> DEFINE note == [user |-> u, id |-> id, text |-> text,
                      buttons |-> {"?", "!"}, said |-> "banned", at |-> now']
  <2>1. notes' = Append(notes, note) /\ notes \in Seq(Note)
    BY <1>2 DEF ReportBan, NotesOK
  <2>2. /\ note \in Note /\ note.user = u /\ note.id = id /\ note.at = now'
        /\ note.said = "banned" /\ note.buttons # {}
    BY DEF Note, Buttons
  <2> HIDE DEF note
  <2>3. /\ notes' \in Seq(Note) /\ Len(notes) \in Nat
        /\ DOMAIN notes = 1 .. Len(notes)
        /\ DOMAIN notes' = 1 .. Len(notes) + 1
        /\ notes'[Len(notes) + 1] = note
        /\ \A n \in DOMAIN notes : notes'[n] = notes[n]
    BY <2>1, <2>2
  <2>4. \A n \in DOMAIN notes' : n \in DOMAIN notes \/ n = Len(notes) + 1
    BY <2>3
  <2>5. \A n \in DOMAIN notes : notes[n].at \in Nat /\ notes[n].at <= now
    BY NoteTypes
  <2>6. NotesOK'
    <3> SUFFICES ASSUME NEW n \in DOMAIN notes'
                 PROVE  (/\ IsBy(notes[n].id, notes[n].user)
                         /\ notes[n].user # Group
                         /\ notes[n].user \in Supers => On("training")
                         /\ notes[n].at <= now)'
      BY <2>3 DEF NotesOK
    <3>1. CASE n \in DOMAIN notes
      BY <2>3, <2>5, <3>1 DEF NotesOK, Authors, On
    <3>2. CASE n = Len(notes) + 1
      BY <2>2, <2>3, <3>2 DEF On
    <3> QED
      BY <2>4, <3>1, <3>2
  <2>7. PressesOK'
    BY <2>3 DEF PressesOK
  <2>8. Len(notes) + 1 \in DOMAIN notes'
    BY <2>3
  <2> QED
    BY <2>2, <2>3, <2>4, <2>6, <2>7, <2>8
<1> QED
  BY <1>1, <1>2

(* An edit changes the buttons and the text of one note. *)
LEMMA EditStep ==
  ASSUME NotesOK, posts' = posts, setting' = setting, now' = now,
         NEW n \in DOMAIN notes, NEW buttons \in SUBSET Buttons,
         NEW said \in {"banned", "confirmed", "unbanned"},
         Edit(n, buttons, said)
  PROVE  /\ NotesOK' /\ DOMAIN notes' = DOMAIN notes
         /\ \A m \in DOMAIN notes :
              /\ notes'[m].user = notes[m].user
              /\ notes'[m].at = notes[m].at
              /\ m # n => notes'[m] = notes[m]
         /\ notes'[n].buttons = buttons /\ notes'[n].said = said
<1> DEFINE note == [notes[n] EXCEPT !.buttons = buttons, !.said = said]
<1>0. notes \in Seq(Note) /\ notes[n] \in Note
  BY NoteTypes DEF NotesOK
<1>1. notes' = [notes EXCEPT ![n] = note]
  BY <1>0 DEF Edit
<1>2. /\ note \in Note /\ note.user = notes[n].user /\ note.id = notes[n].id
      /\ note.at = notes[n].at /\ note.buttons = buttons /\ note.said = said
  BY <1>0 DEF Note
<1> HIDE DEF note
<1>3. /\ notes' \in Seq(Note) /\ DOMAIN notes' = DOMAIN notes
      /\ notes'[n] = note
      /\ \A m \in DOMAIN notes : m # n => notes'[m] = notes[m]
  BY <1>0, <1>1, <1>2
<1>4. \A m \in DOMAIN notes : /\ notes'[m].user = notes[m].user
                              /\ notes'[m].id = notes[m].id
                              /\ notes'[m].at = notes[m].at
  BY <1>2, <1>3
<1>5. NotesOK'
  BY <1>3, <1>4 DEF NotesOK, IsBy, On
<1> QED
  BY <1>2, <1>3, <1>4, <1>5

(* Steps outside the buttons leave the notes true: a member who is not     *)
(* free any more got a note, or an admin asked for it.                     *)
LEMMA StepLeavesNotesTrue ==
  ASSUME NotesAreTrue, NotesOK, setting' = setting,
         told \in SUBSET told', bans \in SUBSET bans',
         DOMAIN notes \in SUBSET DOMAIN notes',
         \A n \in DOMAIN notes : notes'[n] = notes[n],
         \A n \in DOMAIN notes' \ DOMAIN notes : notes'[n].said # "confirmed",
         \A u \in Members :
           \/ standing'[u] = standing[u]
           \/ \E b \in bans' : b.user = u /\ b.site # "message"
           \/ \E n \in DOMAIN notes' : notes'[n].user = u
                                       /\ notes'[n].buttons # {}
           \/ "send" \in setting.fails
  PROVE  NotesAreTrue'
<1>1. ClosedNotesAreSettled'
  BY DEF NotesAreTrue, ClosedNotesAreSettled, On, IsSuper
<1>2. BannedCanBeFreed'
  <2> SUFFICES ASSUME "send" \notin setting.fails, NEW u \in Members,
                      standing'[u] # "free",
                      \A b \in bans' : b.user = u => b.site = "message"
               PROVE  \E n \in DOMAIN notes' :
                        /\ notes'[n].user = u
                        /\ notes'[n].buttons # {} \/ notes'[n].said = "confirmed"
    BY DEF BannedCanBeFreed
  <2>1. CASE standing'[u] = standing[u]
    <3>1. \A b \in bans : b.user = u => b.site = "message"
      OBVIOUS
    <3>2. PICK n \in DOMAIN notes :
            /\ notes[n].user = u
            /\ notes[n].buttons # {} \/ notes[n].said = "confirmed"
      BY <2>1, <3>1 DEF NotesAreTrue, BannedCanBeFreed
    <3> QED
      BY <3>2
  <2>2. CASE standing'[u] # standing[u]
    BY <2>2
  <2> QED
    BY <2>1, <2>2
<1> QED
  BY <1>1, <1>2 DEF NotesAreTrue

-----------------------------------------------------------------------------
(* The warnings. *)

WarningsOf(table, u, times) == {w \in table : w.user = u /\ w.at \in times}

Window(t) == (t - WarnWindow + 1) .. t

Earned(table, u) ==
  \E t \in 0 .. MaxTime :
    Cardinality(WarningsOf(table, u, Window(t))) >= WarnThreshold

LEMMA EarnedIsCounted ==
  WarnBansAreEarned <=>
    \A b \in bans : b.site = "warn" => Earned(warnings, b.user)
BY DEF WarnBansAreEarned, Earned, WarningsOf, Window, Quantify

LEMMA EarnedIsCountedPrimed ==
  WarnBansAreEarned' <=>
    \A b \in bans' : b.site = "warn" => Earned(warnings', b.user)
BY DEF WarnBansAreEarned, Earned, WarningsOf, Window, Quantify

(* Warnings are never taken back. *)
LEMMA EarnedStays ==
  ASSUME NEW more, IsFiniteSet(more), NEW table \in SUBSET more, NEW u,
         Earned(table, u)
  PROVE  Earned(more, u)
<1>1. PICK t \in 0 .. MaxTime :
        Cardinality(WarningsOf(table, u, Window(t))) >= WarnThreshold
  BY DEF Earned
<1> DEFINE less == WarningsOf(table, u, Window(t))
           all == WarningsOf(more, u, Window(t))
<1>2. all \in SUBSET more /\ less \in SUBSET all
  BY DEF WarningsOf
<1>3. IsFiniteSet(all) /\ IsFiniteSet(less) /\ Cardinality(less) <= Cardinality(all)
  BY <1>2, FS_Subset
<1>4. Cardinality(less) \in Nat /\ Cardinality(all) \in Nat
  BY <1>3, FS_CardinalityType
<1>5. WarnThreshold \in Nat
  BY AdminActionsAssumption
<1> HIDE DEF less, all
<1>6. Cardinality(all) >= WarnThreshold
  BY <1>1, <1>3, <1>4, <1>5 DEF less
<1> QED
  BY <1>6 DEF Earned, all

LEMMA EarnedStep ==
  ASSUME WarnBansAreEarned, IsFiniteSet(warnings'), warnings \in SUBSET warnings',
         \A b \in bans' : \/ b \in bans \/ b.site # "warn"
                          \/ Earned(warnings', b.user)
  PROVE  WarnBansAreEarned'
BY EarnedIsCounted, EarnedIsCountedPrimed, EarnedStays

LEMMA WarningsKept ==
  ASSUME WarningsOK, now \in Nat, now' \in {now, now + 1}, warnings' = warnings
  PROVE  WarningsOK' /\ IsFiniteSet(warnings')
BY DEF WarningsOK

-----------------------------------------------------------------------------
(* The messages of the group. *)

(* A message comes or gets another text, and all authors stay authors. *)
LEMMA NewPost ==
  ASSUME PostsOK, NEW p \in Post, now \in Nat, now' = now + 1, p.at = now',
         posts' = posts \cup {p}
  PROVE  PostsOK' /\ Authors /\ IsBy(p.id, p.by)'
<1>1. \A q \in posts : q.at \in Nat /\ q.at <= now
  BY DEF PostsOK, Post
<1> QED
  BY <1>1 DEF PostsOK, Authors, IsBy

LEMMA EditedPost ==
  ASSUME PostsOK, NEW p \in posts, NEW text \in Texts,
         now \in Nat, now' = now + 1, now' \in 1 .. MaxTime,
         posts' = (posts \ {p}) \cup {[p EXCEPT !.text = text, !.at = now']}
  PROVE  /\ PostsOK' /\ Authors /\ IsBy(p.id, p.by)'
         /\ p.by \in Members /\ p.id \in 1 .. MaxTime
         /\ \A q \in posts' : q \in posts \/ (q.text = text /\ q.at = now')
<1> DEFINE q == [p EXCEPT !.text = text, !.at = now']
<1>1. p \in Post
  BY DEF PostsOK
<1>2. q \in Post /\ q.id = p.id /\ q.by = p.by /\ q.text = text /\ q.at = now'
  BY <1>1 DEF Post
<1> HIDE DEF q
<1>3. posts' = (posts \ {p}) \cup {q}
  BY DEF q
<1>4. \A o \in posts : o.at \in Nat /\ o.at <= now
  BY DEF PostsOK, Post
<1>5. PostsOK'
  BY <1>2, <1>3, <1>4 DEF PostsOK
<1>6. Authors /\ IsBy(p.id, p.by)'
  BY <1>2, <1>3 DEF Authors, IsBy
<1> QED
  BY <1>1, <1>2, <1>3, <1>5, <1>6 DEF Post

(* The ban of a spammer, with its note and the deletions. *)
LEMMA ProcSpamStep ==
  ASSUME IInv, SettingOK', setting' = setting, now \in Nat, now' = now + 1,
         now' \in 1 .. MaxTime, Authors,
         NEW u \in Members \ {Group}, NEW id \in 1 .. MaxTime,
         NEW text \in Texts, NEW extra \in BOOLEAN,
         NEW fails \in SUBSET setting.fails, IsBy(id, u)',
         presses' = presses, told' = told,
         ProcSpam(u, id, text, extra, fails)
  PROVE  /\ SpamOK' /\ NotesOK' /\ PressesOK' /\ BansOK' /\ RemovalsOK'
         /\ SpamRemembers' /\ NotesAreTrue'
         /\ \A b \in bans' : b \in bans \/ b.site = "message"
<1>0. AddSpam(u, now', fails)
  BY DEF ProcSpam
<1>1. SpamOK'
  BY <1>0, SpamStep DEF IInv
<1>2. CASE IsSuper(u)
  <2>1. UNCHANGED <<standing, bans, removals>>
    BY <1>2 DEF ProcSpam
  <2>2. BansOK' /\ RemovalsOK'
    BY <2>1 DEF IInv, BansOK, RemovalsOK, BanAllowed, On, Authors
  <2>3. CASE On("training")
    <3>1. ReportBan(u, id, text, fails)
      BY <1>2, <2>3 DEF ProcSpam
    <3>2. /\ NotesOK' /\ PressesOK' /\ DOMAIN notes \in SUBSET DOMAIN notes'
          /\ \A n \in DOMAIN notes : notes'[n] = notes[n]
          /\ \A n \in DOMAIN notes' \ DOMAIN notes :
               /\ notes'[n].user = u /\ notes'[n].at = now'
               /\ notes'[n].said = "banned"
      BY <2>3, <3>1, ReportBanStep DEF IInv
    <3>3. SpamRemembers'
      BY <1>0, <3>2, DetectionRemembers DEF IInv
    <3>4. NotesAreTrue'
      BY <2>1, <3>2, StepLeavesNotesTrue DEF IInv
    <3> QED
      BY <1>1, <2>1, <2>2, <3>2, <3>3, <3>4
  <2>4. CASE ~On("training")
    <3>1. notes' = notes
      BY <1>2, <2>4 DEF ProcSpam
    <3>2. NotesOK' /\ PressesOK'
      BY <3>1, NotesKept DEF IInv, PressesOK
    <3>3. SpamRemembers'
      BY <1>0, <3>1, DetectionRemembers DEF IInv
    <3>4. NotesAreTrue'
      BY <2>1, <3>1, StepLeavesNotesTrue DEF IInv
    <3> QED
      BY <1>1, <2>1, <2>2, <3>2, <3>3, <3>4
  <2> QED
    BY <2>3, <2>4
<1>3. CASE ~IsSuper(u)
  <2>1. Ban(u, "message", On("soft"), On("training"), fails)
    BY <1>3 DEF ProcSpam
  <2>2. MayAsk(u, "message", On("soft"), On("training"))
    BY <1>3 DEF MayAsk, Sites, On, IsSuper
  <2>3. /\ BansOK' /\ bans \in SUBSET bans'
        /\ UNCHANGED <<standing, bans>>
             \/ \E b \in bans' : /\ b.user = u /\ b.site = "message"
                                 /\ standing' = [standing EXCEPT ![u] = b.kind]
                                 /\ bans' = bans \cup {b}
                                 /\ b.kind # "free"
    BY <2>1, <2>2, BanStep DEF IInv
  <2>4. RemovalsOK'
    <3>1. CASE removals' = removals
      BY <3>1 DEF IInv, RemovalsOK, Authors
    <3>2. CASE Erase({id} \cup Extra(u, id, extra), u, fails)
      <4>1. \A i \in Extra(u, id, extra) : i \in 1 .. MaxTime /\ IsBy(i, u)
        <5>1. \A p \in posts : p.id \in 1 .. MaxTime
          BY DEF IInv, PostsOK, Post
        <5> QED
          BY <5>1 DEF Extra, IsBy
      <4>2. \A i \in {id} \cup Extra(u, id, extra) : IsBy(i, u)'
        BY <4>1 DEF Authors
      <4>3. {id} \cup Extra(u, id, extra) \in SUBSET (1 .. MaxTime)
        BY <4>1
      <4> QED
        BY <3>2, <4>2, <4>3, EraseStep DEF IInv
    <3> QED
      BY <1>3, <3>1, <3>2 DEF ProcSpam
  <2>5. CASE "ban" \in fails /\ ~On("dry") /\ ~On("training")
    <3>1. notes' = notes
      BY <1>3, <2>5 DEF ProcSpam
    <3>2. UNCHANGED <<standing, bans>>
      BY <2>1, <2>5 DEF Ban
    <3>3. NotesOK' /\ PressesOK'
      BY <3>1, NotesKept DEF IInv, PressesOK
    <3>4. SpamRemembers'
      BY <1>0, <3>1, DetectionRemembers DEF IInv
    <3>5. NotesAreTrue'
      BY <3>1, <3>2, StepLeavesNotesTrue DEF IInv
    <3> QED
      BY <1>1, <2>3, <2>4, <3>2, <3>3, <3>4, <3>5
  <2>6. CASE ~("ban" \in fails /\ ~On("dry") /\ ~On("training"))
    <3>1. ReportBan(u, id, text, fails)
      BY <1>3, <2>6 DEF ProcSpam
    <3>2. /\ NotesOK' /\ PressesOK' /\ DOMAIN notes \in SUBSET DOMAIN notes'
          /\ \A n \in DOMAIN notes : notes'[n] = notes[n]
          /\ \A n \in DOMAIN notes' \ DOMAIN notes :
               /\ notes'[n].user = u /\ notes'[n].at = now'
               /\ notes'[n].said = "banned"
          /\ "send" \notin fails =>
               \E n \in DOMAIN notes' : /\ notes'[n].user = u
                                        /\ notes'[n].buttons # {}
      BY <1>3, <3>1, ReportBanStep DEF IInv, IsSuper
    <3>3. SpamRemembers'
      BY <1>0, <3>2, DetectionRemembers DEF IInv
    <3>4. \A v \in Members : v # u => standing'[v] = standing[v]
      BY <2>3 DEF IInv, BansOK
    <3>5. NotesAreTrue'
      BY <2>3, <3>2, <3>4, StepLeavesNotesTrue DEF IInv
    <3>6. \A b \in bans' : b \in bans \/ b.site = "message"
      BY <2>3
    <3> QED
      BY <1>1, <2>3, <2>4, <3>2, <3>3, <3>5, <3>6
  <2> QED
    BY <2>5, <2>6
<1> QED
  BY <1>2, <1>3

LEMMA ProcEventsStep ==
  ASSUME IInv, SettingOK', setting' = setting, now \in Nat, now' = now + 1,
         now' \in 1 .. MaxTime, PostsOK', Authors,
         NEW u \in Members, NEW id \in 1 .. MaxTime, NEW text \in Texts,
         NEW isSpam \in BOOLEAN, NEW extra \in BOOLEAN,
         NEW fails \in SUBSET setting.fails, IsBy(id, u)',
         \A p \in posts' : p \in posts \/ (p.text = text /\ p.at = now'),
         ProcEvents(u, id, text, isSpam, extra, fails)
  PROVE  IInv'
<1>1. AddMessage(text, u, id, u \in Named, now', fails)
      /\ UNCHANGED <<learned, warnings, presses, cleanups, told>>
  BY DEF ProcEvents
<1>2. text \notin Users
  BY AdminActionsAssumption
<1>3. RowsOK'
  <2>1. (u \in Named) \in BOOLEAN
    OBVIOUS
  <2> QED
    BY <1>1, <1>2, <2>1, LocateStep, Zenon DEF IInv
<1>4. RowsRemember'
  BY <1>1, LocateRemembers DEF IInv
<1>5. WarningsOK' /\ IsFiniteSet(warnings') /\ CleanupsOK'
  BY <1>1, WarningsKept DEF IInv, CleanupsOK, Authors
<1>6. CASE isSpam /\ u # Group
  <2>1. ProcSpam(u, id, text, extra, fails) /\ UNCHANGED approved
    BY <1>6 DEF ProcEvents
  <2>2. /\ SpamOK' /\ NotesOK' /\ PressesOK' /\ BansOK' /\ RemovalsOK'
        /\ SpamRemembers' /\ NotesAreTrue'
        /\ \A b \in bans' : b \in bans \/ b.site = "message"
    BY <1>1, <1>6, <2>1, ProcSpamStep
  <2>3. WarnBansAreEarned'
    BY <1>1, <1>5, <2>2, EarnedStep DEF IInv
  <2>4. GroupOK'
    BY <1>1, <2>1 DEF IInv, GroupOK
  <2> QED
    BY <1>3, <1>4, <1>5, <2>2, <2>3, <2>4 DEF IInv
<1>7. CASE ~(isSpam /\ u # Group)
  <2>1. approved' \in {approved, approved \cup ({u} \ {Group})}
        /\ UNCHANGED <<spam, standing, bans, notes, removals>>
    BY <1>7 DEF ProcEvents
  <2>2. GroupOK'
    BY <1>1, <2>1 DEF IInv, GroupOK
  <2>3. SpamOK' /\ BansOK' /\ RemovalsOK'
    BY <2>1 DEF IInv, SpamOK, BansOK, RemovalsOK, BanAllowed, On, Authors
  <2>4. NotesOK' /\ PressesOK'
    BY <1>1, <2>1, NotesKept DEF IInv, PressesOK
  <2>5. SpamRemembers'
    BY <2>1, TimeKeepsDetections DEF IInv
  <2>6. NotesAreTrue'
    BY <1>1, <2>1, StepLeavesNotesTrue DEF IInv
  <2>7. WarnBansAreEarned'
    BY <1>1, <1>5, <2>1, EarnedStep DEF IInv
  <2> QED
    BY <1>3, <1>4, <1>5, <2>2, <2>3, <2>4, <2>5, <2>6, <2>7 DEF IInv
<1> QED
  BY <1>6, <1>7

LEMMA MessageStep ==
  ASSUME IInv, NEW u \in setting.who, NEW text \in setting.texts,
         NEW isSpam \in BOOLEAN, NEW extra \in BOOLEAN, NEW fails,
         Message_(u, text, isSpam, extra, fails)
  PROVE  IInv'
<1>1. /\ SettingOK' /\ setting' = setting /\ now \in Nat /\ now' = now + 1
      /\ now' \in 1 .. MaxTime /\ fails \in SUBSET setting.fails
  BY UpdateStep DEF IInv, Message_
<1>0. PICK t \in 1 .. MaxTime : t = now'
  BY <1>1
<1> DEFINE p == [id |-> t, by |-> u, text |-> text, at |-> t]
<1>2. u \in Members /\ text \in Texts
  BY SettingTypes DEF IInv
<1>3. p \in Post /\ p.at = t /\ p.text = text /\ p.id = t /\ p.by = u
  BY <1>0, <1>1, <1>2 DEF Post
<1>4. posts' = posts \cup {p} /\ ProcEvents(u, t, text, isSpam, extra, fails)
  BY <1>0 DEF Message_
<1> HIDE DEF p
<1>5. PostsOK' /\ Authors /\ IsBy(t, u)'
  BY <1>0, <1>1, <1>3, <1>4, NewPost DEF IInv
<1>6. \A q \in posts' : q \in posts \/ (q.text = text /\ q.at = now')
  BY <1>0, <1>3, <1>4
<1> QED
  BY <1>0, <1>1, <1>2, <1>4, <1>5, <1>6, ProcEventsStep

LEMMA EditedMessageStep ==
  ASSUME IInv, NEW p \in posts, NEW text \in setting.texts,
         NEW isSpam \in BOOLEAN, NEW extra \in BOOLEAN, NEW fails,
         EditedMessage(p, text, isSpam, extra, fails)
  PROVE  IInv'
<1>1. /\ SettingOK' /\ setting' = setting /\ now \in Nat /\ now' = now + 1
      /\ now' \in 1 .. MaxTime /\ fails \in SUBSET setting.fails
  BY UpdateStep DEF IInv, EditedMessage
<1>2. text \in Texts
  BY SettingTypes DEF IInv
<1>3. posts' = (posts \ {p}) \cup {[p EXCEPT !.text = text, !.at = now']}
      /\ ProcEvents(p.by, p.id, text, isSpam, extra, fails)
  BY DEF EditedMessage
<1>4. /\ PostsOK' /\ Authors /\ IsBy(p.id, p.by)'
      /\ p.by \in Members /\ p.id \in 1 .. MaxTime
      /\ \A q \in posts' : q \in posts \/ (q.text = text /\ q.at = now')
  BY <1>1, <1>2, <1>3, EditedPost DEF IInv
<1> QED
  BY <1>1, <1>2, <1>3, <1>4, ProcEventsStep

-----------------------------------------------------------------------------
(* What a step leaves alone stays right. *)
LEMMA Kept ==
  ASSUME IInv, Authors, setting' = setting, now \in Nat,
         now' \in {now, now + 1}
  PROVE  /\ messages' = messages => RowsOK'
         /\ spam' = spam => SpamOK'
         /\ UNCHANGED <<approved, learned>> => GroupOK'
         /\ notes' = notes => NotesOK'
         /\ UNCHANGED <<notes, presses, told>> => PressesOK'
         /\ UNCHANGED <<standing, bans>> => BansOK'
         /\ warnings' = warnings => WarningsOK' /\ IsFiniteSet(warnings')
         /\ cleanups' = cleanups => CleanupsOK'
         /\ removals' = removals => RemovalsOK'
         /\ UNCHANGED <<messages, posts>> => RowsRemember'
         /\ UNCHANGED <<spam, notes>> => SpamRemembers'
<1>1. messages' = messages => RowsOK'
  BY DEF IInv, RowsOK, Authors
<1>2. spam' = spam => SpamOK'
  BY DEF IInv, SpamOK
<1>3. UNCHANGED <<approved, learned>> => GroupOK'
  BY DEF IInv, GroupOK
<1>4. notes' = notes => NotesOK'
  BY NotesKept DEF IInv
<1>5. UNCHANGED <<notes, presses, told>> => PressesOK'
  BY DEF IInv, PressesOK
<1>6. UNCHANGED <<standing, bans>> => BansOK'
  BY DEF IInv, BansOK, BanAllowed, On
<1>7. warnings' = warnings => WarningsOK' /\ IsFiniteSet(warnings')
  BY WarningsKept DEF IInv
<1>8. cleanups' = cleanups => CleanupsOK'
  BY DEF IInv, CleanupsOK, Authors
<1>9. removals' = removals => RemovalsOK'
  BY DEF IInv, RemovalsOK, Authors
<1>10. UNCHANGED <<messages, posts>> => RowsRemember'
  BY TimeRemembers DEF IInv
<1>11. UNCHANGED <<spam, notes>> => SpamRemembers'
  BY TimeKeepsDetections DEF IInv
<1> QED
  BY <1>1, <1>2, <1>3, <1>4, <1>5, <1>6, <1>7, <1>8, <1>9, <1>10, <1>11

LEMMA SamePosts == ASSUME posts' = posts PROVE Authors
BY DEF Authors, IsBy

LEMMA SamePostsOK ==
  ASSUME PostsOK, posts' = posts, now \in Nat, now' \in {now, now + 1}
  PROVE  PostsOK'
<1>1. \A p \in posts : p.at \in Nat
  BY DEF PostsOK, Post
<1> QED
  BY <1>1 DEF PostsOK

-----------------------------------------------------------------------------
(* Joins, kicks and reactions. *)

LEMMA JoinStep ==
  ASSUME IInv, NEW u \in Users, NEW fails, ProcNewChatMemberMessage(u, fails)
  PROVE  IInv'
<1>1. /\ SettingOK' /\ setting' = setting /\ now \in Nat /\ now' = now + 1
      /\ now' \in 1 .. MaxTime /\ fails \in SUBSET setting.fails
  BY UpdateStep DEF IInv, ProcNewChatMemberMessage
<1>0. PICK t \in 1 .. MaxTime : t = now'
  BY <1>1
<1> DEFINE p == [id |-> t, by |-> u, text |-> u, at |-> t]
<1>2. u \in Members
  BY DEF Members
<1>3. /\ p \in Post /\ p.at = now' /\ p.text = u /\ p.id = t /\ p.by = u
      /\ posts' = posts \cup {p}
  BY <1>0, <1>2 DEF Post, ProcNewChatMemberMessage
<1> HIDE DEF p
<1>4. PostsOK' /\ Authors /\ IsBy(t, u)'
  BY <1>1, <1>3, NewPost DEF IInv
<1>5. UNCHANGED <<spam, standing, approved, learned, warnings, notes, presses,
                  cleanups, bans, told>>
  BY DEF ProcNewChatMemberMessage
<1>6. /\ SpamOK' /\ GroupOK' /\ NotesOK' /\ PressesOK' /\ BansOK'
      /\ WarningsOK' /\ IsFiniteSet(warnings') /\ CleanupsOK' /\ SpamRemembers'
  BY <1>1, <1>4, <1>5, Kept
<1>7. NotesAreTrue'
  BY <1>1, <1>5, StepLeavesNotesTrue DEF IInv
<1>8. WarnBansAreEarned'
  BY <1>5, <1>6, EarnedStep DEF IInv
<1>9. CASE On("deleteJoins")
  <2>1. Erase({t}, u, fails) /\ UNCHANGED messages
    BY <1>0, <1>9 DEF ProcNewChatMemberMessage
  <2>2. RowsOK'
    BY <1>1, <1>4, <2>1, Kept
  <2>3. {t} \in SUBSET (1 .. MaxTime)
    OBVIOUS
  <2>4. RemovalsOK'
    BY <1>2, <1>4, <2>1, <2>3, EraseStep DEF IInv
  <2>5. RowsRemember'
    BY <1>1, <1>3, <1>9, <2>1, TimeRemembers DEF IInv
  <2> QED
    BY <1>1, <1>4, <1>6, <1>7, <1>8, <2>2, <2>4, <2>5 DEF IInv
<1>10. CASE ~On("deleteJoins")
  <2>1. AddMessage(u, u, t, FALSE, now', fails) /\ UNCHANGED removals
    BY <1>0, <1>10 DEF ProcNewChatMemberMessage
  <2>2. RowsOK'
    BY <1>1, <1>2, <1>4, <2>1, LocateStep DEF IInv
  <2>3. RemovalsOK'
    BY <1>1, <1>4, <2>1, Kept
  <2>4. RowsRemember'
    BY <1>1, <1>3, <2>1, LocateRemembers DEF IInv
  <2> QED
    BY <1>1, <1>4, <1>6, <1>7, <1>8, <2>2, <2>3, <2>4 DEF IInv
<1> QED
  BY <1>9, <1>10

LEMMA KickStep ==
  ASSUME IInv, NEW u \in Users, NEW fails, ProcLeftChatMemberMessage(u, fails)
  PROVE  IInv'
<1>1. /\ SettingOK' /\ setting' = setting /\ now \in Nat /\ now' = now + 1
      /\ now' \in 1 .. MaxTime /\ fails \in SUBSET setting.fails
  BY UpdateStep DEF IInv, ProcLeftChatMemberMessage
<1>2. /\ Erase({r.id : r \in Message(u)}, u, fails)
      /\ UNCHANGED <<posts, messages, spam, standing, approved, learned,
                     warnings, notes, presses, cleanups, bans, told>>
  BY DEF ProcLeftChatMemberMessage, locator
<1>3. Authors /\ PostsOK'
  BY <1>1, <1>2, SamePosts, SamePostsOK DEF IInv
<1>4. /\ SpamOK' /\ GroupOK' /\ NotesOK' /\ PressesOK' /\ BansOK'
      /\ WarningsOK' /\ IsFiniteSet(warnings') /\ CleanupsOK' /\ SpamRemembers'
      /\ RowsOK' /\ RowsRemember'
  BY <1>1, <1>2, <1>3, Kept
<1>5. NotesAreTrue'
  BY <1>1, <1>2, StepLeavesNotesTrue DEF IInv
<1>6. WarnBansAreEarned'
  BY <1>2, <1>4, EarnedStep DEF IInv
<1>7. \A id \in {r.id : r \in Message(u)} : id \in 1 .. MaxTime /\ IsBy(id, u)
  BY DEF IInv, RowsOK, LocatorRow, Message
<1>8. RemovalsOK'
  <2>1. u \in Members
    BY DEF Members
  <2>2. {r.id : r \in Message(u)} \in SUBSET (1 .. MaxTime)
    BY <1>7
  <2>3. \A id \in {r.id : r \in Message(u)} : IsBy(id, u)'
    BY <1>3, <1>7 DEF Authors
  <2> QED
    BY <1>2, <1>3, <2>1, <2>2, <2>3, EraseStep DEF IInv
<1> QED
  BY <1>1, <1>3, <1>4, <1>5, <1>6, <1>8 DEF IInv

LEMMA ReactionStep ==
  ASSUME IInv, NEW u \in Users, NEW fails, ProcReaction(u, fails)
  PROVE  IInv'
<1>1. /\ SettingOK' /\ setting' = setting /\ now \in Nat /\ now' = now + 1
      /\ now' \in 1 .. MaxTime /\ fails \in SUBSET setting.fails
  BY UpdateStep DEF IInv, ProcReaction
<1>2. /\ ~IsSuper(u) /\ AddSpam(u, now', fails)
      /\ Ban(u, "reaction", On("soft"), On("training"), fails)
      /\ UNCHANGED <<posts, messages, approved, learned, warnings, notes,
                     presses, cleanups, removals, told>>
  BY DEF ProcReaction
<1>3. Authors /\ PostsOK'
  BY <1>1, <1>2, SamePosts, SamePostsOK DEF IInv
<1>4. /\ GroupOK' /\ NotesOK' /\ PressesOK' /\ RemovalsOK'
      /\ WarningsOK' /\ IsFiniteSet(warnings') /\ CleanupsOK'
      /\ RowsOK' /\ RowsRemember'
  BY <1>1, <1>2, <1>3, Kept
<1>5. u \in Members /\ u # Group
  BY AdminActionsAssumption DEF Members
<1>6. SpamOK' /\ SpamRemembers'
  BY <1>1, <1>2, <1>5, SpamStep, DetectionRemembers DEF IInv
<1>7. MayAsk(u, "reaction", On("soft"), On("training"))
  BY <1>2, <1>5 DEF MayAsk, Sites, On, IsSuper
<1>8. /\ BansOK' /\ bans \in SUBSET bans'
      /\ UNCHANGED <<standing, bans>>
           \/ \E b \in bans' : /\ b.user = u /\ b.site = "reaction"
                               /\ standing' = [standing EXCEPT ![u] = b.kind]
                               /\ bans' = bans \cup {b}
                               /\ b.kind # "free"
  BY <1>1, <1>2, <1>7, BanStep DEF IInv
<1>9. \A v \in Members : v # u => standing'[v] = standing[v]
  BY <1>8 DEF IInv, BansOK
<1>10. NotesAreTrue'
  BY <1>1, <1>2, <1>8, <1>9, StepLeavesNotesTrue DEF IInv
<1>11. WarnBansAreEarned'
  BY <1>2, <1>4, <1>8, EarnedStep DEF IInv
<1> QED
  BY <1>1, <1>3, <1>4, <1>6, <1>8, <1>10, <1>11 DEF IInv

LEMMA PauseStep == ASSUME IInv, Pause PROVE IInv'
<1>1. /\ SettingOK' /\ setting' = setting /\ now \in Nat /\ now' = now + 1
  BY UpdateStep DEF IInv, Pause
<1>2. UNCHANGED <<posts, messages, spam, standing, approved, learned, warnings,
                  notes, presses, cleanups, removals, bans, told>>
  BY DEF Pause, locator, actions
<1>3. Authors /\ PostsOK'
  BY <1>1, <1>2, SamePosts, SamePostsOK DEF IInv
<1>4. /\ SpamOK' /\ GroupOK' /\ NotesOK' /\ PressesOK' /\ BansOK'
      /\ WarningsOK' /\ IsFiniteSet(warnings') /\ CleanupsOK' /\ SpamRemembers'
      /\ RowsOK' /\ RowsRemember' /\ RemovalsOK'
  BY <1>1, <1>2, <1>3, Kept
<1>5. NotesAreTrue'
  BY <1>1, <1>2, StepLeavesNotesTrue DEF IInv
<1>6. WarnBansAreEarned'
  BY <1>2, <1>4, EarnedStep DEF IInv
<1> QED
  BY <1>1, <1>3, <1>4, <1>5, <1>6 DEF IInv
-----------------------------------------------------------------------------
(* Replies and forwards. *)

(* What a ban leads to at a site that makes no note. *)
LEMMA BanOutcome ==
  ASSUME BansOK, NEW u, NEW site, NEW restrict, NEW training, NEW fails,
         MayAsk(u, site, restrict, training), setting' = setting,
         Ban(u, site, restrict, training, fails)
  PROVE  /\ BansOK' /\ bans \in SUBSET bans'
         /\ \A v \in Members : \/ standing'[v] = standing[v]
                               \/ \E b \in bans' : b.user = v /\ b.site = site
         /\ \A b \in bans' : b \in bans \/ (b.user = u /\ b.site = site)
<1>1. /\ BansOK' /\ bans \in SUBSET bans'
      /\ \/ UNCHANGED <<standing, bans>>
         \/ \E b \in bans' : /\ b.user = u /\ b.site = site
                             /\ standing' = [standing EXCEPT ![u] = b.kind]
                             /\ bans' = bans \cup {b}
  BY BanStep
<1>2. standing \in [Members -> {"free", "restricted", "banned"}]
  BY DEF BansOK
<1> QED
  BY <1>1, <1>2

(* The author and the number of a message there is. *)
LEMMA PostTypes ==
  ASSUME PostsOK, NEW p \in posts
  PROVE  /\ p.by \in Members /\ p.id \in 1 .. MaxTime
         /\ IsBy(p.id, p.by)
BY DEF PostsOK, Post, IsBy

LEMMA LearnStep ==
  ASSUME GroupOK, NEW text, NEW class \in {"spam", "ham"},
         approved' \in SUBSET Members,
         learned' = learned \/ Learn(text, class)
  PROVE  GroupOK'
BY DEF GroupOK, Learn

LEMMA DirectReportStep ==
  ASSUME IInv, NEW p \in posts, p.text \in Texts, NEW kind \in {"spam", "ban"},
         NEW fails, ProcSuperReply(p, kind, fails)
  PROVE  IInv'
<1>1. /\ SettingOK' /\ setting' = setting /\ now \in Nat /\ now' = now + 1
      /\ now' \in 1 .. MaxTime /\ fails \in SUBSET setting.fails
  BY UpdateStep DEF IInv, ProcSuperReply
<1>2. /\ DirectReport(p, kind = "spam", fails)
      /\ UNCHANGED <<posts, messages, spam, warnings, notes, presses, told>>
  BY DEF ProcSuperReply, DirectReport, locator
<1>3. Authors /\ PostsOK'
  BY <1>1, <1>2, SamePosts, SamePostsOK DEF IInv
<1>4. /\ SpamOK' /\ NotesOK' /\ PressesOK' /\ SpamRemembers'
      /\ WarningsOK' /\ IsFiniteSet(warnings') /\ RowsOK' /\ RowsRemember'
  BY <1>1, <1>2, <1>3, Kept
<1>5. p.by \in Members /\ p.id \in 1 .. MaxTime /\ IsBy(p.id, p.by)'
  BY <1>3, PostTypes DEF IInv, Authors
<1>6. /\ ~IsNamedSuper(p.by) /\ approved' = approved \ {p.by}
      /\ learned' = learned \/ Learn(p.text, "spam")
  BY <1>2 DEF DirectReport
<1>7. GroupOK'
  BY <1>6, LearnStep DEF IInv, GroupOK
<1>8. CleanupsOK'
  <2> DEFINE c == [user |-> p.by, listed |-> FALSE, left |-> {}, failures |-> 0]
  <2>1. c \in CleanupRun /\ c.left = {}
    BY <1>5, AdminActionsAssumption DEF CleanupRun
  <2>2. cleanups' \in {cleanups, cleanups \cup {c}}
    BY <1>2 DEF DirectReport
  <2> HIDE DEF c
  <2> QED
    BY <1>3, <2>1, <2>2 DEF IInv, CleanupsOK, Authors
<1>9. RemovalsOK'
  <2>1. CASE removals' = removals
    BY <1>1, <1>3, <2>1, Kept
  <2>2. CASE Erase({p.id}, p.by, fails)
    <3>1. {p.id} \in SUBSET (1 .. MaxTime) /\ \A i \in {p.id} : IsBy(i, p.by)'
      BY <1>5
    <3> QED
      BY <1>3, <1>5, <2>2, <3>1, EraseStep DEF IInv
  <2> QED
    BY <1>2, <2>1, <2>2 DEF DirectReport
<1>10. /\ BansOK' /\ bans \in SUBSET bans'
       /\ \A v \in Members : \/ standing'[v] = standing[v]
                             \/ \E b \in bans' : b.user = v /\ b.site = "command"
       /\ \A b \in bans' : b \in bans \/ b.site = "command"
  <2>1. CASE UNCHANGED <<standing, bans>>
    BY <1>1, <1>3, <2>1, Kept
  <2>2. CASE /\ p.by # Group
             /\ Ban(p.by, "command", FALSE, On("training"), fails)
    <3>1. MayAsk(p.by, "command", FALSE, On("training"))
      BY <1>5, <1>6, <2>2 DEF MayAsk, Sites, On, IsNamedSuper, IsSuper
    <3>2. BansOK /\ setting' = setting
      BY <1>1 DEF IInv
    <3>3. Ban(p.by, "command", FALSE, On("training"), fails)
      BY <2>2
    <3>4. /\ BansOK' /\ bans \in SUBSET bans'
          /\ \A v \in Members :
               \/ standing'[v] = standing[v]
               \/ \E b \in bans' : b.user = v /\ b.site = "command"
          /\ \A b \in bans' : b \in bans \/ (b.user = p.by /\ b.site = "command")
      BY <3>1, <3>2, <3>3, BanOutcome
    <3> QED
      BY <3>4
  <2> QED
    BY <1>2, <2>1, <2>2 DEF DirectReport
<1>11. NotesAreTrue'
  BY <1>1, <1>2, <1>10, StepLeavesNotesTrue DEF IInv
<1>12. WarnBansAreEarned'
  BY <1>2, <1>4, <1>10, EarnedStep DEF IInv
<1> QED
  BY <1>1, <1>3, <1>4, <1>7, <1>8, <1>9, <1>10, <1>11, <1>12 DEF IInv

(* A ban for warnings comes with as many of them as it takes, the one just *)
(* given among them.                                                       *)
LEMMA WarnStep ==
  ASSUME WarningsOK, BansOK, NEW u \in Members, u \in Supers => u \notin Named,
         NEW fails, setting' = setting, now \in Nat, now' = now + 1,
         now' \in 1 .. MaxTime, TrackWarnAndMaybeBan(u, fails)
  PROVE  /\ WarningsOK' /\ IsFiniteSet(warnings')
         /\ warnings \in SUBSET warnings'
         /\ BansOK' /\ bans \in SUBSET bans'
         /\ \A v \in Members : \/ standing'[v] = standing[v]
                               \/ \E b \in bans' : b.user = v /\ b.site = "warn"
         /\ \A b \in bans' : b \in bans \/ Earned(warnings', b.user)
<1>0. PICK t \in 1 .. MaxTime : t = now'
  OBVIOUS
<1>1. \A w \in warnings : w.at \in 0 .. MaxTime /\ w.at <= now
  BY DEF WarningsOK
<1>2. WarningsOK' /\ IsFiniteSet(warnings') /\ warnings \in SUBSET warnings'
  <2> DEFINE w == [user |-> u, at |-> t]
  <2>1. warnings' \in {warnings, warnings \cup {w}}
    BY <1>0 DEF TrackWarnAndMaybeBan, AddWarning
  <2>2. w \in [user : Members, at : 0 .. MaxTime] /\ w.at = t
    OBVIOUS
  <2> HIDE DEF w
  <2>3. IsFiniteSet(warnings \cup {w})
    BY FS_AddElement DEF WarningsOK
  <2>4. IsFiniteSet(warnings')
    BY <2>1, <2>3 DEF WarningsOK
  <2>5. \A v \in warnings' : v.at <= now'
    BY <1>0, <1>1, <2>1, <2>2
  <2> QED
    BY <2>1, <2>2, <2>4, <2>5 DEF WarningsOK
<1>3. CASE UNCHANGED <<standing, bans>>
  BY <1>2, <1>3 DEF BansOK, BanAllowed, On
<1>4. CASE /\ IsWarnTarget(u) /\ CountWithin(warnings', u) >= WarnThreshold
           /\ Ban(u, "warn", On("soft"), On("training"), fails)
  <2>1. MayAsk(u, "warn", On("soft"), On("training"))
    BY <1>4 DEF MayAsk, Sites, On, IsWarnTarget
  <2>2. /\ BansOK' /\ bans \in SUBSET bans'
        /\ \A v \in Members : \/ standing'[v] = standing[v]
                              \/ \E b \in bans' : b.user = v /\ b.site = "warn"
        /\ \A b \in bans' : b \in bans \/ b.user = u
    BY <1>4, <2>1, BanOutcome
  <2>3. \A w \in warnings' : w.at > t - WarnWindow <=> w.at \in Window(t)
    <3>1. \A w \in warnings' : w.at \in 0 .. MaxTime /\ w.at <= t
      BY <1>0, <1>2 DEF WarningsOK
    <3> QED
      BY <3>1, AdminActionsAssumption DEF Window
  <2>4. CountWithin(warnings', u) = Cardinality(WarningsOf(warnings', u, Window(t)))
    <3>1. {w \in warnings' : w.user = u /\ w.at > t - WarnWindow}
            = WarningsOf(warnings', u, Window(t))
      BY <2>3 DEF WarningsOf
    <3> QED
      BY <1>0, <3>1 DEF CountWithin, Quantify
  <2>5. Earned(warnings', u)
    BY <1>4, <2>4 DEF Earned
  <2> QED
    BY <1>2, <2>2, <2>5
<1> QED
  BY <1>3, <1>4 DEF TrackWarnAndMaybeBan

LEMMA DirectWarnStep ==
  ASSUME IInv, NEW p \in posts, p.text \in Texts, NEW fails,
         ProcSuperReply(p, "warn", fails)
  PROVE  IInv'
<1>1. /\ SettingOK' /\ setting' = setting /\ now \in Nat /\ now' = now + 1
      /\ now' \in 1 .. MaxTime /\ fails \in SUBSET setting.fails
  BY UpdateStep DEF IInv, ProcSuperReply
<1>2. /\ ~IsNamedSuper(p.by) /\ Erase({p.id}, p.by, fails)
      /\ TrackWarnAndMaybeBan(p.by, fails)
      /\ UNCHANGED <<posts, messages, spam, approved, learned, notes, presses,
                     cleanups, told>>
  BY DEF ProcSuperReply, DirectWarnReport, locator
<1>3. Authors /\ PostsOK'
  BY <1>1, <1>2, SamePosts, SamePostsOK DEF IInv
<1>4. /\ SpamOK' /\ GroupOK' /\ NotesOK' /\ PressesOK' /\ SpamRemembers'
      /\ RowsOK' /\ RowsRemember' /\ CleanupsOK'
  BY <1>1, <1>2, <1>3, Kept
<1>5. p.by \in Members /\ p.id \in 1 .. MaxTime /\ IsBy(p.id, p.by)'
  BY <1>3, PostTypes DEF IInv, Authors
<1>6. RemovalsOK'
  <2>1. {p.id} \in SUBSET (1 .. MaxTime) /\ \A i \in {p.id} : IsBy(i, p.by)'
    BY <1>5
  <2> QED
    BY <1>2, <1>3, <1>5, <2>1, EraseStep DEF IInv
<1>7. p.by \in Supers => p.by \notin Named
  BY <1>2 DEF IsNamedSuper, IsSuper
<1>8. /\ WarningsOK' /\ IsFiniteSet(warnings') /\ warnings \in SUBSET warnings'
      /\ BansOK' /\ bans \in SUBSET bans'
      /\ \A v \in Members : \/ standing'[v] = standing[v]
                            \/ \E b \in bans' : b.user = v /\ b.site = "warn"
      /\ \A b \in bans' : b \in bans \/ Earned(warnings', b.user)
  BY <1>1, <1>2, <1>5, <1>7, WarnStep DEF IInv
<1>9. NotesAreTrue'
  BY <1>1, <1>2, <1>8, StepLeavesNotesTrue DEF IInv
<1>10. WarnBansAreEarned'
  BY <1>8, EarnedStep DEF IInv
<1> QED
  BY <1>1, <1>3, <1>4, <1>6, <1>8, <1>9, <1>10 DEF IInv

LEMMA ForwardStep ==
  ASSUME IInv, NEW p \in posts, p.text \in Texts, NEW hidden, NEW fails,
         Forward(p, hidden, fails)
  PROVE  IInv'
<1>1. /\ SettingOK' /\ setting' = setting /\ now \in Nat /\ now' = now + 1
      /\ now' \in 1 .. MaxTime /\ fails \in SUBSET setting.fails
  BY UpdateStep DEF IInv, Forward
<1>2. /\ MsgHandler(p, hidden, fails)
      /\ UNCHANGED <<posts, messages, spam, warnings, notes, presses, cleanups,
                     told>>
  BY DEF Forward, MsgHandler, MsgHandlerFound, MsgHandlerFallback, locator
<1>3. Authors /\ PostsOK'
  BY <1>1, <1>2, SamePosts, SamePostsOK DEF IInv
<1>4. /\ SpamOK' /\ NotesOK' /\ PressesOK' /\ SpamRemembers' /\ CleanupsOK'
      /\ WarningsOK' /\ IsFiniteSet(warnings') /\ RowsOK' /\ RowsRemember'
  BY <1>1, <1>2, <1>3, Kept
<1>5. \A u \in Members \ {Group} :
        ~IsSuper(u) => MayAsk(u, "forward", FALSE, On("training"))
  BY DEF MayAsk, Sites, On, IsSuper
<1>6. /\ RemovalsOK' /\ GroupOK'
      /\ UNCHANGED <<standing, bans>>
           \/ \E u \in Members \ {Group} :
                /\ ~IsSuper(u)
                /\ Ban(u, "forward", FALSE, On("training"), fails)
  <2>1. CASE \E row \in Message(p.text) : MsgHandlerFound(row, fails)
    <3>1. PICK row \in messages : /\ row.text = p.text
                                  /\ MsgHandlerFound(row, fails)
      BY <2>1 DEF Message
    <3>2. /\ row.user \in Members /\ row.id \in 1 .. MaxTime
          /\ IsBy(row.id, row.user)'
      BY <1>3 DEF IInv, RowsOK, LocatorRow, Authors
    <3>3. /\ ~IsSuper(row.user) /\ approved' = approved \ {row.user}
          /\ learned' = learned \/ Learn(row.text, "spam")
          /\ removals' = removals \/ Erase({row.id}, row.user, fails)
          /\ \/ UNCHANGED <<standing, bans>>
             \/ /\ row.user # Group
                /\ Ban(row.user, "forward", FALSE, On("training"), fails)
      BY <3>1 DEF MsgHandlerFound
    <3>4. GroupOK'
      BY <3>3, LearnStep DEF IInv, GroupOK
    <3>5. {row.id} \in SUBSET (1 .. MaxTime)
          /\ \A i \in {row.id} : IsBy(i, row.user)'
      BY <3>2
    <3>6. RemovalsOK'
      BY <1>1, <1>3, <3>2, <3>3, <3>5, EraseStep, Kept DEF IInv
    <3> QED
      BY <3>2, <3>3, <3>4, <3>6
  <2>2. CASE p.by \in Users /\ MsgHandlerFallback(p.by, p.text, fails)
    <3>1. /\ ~IsSuper(p.by) /\ approved' = approved \ {p.by}
          /\ learned' = learned \/ Learn(p.text, "spam")
          /\ removals' = removals
          /\ \/ UNCHANGED <<standing, bans>>
             \/ Ban(p.by, "forward", FALSE, On("training"), fails)
      BY <2>2 DEF MsgHandlerFallback
    <3>2. p.by \in Members \ {Group}
      BY <2>2, AdminActionsAssumption DEF Members
    <3>3. GroupOK'
      BY <3>1, LearnStep DEF IInv, GroupOK
    <3>4. RemovalsOK'
      BY <1>1, <1>3, <3>1, Kept
    <3> QED
      BY <3>1, <3>2, <3>3, <3>4
  <2> QED
    BY <1>2, <2>1, <2>2 DEF MsgHandler
<1>7. /\ BansOK' /\ bans \in SUBSET bans'
      /\ \A v \in Members : \/ standing'[v] = standing[v]
                            \/ \E b \in bans' : b.user = v /\ b.site = "forward"
      /\ \A b \in bans' : b \in bans \/ b.site = "forward"
  <2>1. CASE UNCHANGED <<standing, bans>>
    BY <1>1, <1>3, <2>1, Kept
  <2>2. CASE \E u \in Members \ {Group} :
               /\ ~IsSuper(u)
               /\ Ban(u, "forward", FALSE, On("training"), fails)
    <3>1. PICK u \in Members \ {Group} :
            ~IsSuper(u) /\ Ban(u, "forward", FALSE, On("training"), fails)
      BY <2>2
    <3>2. MayAsk(u, "forward", FALSE, On("training"))
      BY <1>5, <3>1
    <3> QED
      BY <1>1, <3>1, <3>2, BanOutcome DEF IInv
  <2> QED
    BY <1>6, <2>1, <2>2
<1>8. NotesAreTrue'
  BY <1>1, <1>2, <1>7, StepLeavesNotesTrue DEF IInv
<1>9. WarnBansAreEarned'
  BY <1>2, <1>4, <1>7, EarnedStep DEF IInv
<1> QED
  BY <1>1, <1>3, <1>4, <1>6, <1>7, <1>8, <1>9 DEF IInv
-----------------------------------------------------------------------------
(* The buttons. *)

(* A handled press edits at most its own note.  If it closes the note, it  *)
(* is with a ban, an error for the admins or a super, or the member is     *)
(* free, or had asked an admin for its ban.                                *)
LEMMA EditLeavesNotesTrue ==
  ASSUME NotesAreTrue, NotesOK, setting' = setting, NEW n \in DOMAIN notes,
         told \in SUBSET told', bans \in SUBSET bans',
         DOMAIN notes' = DOMAIN notes,
         \A m \in DOMAIN notes : /\ notes'[m].user = notes[m].user
                                 /\ m # n => notes'[m] = notes[m],
         \/ notes'[n].said = notes[n].said \/ notes'[n].said # "confirmed"
         \/ \E b \in bans' : b.user = notes[n].user /\ b.site = "confirm"
         \/ n \in told' \/ IsSuper(notes[n].user)
         \/ "send" \in setting.fails
         \/ On("dry") \/ ~(On("training") \/ On("soft")),
         \/ notes'[n] = notes[n] \/ notes'[n].buttons # {}
         \/ notes'[n].said = "confirmed"
         \/ standing'[notes[n].user] = "free"
         \/ \E b \in bans' : b.user = notes[n].user /\ b.site # "message",
         \A u \in Members : \/ standing'[u] = "free" \/ standing[u] # "free"
                            \/ \E b \in bans' : b.user = u /\ b.site # "message"
  PROVE  NotesAreTrue'
<1>1. ClosedNotesAreSettled'
  <2> SUFFICES ASSUME NEW m \in DOMAIN notes, notes'[m].said = "confirmed",
                      ~On("dry"), On("training") \/ On("soft"),
                      "send" \notin setting.fails
               PROVE  \/ \E b \in bans' : /\ b.user = notes'[m].user
                                          /\ b.site = "confirm"
                      \/ m \in told' \/ IsSuper(notes'[m].user)
    BY DEF ClosedNotesAreSettled, On, IsSuper
  <2>1. CASE notes'[m].said = notes[m].said
    BY <2>1 DEF NotesAreTrue, ClosedNotesAreSettled
  <2>2. CASE notes'[m].said # notes[m].said
    BY <2>2
  <2> QED
    BY <2>1, <2>2
<1>2. BannedCanBeFreed'
  <2> SUFFICES ASSUME "send" \notin setting.fails, NEW u \in Members,
                      standing'[u] # "free",
                      \A b \in bans' : b.user = u => b.site = "message"
               PROVE  \E m \in DOMAIN notes :
                        /\ notes'[m].user = u
                        /\ notes'[m].buttons # {} \/ notes'[m].said = "confirmed"
    BY DEF BannedCanBeFreed
  <2>1. standing[u] # "free" /\ \A b \in bans : b.user = u => b.site = "message"
    OBVIOUS
  <2>2. PICK m \in DOMAIN notes :
          /\ notes[m].user = u
          /\ notes[m].buttons # {} \/ notes[m].said = "confirmed"
    BY <2>1 DEF NotesAreTrue, BannedCanBeFreed
  <2>3. CASE m # n
    BY <2>2, <2>3
  <2>4. CASE m = n
    BY <2>2, <2>4
  <2> QED
    BY <2>3, <2>4
<1> QED
  BY <1>1, <1>2 DEF NotesAreTrue

(* The press is gone, and maybe an error came of it. *)
LEMMA PressHandled ==
  ASSUME PressesOK, NEW k \in presses, NEW fails, DOMAIN notes' = DOMAIN notes,
         presses' = presses \ {k}, told' = told \/ Failed(k, fails)
  PROVE  /\ PressesOK' /\ told \in SUBSET told' /\ k.note \in DOMAIN notes
         /\ Failed(k, fails) => k.note \in told' \/ "send" \in fails
BY DEF PressesOK, Failed, Complain

(* Whoever is not free after its unban was banned otherwise than for a     *)
(* message.                                                                *)
LEMMA UnbanLeaves ==
  ASSUME BansOK, NEW u \in Members,
         NEW s \in IF On("training") THEN {standing[u]} ELSE Unbanned(u)
  PROVE  /\ s \in {"free", standing[u]}
         /\ s = "free" \/ \E b \in bans : b.user = u /\ b.site # "message"
<1>1. CASE On("training")
  <2>1. s = standing[u]
    BY <1>1
  <2>2. s # "free" => \E b \in bans : b.user = u
    BY <2>1 DEF BansOK
  <2> QED
    BY <1>1, <2>1, <2>2 DEF BansOK, BanAllowed
<1>2. CASE ~On("training") /\ s # "free"
  <2>1. On("soft") /\ u \notin Channels /\ standing[u] = "banned" /\ s = "banned"
    BY <1>2 DEF Unbanned
  <2>2. PICK b \in bans : b.user = u /\ b.kind = "banned"
    BY <2>1 DEF BansOK
  <2>3. b.site # "message"
    BY <2>1, <2>2 DEF BansOK, BanAllowed
  <2> QED
    BY <2>1, <2>2, <2>3
<1> QED
  BY <1>1, <1>2

LEMMA AskOrInfoStep ==
  ASSUME IInv, posts' = posts, setting' = setting, now' = now,
         UNCHANGED <<messages, spam>>,
         NEW k \in presses, NEW fails \in SUBSET setting.fails,
         CallbackAskBanConfirmation(k, fails) \/ CallbackShowInfo(k, fails)
  PROVE  IInv'
<1>1. /\ presses' = presses \ {k}
      /\ UNCHANGED <<standing, approved, learned, warnings, cleanups, removals,
                     bans>>
      /\ \/ Failed(k, fails) /\ notes' = notes
         \/ /\ told' = told
            /\ \E buttons \in SUBSET Buttons, said \in {"banned", notes[k.note].said} :
                 buttons # {} /\ Edit(k.note, buttons, said)
  <2>1. {"unban", "+"} \in SUBSET Buttons /\ {"?"} \in SUBSET Buttons
    BY DEF Buttons
  <2> QED
    BY <2>1 DEF CallbackAskBanConfirmation, CallbackShowInfo, Handle
<1> DEFINE n == k.note
<1>2. n \in DOMAIN notes
  BY DEF IInv, PressesOK
<1>3. notes[n] \in Note /\ notes[n].said \in {"banned", "confirmed", "unbanned"}
  BY <1>2, NoteTypes DEF IInv, Note
<1>4. now \in Nat /\ SettingOK' /\ Authors /\ PostsOK'
  BY SettingTypes, SamePosts DEF IInv, SettingOK, PostsOK
<1>5. /\ NotesOK' /\ DOMAIN notes' = DOMAIN notes
      /\ told' = told \/ Failed(k, fails)
      /\ \A m \in DOMAIN notes : /\ notes'[m].user = notes[m].user
                                 /\ notes'[m].at = notes[m].at
                                 /\ m # n => notes'[m] = notes[m]
      /\ notes'[n] = notes[n] \/ notes'[n].buttons # {}
      /\ notes'[n].said \in {"banned", notes[n].said}
  <2>1. CASE Failed(k, fails) /\ notes' = notes
    BY <1>4, <2>1, NotesKept DEF IInv
  <2>2. CASE /\ told' = told
             /\ \E buttons \in SUBSET Buttons, said \in {"banned", notes[n].said} :
                  buttons # {} /\ Edit(n, buttons, said)
    BY <1>2, <1>3, <2>2, EditStep DEF IInv
  <2> QED
    BY <1>1, <2>1, <2>2
<1>6. PressesOK' /\ told \in SUBSET told'
  BY <1>1, <1>5, PressHandled DEF IInv
<1>7. /\ RowsOK' /\ SpamOK' /\ GroupOK' /\ BansOK' /\ WarningsOK'
      /\ IsFiniteSet(warnings') /\ CleanupsOK' /\ RemovalsOK' /\ RowsRemember'
  BY <1>1, <1>4, Kept
<1>8. SpamRemembers'
  BY <1>5, TimeKeepsDetections DEF IInv
<1>9. NotesAreTrue'
  BY <1>1, <1>2, <1>5, <1>6, EditLeavesNotesTrue DEF IInv
<1>10. WarnBansAreEarned'
  BY <1>1, <1>7, EarnedStep DEF IInv
<1> QED
  BY <1>4, <1>5, <1>6, <1>7, <1>8, <1>9, <1>10 DEF IInv
(* The ban that waited for an admin. *)
LEMMA ConfirmedBan ==
  ASSUME BansOK, setting' = setting, NEW u, NEW fails,
         MayAsk(u, "confirm", FALSE, FALSE),
         Ban(u, "confirm", FALSE, FALSE, fails)
  PROVE  /\ BansOK' /\ bans \in SUBSET bans'
         /\ \A v \in Members : \/ standing'[v] = standing[v]
                               \/ \E b \in bans' : b.user = v /\ b.site = "confirm"
         /\ \A b \in bans' : b \in bans \/ b.site = "confirm"
         /\ ~On("dry") /\ "ban" \notin fails =>
              \E b \in bans' : b.user = u /\ b.site = "confirm"
<1>1. ~On("dry") /\ "ban" \notin fails =>
        \E b \in bans' : b.user = u /\ b.site = "confirm"
  <2> SUFFICES ASSUME ~On("dry"), "ban" \notin fails
               PROVE  \E b \in bans' : b.user = u /\ b.site = "confirm"
    OBVIOUS
  <2>1. [user |-> u, site |-> "confirm", kind |-> "banned"] \in bans'
    BY DEF Ban
  <2> QED
    BY <2>1
<1>2. /\ BansOK' /\ bans \in SUBSET bans'
      /\ \A v \in Members : \/ standing'[v] = standing[v]
                            \/ \E b \in bans' : b.user = v /\ b.site = "confirm"
      /\ \A b \in bans' : b \in bans \/ (b.user = u /\ b.site = "confirm")
  BY BanOutcome
<1> QED
  BY <1>1, <1>2

LEMMA ConfirmedStep ==
  ASSUME IInv, posts' = posts, setting' = setting, now' = now,
         UNCHANGED <<messages, spam>>,
         NEW k \in presses, NEW fails \in SUBSET setting.fails,
         CallbackBanConfirmed(k, fails)
  PROVE  IInv'
<1> DEFINE n == k.note
<1>1. presses' = presses \ {k} /\ UNCHANGED <<approved, warnings, cleanups>>
  BY DEF CallbackBanConfirmed, Handle
<1>2. n \in DOMAIN notes
  BY DEF IInv, PressesOK
<1>0. notes[n].user \in Members /\ notes[n].id \in 1 .. MaxTime
  BY <1>2, NoteTypes DEF IInv
<1> PICK u \in Members : u = notes[n].user
  BY <1>0
<1> PICK id \in 1 .. MaxTime : id = notes[n].id
  BY <1>0
<1>3. /\ u # Group /\ IsBy(id, u)
      /\ u \in Supers => On("training")
  BY <1>2 DEF IInv, NotesOK
<1>4. now \in Nat /\ SettingOK' /\ Authors /\ PostsOK'
  BY SettingTypes, SamePosts DEF IInv, SettingOK, PostsOK
<1>5. /\ NotesOK' /\ DOMAIN notes' = DOMAIN notes
      /\ \A m \in DOMAIN notes : /\ notes'[m].user = notes[m].user
                                 /\ notes'[m].at = notes[m].at
                                 /\ m # n => notes'[m] = notes[m]
      /\ notes'[n] = notes[n] \/ notes'[n].said = "confirmed"
  <2>1. CASE notes' = notes
    BY <1>4, <2>1, NotesKept DEF IInv
  <2>2. CASE Edit(n, {}, "confirmed")
    <3>1. {} \in SUBSET Buttons
      OBVIOUS
    <3> QED
      BY <1>2, <2>2, <3>1, EditStep DEF IInv
  <2> QED
    BY <2>1, <2>2 DEF CallbackBanConfirmed
<1>6. MayAsk(u, "confirm", FALSE, FALSE)
  BY <1>3 DEF MayAsk, Sites, On
(* How far it came. *)
<1>7. /\ learned' = learned \/ Learn(notes[n].text, "spam")
      /\ removals' = removals \/ Erase({id}, u, fails)
      /\ told' = told \/ Failed(k, fails)
      /\ \/ /\ UNCHANGED <<standing, bans>>
            /\ \/ notes' = notes \/ Failed(k, fails) \/ IsSuper(u)
               \/ ~(On("training") \/ On("soft"))
         \/ /\ Ban(u, "confirm", FALSE, FALSE, fails)
            /\ "ban" \in fails => Failed(k, fails)
  <2>1. CASE On("training") /\ DeleteAndBan(n, fails)
                            /\ Learn(notes[n].text, "spam")
    BY <2>1 DEF DeleteAndBan, Failed
  <2>2. CASE ~(On("training") /\ DeleteAndBan(n, fails)
                              /\ Learn(notes[n].text, "spam"))
    BY <2>2 DEF CallbackBanConfirmed
  <2> QED
    BY <2>1, <2>2
<1>8. /\ PressesOK' /\ told \in SUBSET told'
      /\ Failed(k, fails) => n \in told' \/ "send" \in fails
  BY <1>1, <1>5, <1>7, PressHandled DEF IInv
<1>9. GroupOK'
  BY <1>1, <1>7, LearnStep DEF IInv, GroupOK
<1>10. RemovalsOK'
  <2>1. {id} \in SUBSET (1 .. MaxTime)
        /\ \A i \in {id} : IsBy(i, u)'
    BY <1>3, <1>4 DEF Authors
  <2> QED
    BY <1>3, <1>4, <1>7, <2>1, EraseStep, Kept DEF IInv
<1>11. /\ BansOK' /\ bans \in SUBSET bans'
       /\ \A v \in Members : \/ standing'[v] = standing[v]
                             \/ \E b \in bans' : b.user = v /\ b.site = "confirm"
       /\ \A b \in bans' : b \in bans \/ b.site = "confirm"
       /\ \/ \E b \in bans' : b.user = u /\ b.site = "confirm"
          \/ notes' = notes \/ Failed(k, fails) \/ IsSuper(u)
          \/ On("dry") \/ ~(On("training") \/ On("soft"))
  <2>1. CASE /\ UNCHANGED <<standing, bans>>
             /\ \/ notes' = notes \/ Failed(k, fails) \/ IsSuper(u)
                \/ ~(On("training") \/ On("soft"))
    BY <1>4, <2>1, Kept
  <2>2. CASE /\ Ban(u, "confirm", FALSE, FALSE, fails)
             /\ "ban" \in fails => Failed(k, fails)
    <3>1. BansOK
      BY DEF IInv
    <3> QED
      BY <1>6, <2>2, <3>1, ConfirmedBan
  <2> QED
    BY <1>7, <2>1, <2>2
<1>12. /\ RowsOK' /\ SpamOK' /\ WarningsOK' /\ IsFiniteSet(warnings')
       /\ CleanupsOK' /\ RowsRemember'
  BY <1>1, <1>4, Kept
<1>13. SpamRemembers'
  BY <1>5, TimeKeepsDetections DEF IInv
<1>14. NotesAreTrue'
  <2>1. \A v \in Members :
          \/ standing'[v] = "free" \/ standing[v] # "free"
          \/ \E b \in bans' : b.user = v /\ b.site # "message"
    BY <1>11
  <2>2. \/ notes'[n].said = notes[n].said \/ notes'[n].said # "confirmed"
        \/ \E b \in bans' : b.user = notes[n].user /\ b.site = "confirm"
        \/ n \in told' \/ IsSuper(notes[n].user)
        \/ "send" \in setting.fails
        \/ On("dry") \/ ~(On("training") \/ On("soft"))
    BY <1>8, <1>11
  <2> QED
    BY <1>2, <1>5, <1>8, <1>11, <2>1, <2>2, EditLeavesNotesTrue DEF IInv
<1>15. WarnBansAreEarned'
  BY <1>1, <1>11, <1>12, EarnedStep DEF IInv
<1> QED
  BY <1>4, <1>5, <1>8, <1>9, <1>10, <1>11, <1>12, <1>13, <1>14, <1>15 DEF IInv

LEMMA UnbanStep ==
  ASSUME IInv, posts' = posts, setting' = setting, now' = now,
         UNCHANGED <<messages, spam>>,
         NEW k \in presses, NEW fails \in SUBSET setting.fails,
         CallbackUnbanConfirmed(k, fails)
  PROVE  IInv'
<1> DEFINE n == k.note
           u == notes[n].user
<1>1. presses' = presses \ {k} /\ UNCHANGED <<warnings, cleanups, removals, bans>>
  BY DEF CallbackUnbanConfirmed, Handle
<1>2. n \in DOMAIN notes
  BY DEF IInv, PressesOK
<1>3. u \in Members
  BY <1>2, NoteTypes DEF IInv
<1>4. now \in Nat /\ SettingOK' /\ Authors /\ PostsOK'
  BY SettingTypes, SamePosts DEF IInv, SettingOK, PostsOK
(* How far it came. *)
<1>5. /\ learned' = learned \/ Learn(notes[n].text, "ham")
      /\ approved' \in {approved, approved \cup {u}}
      /\ told' = told \/ Failed(k, fails)
      /\ \/ UNCHANGED <<standing, notes>>
         \/ /\ notes' = notes \/ Edit(n, {}, "unbanned")
            /\ \E s \in IF On("training") THEN {standing[u]} ELSE Unbanned(u) :
                 standing' = [standing EXCEPT ![u] = s]
  BY DEF CallbackUnbanConfirmed
<1>6. /\ NotesOK' /\ DOMAIN notes' = DOMAIN notes
      /\ \A m \in DOMAIN notes : /\ notes'[m].user = notes[m].user
                                 /\ notes'[m].at = notes[m].at
                                 /\ m # n => notes'[m] = notes[m]
      /\ notes'[n] = notes[n] \/ notes'[n].said = "unbanned"
  <2>1. CASE notes' = notes
    BY <1>4, <2>1, NotesKept DEF IInv
  <2>2. CASE Edit(n, {}, "unbanned")
    <3>1. {} \in SUBSET Buttons
      OBVIOUS
    <3> QED
      BY <1>2, <2>2, <3>1, EditStep DEF IInv
  <2> QED
    BY <1>5, <2>1, <2>2
<1>7. /\ standing' \in [Members -> {"free", "restricted", "banned"}]
      /\ \A v \in Members : standing'[v] \in {"free", standing[v]}
      /\ notes' = notes \/ standing'[u] = "free"
           \/ \E b \in bans : b.user = u /\ b.site # "message"
  <2>1. standing \in [Members -> {"free", "restricted", "banned"}]
    BY DEF IInv, BansOK
  <2>2. CASE UNCHANGED <<standing, notes>>
    BY <2>1, <2>2
  <2>3. CASE \E s \in IF On("training") THEN {standing[u]} ELSE Unbanned(u) :
               standing' = [standing EXCEPT ![u] = s]
    <3>1. PICK s \in IF On("training") THEN {standing[u]} ELSE Unbanned(u) :
            standing' = [standing EXCEPT ![u] = s]
      BY <2>3
    <3>2. /\ s \in {"free", standing[u]}
          /\ s = "free" \/ \E b \in bans : b.user = u /\ b.site # "message"
      BY <1>3, UnbanLeaves DEF IInv
    <3> QED
      BY <1>3, <2>1, <3>1, <3>2
  <2> QED
    BY <1>5, <2>2, <2>3
<1>8. PressesOK' /\ told \in SUBSET told'
  BY <1>1, <1>5, <1>6, PressHandled DEF IInv
<1>9. GroupOK'
  BY <1>3, <1>5, LearnStep DEF IInv, GroupOK
<1>10. BansOK'
  <2>1. \A v \in Members : standing'[v] # "free" =>
          \E b \in bans : b.user = v /\ b.kind = standing'[v]
    BY <1>7 DEF IInv, BansOK
  <2> QED
    BY <1>1, <1>7, <2>1 DEF IInv, BansOK, BanAllowed, On
<1>11. /\ RowsOK' /\ SpamOK' /\ WarningsOK' /\ IsFiniteSet(warnings')
       /\ CleanupsOK' /\ RemovalsOK' /\ RowsRemember'
  BY <1>1, <1>4, Kept
<1>12. SpamRemembers'
  BY <1>6, TimeKeepsDetections DEF IInv
<1>13. NotesAreTrue'
  BY <1>1, <1>2, <1>6, <1>7, <1>8, EditLeavesNotesTrue DEF IInv
<1>14. WarnBansAreEarned'
  BY <1>1, <1>11, EarnedStep DEF IInv
<1> QED
  BY <1>4, <1>6, <1>8, <1>9, <1>10, <1>11, <1>12, <1>13, <1>14 DEF IInv

LEMMA PressStep ==
  ASSUME IInv, NEW n \in DOMAIN notes, NEW b \in notes[n].buttons, Press(n, b)
  PROVE  IInv'
<1>1. /\ UNCHANGED <<setting, now, posts, messages, spam, standing, approved,
                     learned, warnings, notes, cleanups, removals, bans, told>>
      /\ presses' = presses \cup {[note |-> n, button |-> b]}
  BY DEF Press, AdminPress, locator
<1>2. now \in Nat /\ SettingOK' /\ Authors /\ PostsOK'
  BY <1>1, SettingTypes, SamePosts DEF IInv, SettingOK, PostsOK
<1>3. /\ SpamOK' /\ GroupOK' /\ NotesOK' /\ BansOK' /\ SpamRemembers'
      /\ WarningsOK' /\ IsFiniteSet(warnings') /\ CleanupsOK'
      /\ RowsOK' /\ RowsRemember' /\ RemovalsOK'
  BY <1>1, <1>2, Kept
<1>4. PressesOK'
  <2>1. b \in Buttons
    BY NoteTypes DEF IInv
  <2> QED
    BY <1>1, <2>1 DEF IInv, PressesOK
<1>5. NotesAreTrue'
  BY <1>1, StepLeavesNotesTrue DEF IInv
<1>6. WarnBansAreEarned'
  BY <1>1, <1>3, EarnedStep DEF IInv
<1> QED
  BY <1>2, <1>3, <1>4, <1>5, <1>6 DEF IInv

(* The messages a clean-up lists are those of its member. *)
LEMMA CleanupStep ==
  ASSUME IInv, NEW c \in cleanups, NEW fails, Cleanup(c, fails)
  PROVE  IInv'
<1>1. /\ UNCHANGED <<setting, now, posts, messages, spam, standing, approved,
                     learned, warnings, notes, presses, bans, told>>
      /\ CleanupRead(c) \/ CleanupEnd(c)
         \/ \E id \in c.left : CleanupDelete(c, id, fails)
  BY DEF Cleanup, locator
<1>2. now \in Nat /\ SettingOK' /\ Authors /\ PostsOK'
  BY <1>1, SettingTypes, SamePosts DEF IInv, SettingOK, PostsOK
<1>3. /\ SpamOK' /\ GroupOK' /\ NotesOK' /\ BansOK' /\ SpamRemembers'
      /\ WarningsOK' /\ IsFiniteSet(warnings') /\ PressesOK'
      /\ RowsOK' /\ RowsRemember'
  BY <1>1, <1>2, Kept
<1>4. /\ c \in CleanupRun /\ c.user \in Members /\ c.left \in SUBSET (1 .. MaxTime)
      /\ \A id \in c.left : IsBy(id, c.user)
      /\ c.failures \in 0 .. MaxFailures
  BY DEF IInv, CleanupsOK, CleanupRun
<1>5. CleanupsOK' /\ RemovalsOK'
  <2>1. CASE CleanupRead(c)
    <3> DEFINE ids == GetUserMessageIDs(c.user, CleanupLimit)
               d == [c EXCEPT !.listed = TRUE, !.left = ids]
    <3>1. \A id \in ids : id \in 1 .. MaxTime /\ IsBy(id, c.user)
      BY DEF IInv, RowsOK, LocatorRow, GetUserMessageIDs
    <3>2. cleanups' = (cleanups \ {c}) \cup {d} /\ removals' = removals
      BY <2>1 DEF CleanupRead
    <3>3. ids \in SUBSET (1 .. MaxTime)
      BY <3>1
    <3> HIDE DEF ids
    <3>4. d \in CleanupRun /\ d.left = ids /\ d.user = c.user
      BY <1>4, <3>3 DEF CleanupRun
    <3> HIDE DEF d
    <3>5. CleanupsOK'
      BY <1>2, <3>1, <3>2, <3>4 DEF IInv, CleanupsOK, Authors
    <3> QED
      BY <1>1, <1>2, <3>2, <3>5, Kept
  <2>2. CASE CleanupEnd(c)
    BY <1>1, <1>2, <2>2, Kept DEF IInv, CleanupsOK, CleanupEnd, Authors
  <2>3. CASE \E id \in c.left : CleanupDelete(c, id, fails)
    <3>1. PICK id \in c.left : CleanupDelete(c, id, fails)
      BY <2>3
    <3> DEFINE f == IF "erase" \in fails THEN c.failures + 1 ELSE 0
               d == [c EXCEPT !.left = c.left \ {id}, !.failures = f]
    <3>2. /\ c.failures < MaxFailures /\ Erase({id}, c.user, fails)
          /\ cleanups' = (cleanups \ {c}) \cup {d}
      BY <3>1 DEF CleanupDelete
    <3>3. MaxFailures \in Nat
      BY AdminActionsAssumption
    <3>8. f \in 0 .. MaxFailures
      BY <1>4, <3>2, <3>3
    <3> HIDE DEF f
    <3>4. d \in CleanupRun /\ d.left \in SUBSET c.left /\ d.user = c.user
      BY <1>4, <3>8 DEF CleanupRun
    <3> HIDE DEF d
    <3>5. CleanupsOK'
      BY <1>2, <1>4, <3>2, <3>4 DEF IInv, CleanupsOK, Authors
    <3>6. {id} \in SUBSET (1 .. MaxTime) /\ \A i \in {id} : IsBy(i, c.user)'
      BY <1>2, <1>4 DEF Authors
    <3>7. RemovalsOK'
      BY <1>2, <1>4, <3>2, <3>6, EraseStep DEF IInv
    <3> QED
      BY <3>5, <3>7
  <2> QED
    BY <1>1, <2>1, <2>2, <2>3
<1>6. NotesAreTrue'
  BY <1>1, StepLeavesNotesTrue DEF IInv
<1>7. WarnBansAreEarned'
  BY <1>1, <1>3, EarnedStep DEF IInv
<1> QED
  BY <1>2, <1>3, <1>5, <1>6, <1>7 DEF IInv
-----------------------------------------------------------------------------
(* The invariant is inductive. *)

LEMMA InitInv == ASSUME Init PROVE IInv
<1>1. SettingOK /\ PostsOK /\ RowsOK /\ SpamOK /\ GroupOK
  BY ListenerAssumption DEF Init, SettingOK, PostsOK, RowsOK, SpamOK, GroupOK
<1>2. NotesOK /\ PressesOK /\ CleanupsOK /\ RemovalsOK /\ DOMAIN notes = {}
  BY DEF Init, NotesOK, PressesOK, CleanupsOK, RemovalsOK
<1>3. BansOK
  BY DEF Init, BansOK
<1>4. WarningsOK
  BY FS_EmptySet DEF Init, WarningsOK
<1>5. RowsRemember /\ SpamRemembers /\ NotesAreTrue
  BY <1>2 DEF Init, RowsRemember, SpamRemembers, NotesAreTrue,
              ClosedNotesAreSettled, BannedCanBeFreed
<1>6. WarnBansAreEarned
  BY DEF Init, WarnBansAreEarned
<1> QED
  BY <1>1, <1>2, <1>3, <1>4, <1>5, <1>6 DEF IInv

LEMMA HandlePressStep ==
  ASSUME IInv, NEW k \in presses, NEW fails, HandlePress(k, fails)
  PROVE  IInv'
<1>1. /\ fails \in SUBSET setting.fails /\ InlineCallbackHandler(k, fails)
      /\ setting' = setting /\ now' = now /\ posts' = posts
      /\ UNCHANGED <<messages, spam>>
  BY DEF HandlePress, locator
<1> QED
  BY <1>1, AskOrInfoStep, ConfirmedStep, UnbanStep DEF InlineCallbackHandler

LEMMA DoStep == ASSUME IInv, NEW fails, Do(fails) PROVE IInv'
<1>1. CASE \E text \in setting.texts, isSpam \in BOOLEAN, extra \in BOOLEAN :
             \/ \E u \in setting.who : Message_(u, text, isSpam, extra, fails)
             \/ \E p \in posts : /\ p.text \in Texts
                                 /\ EditedMessage(p, text, isSpam, extra, fails)
  BY <1>1, MessageStep, EditedMessageStep
<1>2. CASE \E u \in Users \cap setting.who :
             \/ ProcNewChatMemberMessage(u, fails)
             \/ ProcLeftChatMemberMessage(u, fails)
             \/ ProcReaction(u, fails)
  BY <1>2, JoinStep, KickStep, ReactionStep
<1>3. CASE \E p \in posts :
             /\ p.text \in Texts
             /\ \/ \E kind \in {"spam", "ban", "warn"} : ProcSuperReply(p, kind, fails)
                \/ \E hidden \in BOOLEAN : Forward(p, hidden, fails)
  <2>1. PICK p \in posts :
          /\ p.text \in Texts
          /\ \/ \E kind \in {"spam", "ban", "warn"} : ProcSuperReply(p, kind, fails)
             \/ \E hidden \in BOOLEAN : Forward(p, hidden, fails)
    BY <1>3
  <2>2. CASE \E kind \in {"spam", "ban"} : ProcSuperReply(p, kind, fails)
    BY <2>1, <2>2, DirectReportStep
  <2>3. CASE ProcSuperReply(p, "warn", fails)
    BY <2>1, <2>3, DirectWarnStep
  <2>4. CASE \E hidden \in BOOLEAN : Forward(p, hidden, fails)
    BY <2>1, <2>4, ForwardStep
  <2> QED
    BY <2>1, <2>2, <2>3, <2>4
<1>4. CASE \E k \in presses : HandlePress(k, fails)
  BY <1>4, HandlePressStep
<1> QED
  BY <1>1, <1>2, <1>3, <1>4 DEF Do

LEMMA StutterStep == ASSUME IInv, UNCHANGED vars PROVE IInv'
<1>1. UNCHANGED <<setting, now, posts, messages, spam, standing, approved,
                  learned, warnings, notes, presses, cleanups, removals, bans,
                  told>>
  BY DEF vars, actions
<1>2. now \in Nat /\ SettingOK' /\ Authors /\ PostsOK'
  BY <1>1, SettingTypes, SamePosts DEF IInv, SettingOK, PostsOK
<1>3. /\ SpamOK' /\ GroupOK' /\ NotesOK' /\ PressesOK' /\ BansOK'
      /\ WarningsOK' /\ IsFiniteSet(warnings') /\ CleanupsOK' /\ SpamRemembers'
      /\ RowsOK' /\ RowsRemember' /\ RemovalsOK'
  BY <1>1, <1>2, Kept
<1>4. NotesAreTrue'
  BY <1>1, StepLeavesNotesTrue DEF IInv
<1>5. WarnBansAreEarned'
  BY <1>1, <1>3, EarnedStep DEF IInv
<1> QED
  BY <1>2, <1>3, <1>4, <1>5 DEF IInv

(* Every update, every press and every step of a clean-up keeps all parts  *)
(* of the invariant, whatever fails in it.                                 *)
THEOREM Inductive == Spec => []IInv
<1>1. Init => IInv
  BY InitInv
<1>2. IInv /\ [Next]_vars => IInv'
  <2> SUFFICES ASSUME IInv, [Next]_vars PROVE IInv'
    OBVIOUS
  <2>1. CASE \E fails \in SUBSET setting.fails : Do(fails)
    BY <2>1, DoStep
  <2>2. CASE \E fails \in SUBSET setting.fails :
               \E c \in cleanups : Cleanup(c, fails)
    BY <2>2, CleanupStep
  <2>3. CASE \E n \in DOMAIN notes : \E b \in notes[n].buttons : Press(n, b)
    BY <2>3, PressStep
  <2>4. CASE Pause
    BY <2>4, PauseStep
  <2>5. CASE UNCHANGED vars
    BY <2>5, StutterStep
  <2> QED
    BY <2>1, <2>2, <2>3, <2>4, <2>5 DEF Next
<1> QED
  BY <1>1, <1>2, PTL DEF Spec

-----------------------------------------------------------------------------
(* What it says. *)

(* Every variable keeps its type, and presses and complaints are about     *)
(* notes that exist, although notes come and change between a press and    *)
(* its handling (Do, InlineCallbackHandler).                               *)
THEOREM TypeCorrect == Spec => []TypeOK
<1>1. IInv => TypeOK
  <2> SUFFICES ASSUME IInv PROVE TypeOK
    OBVIOUS
  <2>1. /\ setting \in Settings /\ now \in 0 .. MaxTime
        /\ posts \in SUBSET [id : 1 .. MaxTime, by : Members,
                             text : Texts \cup Users, at : 1 .. MaxTime]
        /\ messages \in SUBSET [text : Texts \cup Users, user : Members,
                                id : 1 .. MaxTime, named : BOOLEAN,
                                at : 1 .. MaxTime]
        /\ spam \in SUBSET [user : Members, at : 1 .. MaxTime]
    BY DEF IInv, SettingOK, PostsOK, RowsOK, SpamOK, Post, LocatorRow, Detection
  <2>2. /\ standing \in [Members -> {"free", "restricted", "banned"}]
        /\ approved \in SUBSET Members
        /\ learned \in [Texts -> {"nothing", "spam", "ham"}]
        /\ warnings \in SUBSET [user : Members, at : 0 .. MaxTime]
        /\ presses \in SUBSET [note : DOMAIN notes,
                               button : {"?", "!", "+", "unban"}]
        /\ told \in SUBSET DOMAIN notes
    BY DEF IInv, BansOK, GroupOK, WarningsOK, PressesOK, Buttons
  <2>3. \A n \in DOMAIN notes : notes[n] \in Note
    BY NoteTypes DEF IInv
  <2>4. /\ \A c \in cleanups : c.user \in Members /\ c.failures <= MaxFailures
        /\ \A r \in removals : r.user \in Members
        /\ \A b \in bans : b.user \in Members
    BY AdminActionsAssumption
       DEF IInv, CleanupsOK, RemovalsOK, BansOK, CleanupRun, BanRecord
  <2> QED
    BY <2>1, <2>2, <2>3, <2>4 DEF TypeOK, Note, Buttons
<1> QED
  BY <1>1, Inductive, PTL

(* Whoever is not free owes it to a ban the mode allows: a dry bot bans    *)
(* nobody, a training bot nobody without an admin, and a soft-ban bot puts *)
(* no person out of the group without one.                                 *)
THEOREM ModesFollowed == Spec => []BansFollowTheModes
<1>1. IInv => BansFollowTheModes
  <2> SUFFICES ASSUME IInv, NEW u \in Members, standing[u] # "free"
               PROVE  /\ ~On("dry")
                      /\ \/ On("training")
                         \/ On("soft") /\ u \in Users /\ standing[u] = "banned"
                         => \E b \in bans : b.user = u /\ b.site \notin OwnSites
    BY DEF BansFollowTheModes
  <2>1. PICK b \in bans : /\ b.user = u /\ b.kind = standing[u]
                          /\ BanAllowed(b)
    BY DEF IInv, BansOK
  <2>2. u \in Users => u \notin Channels
    BY AdminActionsAssumption
  <2> QED
    BY <2>1, <2>2 DEF BanAllowed, OwnSites
<1> QED
  BY <1>1, Inductive, PTL

(* Nothing is deleted on account of a member who did not post it: neither  *)
(* the rows of the locator nor the notes nor a running clean-up ever       *)
(* mistake the author of a message.                                        *)
THEOREM DeletionsTheirs == Spec => []DeletionsAreTheirs
<1>1. IInv => DeletionsAreTheirs
  BY DEF IInv, RemovalsOK, DeletionsAreTheirs, IsBy
<1> QED
  BY <1>1, Inductive, PTL

(* The clean-up of the locator at each new row never takes what is younger *)
(* than the history.                                                       *)
THEOREM Remembers == Spec => []LocatorRemembers
<1>1. IInv => LocatorRemembers
  BY DEF IInv, RowsRemember, SpamRemembers, LocatorRemembers
<1> QED
  BY <1>1, Inductive, PTL

(* The notes in the admin chat agree with what was done, whatever buttons  *)
(* are pressed late, twice or in any order, and whatever failed.           *)
THEOREM NotesTrue == Spec => []NotesAreTrue
<1>1. IInv => NotesAreTrue
  BY DEF IInv
<1> QED
  BY <1>1, Inductive, PTL

(* Warnings ban whom enough of them were about, within one window.         *)
THEOREM WarnBansEarned == Spec => []WarnBansAreEarned
<1>1. IInv => WarnBansAreEarned
  BY DEF IInv
<1> QED
  BY <1>1, Inductive, PTL

(* No site bans a super it can tell from others, and none bans the group.  *)
THEOREM SupersSpared == Spec => []SupersAreSpared
<1>1. IInv => SupersAreSpared
  <2> SUFFICES ASSUME IInv PROVE SupersAreSpared
    OBVIOUS
  <2>1. Group \in Members
    BY DEF Members
  <2>2. GroupIsNotBanned
    BY <2>1 DEF IInv, BansOK, BanAllowed, GroupIsNotBanned
  <2>3. \A b \in bans : b.user \in Supers =>
          \/ b.site \in {"command", "warn"} /\ b.user \notin Named
          \/ b.site = "confirm" /\ On("training")
    BY DEF IInv, BansOK, BanAllowed
  <2> QED
    BY <2>2, <2>3 DEF SupersAreSpared
<1> QED
  BY <1>1, Inductive, PTL

=============================================================================
