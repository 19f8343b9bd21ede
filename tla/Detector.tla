------------------------------ MODULE Detector ------------------------------
(***************************************************************************)
(* Detector.Check and RecordReaction (lib/tgspam/detector.go) for one      *)
(* chat, with the memory of its duplicate and reaction detectors, the      *)
(* locator that counts a member's messages for the flood check, and the    *)
(* language models that may overrule the plain checks.                     *)
(*                                                                         *)
(* What the stateless checks say of a message (stop words, emojis, meta,   *)
(* Lua, CAS, languages, spacing: "found"; similarity and the classifier,   *)
(* which look at long messages only: "similar") is an input, and so is     *)
(* every answer of a language model.  The listener stores a message in the *)
(* locator before it checks it.  What it does about the verdict is in the  *)
(* module Listener: here members go on posting, as they can in dry and     *)
(* training mode.  The histories of messages only go into the prompts of   *)
(* the language models, and are left out.                                  *)
(***************************************************************************)
EXTENDS Duplicates

CONSTANTS
  Texts,        \* the texts of messages
  Short,        \* those shorter than --min-msg-len
  Providers,    \* the language models: openai and gemini
  Retries,      \* attempts at a request to one of them
  TTL, MinSize, \* of the locator
  Settings,     \* records, see below
  MaxTime       \* bound on the clock, and so on the messages

(* "llms" gives for each provider in use the set of its flags.             *)
Flags == {"veto", "short"}

Faults == {"locate", "count"}

ASSUME DetectorAssumption ==
  /\ Short \subseteq Texts /\ Users \cap Texts = {}
  /\ Retries \in Nat \ {0} /\ {MaxTime, TTL, MinSize} \subseteq Nat
  /\ \A s \in Settings :
       /\ {s.duplicates, s.reactions, s.flood, s.first, s.until}
            \subseteq Nat
       /\ DOMAIN s.llms \subseteq Providers
       /\ \A p \in DOMAIN s.llms : s.llms[p] \subseteq Flags
       /\ s.consensus \in {"any", "all"}
       /\ s.updates \subseteq {"message", "edit", "check", "reaction",
                               "pause", "restart"}
       /\ s.users \subseteq Users
       /\ s.texts \subseteq Texts /\ s.fails \subseteq Faults
       /\ s.until <= MaxTime

VARIABLES
  setting,        \* how the detector was configured, and what happens to it
  now,            \* the clock; a message has the instant it came as its id
  messages,       \* the locator's rows
  approvedUsers,  \* the good messages of each member
  chat,           \* history: the messages as they are now
  reacted,        \* history: the reactions
  last            \* history: the last verdict, and what led to it

locator == INSTANCE Locator WITH spam <- {}

vars == <<setting, now, messages, approvedUsers, chat, reacted, last,
          history, cached, reactions>>

memory == <<approvedUsers, history, cached>>

(* NewDetectorWithModel: FirstMessageOnly goes with FirstMessagesCount. *)
FirstMessageOnly == setting.first > 0

NoVerdict == [user |-> "nobody", text |-> "nothing", id |-> 0, spam |-> FALSE,
              why |-> "nothing", base |-> FALSE, answers |-> << >>,
              extra |-> {}]

Init ==
  /\ setting \in Settings
  /\ now = 0
  /\ messages = {}
  /\ approvedUsers = [u \in Users |-> 0]
  /\ chat = {} /\ reacted = {} /\ last = NoVerdict
  /\ history = [u \in Users |-> {}] /\ cached = {} /\ reactions = {}

-----------------------------------------------------------------------------
(* The language models. *)

(* runLLMProviderCheck: attempts until one succeeds or the time is over.   *)
Answer(attempts) ==
  LET over == {i \in DOMAIN attempts : attempts[i] # "error"}
      first == CHOOSE i \in over : \A j \in over : i <= j
  IN IF over = {} \/ attempts[first] = "timeout" THEN "error"
     ELSE attempts[first]

(* shouldApplyLLMCheck *)
ShouldApply(provider, base, short) ==
  IF short THEN "short" \in setting.llms[provider]
  ELSE base <=> "veto" \in setting.llms[provider]

Asked(base, short) ==
  {p \in DOMAIN setting.llms : FirstMessageOnly /\ ShouldApply(p, base, short)}

(* Mutant: no answer counts as "not spam". *)
FlipOnError(answer, base) == IF base THEN answer # "spam" ELSE answer = "spam"

(* collectLLMCheck *)
Flip(answer, base) == IF base THEN answer = "ham" ELSE answer = "spam"

(* applyLLMConsensus *)
ApplyConsensus(base, answers) ==
  LET flips == {p \in DOMAIN answers : Flip(answers[p], base)}
      overruled == IF setting.consensus = "all"
                   THEN DOMAIN answers # {} /\ flips = DOMAIN answers
                   ELSE flips # {}
  IN base # overruled

-----------------------------------------------------------------------------
(* Mutant: the message at hand does not count. *)
IsFloodLater(rows, u, text, checkOnly, fails) ==
  /\ setting.flood > 0 /\ FirstMessageOnly
  /\ ~checkOnly /\ text \in Short
  /\ approvedUsers[u] < setting.first
  /\ "count" \notin fails
  /\ Cardinality({r \in rows : r.user = u}) - approvedUsers[u]
       > setting.flood

(* isShortMsgFlood: all rows of a member are messages that did not count,  *)
(* but for as many as did.  rows: the locator's, with the message in.      *)
IsFlood(rows, u, text, checkOnly, fails) ==
  /\ setting.flood > 0 /\ FirstMessageOnly
  /\ ~checkOnly /\ text \in Short
  /\ approvedUsers[u] < setting.first
  /\ "count" \notin fails
  /\ Cardinality({r \in rows : r.user = u}) - approvedUsers[u]
       >= setting.flood

(* UserMessageIDs *)
FloodIDs(rows, u, id) ==
  LET own == {r \in rows : r.user = u}
  IN {r.id : r \in {s \in own : Cardinality({t \in own : t.at > s.at})
                                  < 2 * setting.flood}} \ {id}

Verdict(u, text, id, spam, why, base, answers, extra) ==
  last' = [user |-> u, text |-> text, id |-> id, spam |-> spam, why |-> why,
           base |-> base, answers |-> answers, extra |-> extra]

(* The member passes: it comes closer to being approved, unless the        *)
(* message was short or only a request to check.                           *)
Pass(u, text, checkOnly) ==
  approvedUsers' =
    IF FirstMessageOnly /\ ~checkOnly /\ text \notin Short
    THEN [approvedUsers EXCEPT ![u] = @ + 1] ELSE approvedUsers

(* The part of Check after the duplicate check: pre-approved members pass, *)
(* a flood is spam whatever the rest says, a short message ends here       *)
(* unless a language model looks at short ones, and the others are judged  *)
(* with the consensus of those asked.                                      *)
Judge(u, text, id, checkOnly, duplicate, found, similar, rows, fails) ==
  LET short == text \in Short
      early == short /\ (duplicate \/ found \/ Asked(FALSE, TRUE) = {})
      base == duplicate \/ found \/ (~short /\ similar)
      extra == IF duplicate THEN ExtraIDs(u, text, id, now') ELSE {}
  IN CASE FirstMessageOnly /\ ~duplicate
            /\ approvedUsers[u] >= setting.first ->
            /\ Verdict(u, text, id, FALSE, "pre-approved", FALSE, << >>, {})
            /\ UNCHANGED approvedUsers
       [] OTHER ->
            IF IsFlood(rows, u, text, checkOnly, fails)
            THEN /\ Verdict(u, text, id, TRUE, "flood", duplicate, << >>,
                            extra \cup FloodIDs(rows, u, id))
                 /\ UNCHANGED approvedUsers
            ELSE IF early
            THEN /\ Verdict(u, text, id, base, "early", base, << >>, extra)
                 /\ UNCHANGED approvedUsers
            ELSE \E attempts \in [Asked(base, short) ->
                                   [1 .. Retries -> {"spam", "ham", "error",
                                                     "timeout"}]] :
                   LET answers == [p \in DOMAIN attempts |->
                                     Answer(attempts[p])]
                       spam == ApplyConsensus(base, answers)
                   IN /\ Verdict(u, text, id, spam, "checks", base, answers,
                                 extra)
                      /\ IF spam THEN UNCHANGED approvedUsers
                         ELSE Pass(u, text, checkOnly)

(* Check.  A detector without duplicate detection remembers nothing.       *)
Check(u, text, id, checkOnly, rows, fails) ==
  /\ IF setting.duplicates = 0 THEN UNCHANGED <<history, cached>>
     ELSE \E tidy \in BOOLEAN : TrackMessage(u, text, id, now', tidy)
  /\ \E found \in BOOLEAN, similar \in BOOLEAN :
       Judge(u, text, id, checkOnly,
             IsDuplicate(setting.duplicates, u, text, id, now'),
             found, similar, rows, fails)

-----------------------------------------------------------------------------
Update(kind) ==
  /\ kind \in setting.updates
  /\ now < setting.until
  /\ now' = now + 1
  /\ setting' = setting

(* procEvents: the locator first. *)
Process(u, text, id, fails) ==
  /\ locator!AddMessage(text, u, id, TRUE, now', fails)
  /\ Check(u, text, id, FALSE, messages', fails)
  /\ UNCHANGED <<reacted, reactions>>

NewMessage(u, text, fails) ==
  /\ Update("message")
  /\ Process(u, text, now', fails)
  /\ chat' = chat \cup {[id |-> now', user |-> u, text |-> text, at |-> now',
                         touched |-> now', had |-> {text}, passed |-> ~last'.spam]}

(* Telegram also reports edits that leave the text alone. *)
EditedMessage(p, text, fails) ==
  /\ Update("edit")
  /\ Process(p.user, text, p.id, fails)
  /\ LET at == IF text = p.text THEN p.at ELSE now'
     IN chat' = (chat \ {p}) \cup {[p EXCEPT !.text = text, !.at = at,
                                             !.touched = now',
                                             !.had = @ \cup {text},
                                             !.passed = ~last'.spam]}

(* The web UI asks about a text in the name of a member. *)
CheckRequest(u, text) ==
  /\ Update("check")
  /\ Check(u, text, 0, TRUE, messages, {})
  /\ UNCHANGED <<messages, reactions, chat, reacted>>

(* RecordReaction, for a member the listener has not found approved. *)
Reaction(u) ==
  /\ Update("reaction")
  /\ setting.reactions > 0
  /\ RecordReaction(u, now')
  /\ reacted' = reacted \cup
       {[user |-> u, at |-> now', first |-> Counted(u, now').first,
         spam |-> Counted(u, now').count >= setting.reactions]}
  /\ UNCHANGED <<messages, chat, last, memory>>

Pause ==
  /\ Update("pause")
  /\ UNCHANGED <<messages, reactions, chat, reacted, last, memory>>

(* The bot starts again: a new detector, with the members that have a row  *)
(* in the table of approved users approved.                                *)
Restart ==
  /\ Update("restart")
  /\ approvedUsers' = [u \in Users |-> IF approvedUsers[u] = 0 THEN 0
                                       ELSE setting.first + 1]
  /\ reactions' = {}
  /\ history' = [u \in Users |-> {}] /\ cached' = {}
  /\ UNCHANGED <<messages, chat, reacted, last>>

Next ==
  \/ \E u \in setting.users, text \in setting.texts, fails \in SUBSET setting.fails :
       \/ NewMessage(u, text, fails)
       \/ \E p \in chat : p.user = u /\ EditedMessage(p, text, fails)
       \/ fails = {} /\ CheckRequest(u, text)
  \/ \E u \in setting.users : Reaction(u)
  \/ Pause
  \/ Restart

Spec == Init /\ [][Next]_vars

-----------------------------------------------------------------------------
(* Every variable has its type; the caches stay within their limits.       *)
TypeOK ==
  /\ setting \in Settings /\ now \in 0 .. MaxTime
  /\ messages \in SUBSET [text : Texts, user : Users, named : BOOLEAN,
                          at : 1 .. MaxTime, id : 1 .. MaxTime]
  /\ approvedUsers \in [Users -> Nat]
  /\ chat \in SUBSET [id : 1 .. MaxTime, user : Users, text : Texts,
                      at : 1 .. MaxTime, touched : 1 .. MaxTime,
                      had : SUBSET Texts, passed : BOOLEAN]
  /\ history \in [Users -> SUBSET [text : Texts, id : 0 .. MaxTime,
                                   at : 1 .. MaxTime]]
  /\ cached \in SUBSET [user : Users, at : 1 .. MaxTime]
  /\ reactions \in SUBSET [user : Users, count : 1 .. MaxTime,
                           first : 1 .. MaxTime, at : 1 .. MaxTime]
  /\ \A u \in Users : /\ Cardinality(history[u]) <= MaxEntries
                      /\ history[u] # {} => \E c \in cached : c.user = u
  /\ Cardinality(cached) <= MaxUsers /\ Cardinality(reactions) <= MaxUsers

(* A message counts once, under the text it has now, and for the window:   *)
(* an edit takes it away from the text it had.                             *)
DuplicatesAreCurrent ==
  \A u \in Users :
    LET sent == {e \in history[u] : e.id > 0}
    IN /\ \A e \in sent : \E p \in chat :
            p.user = u /\ p.id = e.id /\ p.text = e.text
       /\ \A e, d \in sent : e.id = d.id => e = d

(* The messages of a member that got a new text within the window are      *)
(* remembered, newest first if they are too many, and unless more other    *)
(* members than the cache holds have posted since or the bot restarted.    *)
DuplicatesAreRemembered ==
  setting.duplicates > 0 /\ setting.updates \cap {"restart", "check"} = {} =>
    \A p \in chat :
      LET later == {q \in chat : q.touched > p.at}
          own == {q \in later : q.user = p.user} \ {p}
          others == {q.user : q \in later} \ {p.user}
      IN /\ p.at > now - DuplicateWindow
         /\ Cardinality(own) < MaxEntries /\ Cardinality(others) < MaxUsers
         => \E e \in history[p.user] : e.id = p.id

(* So the window is exact: it has the messages of now, and misses none.    *)
DuplicatesAreExact == DuplicatesAreCurrent /\ DuplicatesAreRemembered

(* What a verdict wants deleted with the message are other messages, by    *)
(* the same member, and repeats of it as they are now, or those of a flood *)
(* that the locator still finds.                                           *)
ExtrasAreRepeats ==
  last.id > 0 => \A id \in last.extra :
    /\ id # last.id
    /\ \E p \in chat : /\ p.id = id /\ p.user = last.user
                       /\ p.text = last.text \/ last.why = "flood"

(* A member none of whose messages has counted does not get MaxShort short *)
(* messages through, of texts nobody else posted, within the time that the *)
(* locator keeps them, whatever it edits and however often the bot starts  *)
(* again.                                                                  *)
FloodIsStopped ==
  setting.flood > 0 /\ FirstMessageOnly /\ setting.fails = {} =>
    \A u \in Users :
      approvedUsers[u] = 0 =>
        Cardinality({p.text : p \in {q \in chat :
           /\ q.user = u /\ q.passed /\ q.text \in Short
           /\ q.touched >= now - TTL
           /\ \A r \in chat : q.text \in r.had => r.user = u}})
          < setting.flood

(* The language models overrule the plain checks only by the consensus     *)
(* configured, of those the settings let have a say, and an outage leaves  *)
(* the verdict alone; a short message is never cleared by them.            *)
OverruledByConsensus ==
  last.why = "checks" /\ last.spam # last.base =>
    LET said == IF last.base THEN "ham" ELSE "spam"
        agree == {p \in DOMAIN last.answers : last.answers[p] = said}
    IN /\ agree # {}
       /\ setting.consensus = "all" => agree = DOMAIN last.answers
       /\ \A p \in agree : IF last.text \in Short
                           THEN "short" \in setting.llms[p] /\ last.spam
                           ELSE ("veto" \in setting.llms[p]) = last.base

(* A member is stopped for its reactions only if so many came within the   *)
(* window, and any burst of nearly twice as many is noticed, although the  *)
(* counting starts anew when a window is over.                             *)
ReactionsOf(u, from, to) ==
  {r \in reacted : r.user = u /\ r.at \in from .. to}

BurstsAreNoticed ==
  /\ \A r \in reacted : r.spam =>
       Cardinality(ReactionsOf(r.user, r.at - ReactionWindow, r.at))
         >= setting.reactions
  /\ "restart" \notin setting.updates /\ Cardinality(setting.users) <= MaxUsers =>
       \A r \in reacted :
         LET burst == ReactionsOf(r.user, r.at - ReactionWindow, r.at)
         IN Cardinality(burst) >= 2 * setting.reactions - 1 =>
              \E s \in burst : s.spam

=============================================================================
