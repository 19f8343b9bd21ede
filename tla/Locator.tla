------------------------------ MODULE Locator ------------------------------
(***************************************************************************)
(* The locator of one group (app/storage/locator.go): a table that tells   *)
(* who posted a text last and as which message, so that a text forwarded   *)
(* to the admin chat finds its author, and a table with the detections.    *)
(* Both are keyed without the message: a text, whoever posts it, has one   *)
(* row, and so has a member.  Rows past their time go when the table is    *)
(* larger than its minimal size.                                           *)
(***************************************************************************)
EXTENDS Integers, FiniteSets, FiniteSetsExt

CONSTANTS
  TTL,      \* the age at which a row may be dropped (--history-duration)
  MinSize   \* the rows that stay whatever their age (--history-min-size)

ASSUME LocatorAssumption == TTL \in Nat /\ MinSize \in Nat

VARIABLES
  messages,   \* the rows [text, user, id, named, at], one per text
  spam        \* the rows [user, at], one per member

(* Mutant: rows are dropped whenever the table is larger than MinSize. *)
CleanedOfAll(table, now) ==
  IF Cardinality(table) > MinSize
  THEN {r \in table : r.at >= now}
  ELSE table

(* cleanupMessages, cleanupSpam: the rows in excess of MinSize are only    *)
(* what triggers it, all expired ones go.                                  *)
Cleaned(table, now) ==
  IF Cardinality(table) > MinSize
  THEN {r \in table : r.at >= now - TTL}
  ELSE table

(* Mutant: a text that is there already keeps the id of its message. *)
AddMessageKeepingId(text, user, id, named, now, fails) ==
  LET old == {r \in messages : r.text = text}
  IN messages' =
       Cleaned((messages \ old) \cup
               {[text |-> text, user |-> user, named |-> named, at |-> now,
                 id |-> IF old = {} THEN id
                        ELSE (CHOOSE r \in old : TRUE).id]}, now)

(* AddMessage: the row of the text is made over to its latest sender.      *)
(* "named" tells whether the sender's username came along.                 *)
AddMessage(text, user, id, named, now, fails) ==
  IF "locate" \in fails
  THEN messages' = messages
  ELSE messages' =
         Cleaned({r \in messages : r.text # text} \cup
                 {[text |-> text, user |-> user, named |-> named, at |-> now,
                   id |-> id]}, now)

AddSpam(user, now, fails) ==
  IF "locate" \in fails
  THEN spam' = spam
  ELSE spam' = Cleaned({r \in spam : r.user # user} \cup
                       {[user |-> user, at |-> now]}, now)

(* Message: the row of the text, if there is one. *)
Message(text) == {r \in messages : r.text = text}

(* UserNameByID: the name in some row of the member ("LIMIT 1" with no     *)
(* order); FALSE stands for the empty name, also that of no row at all.    *)
UserNameByID(user) ==
  LET names == {r.named : r \in {s \in messages : s.user = user}}
  IN IF names = {} THEN {FALSE} ELSE names

(* GetUserMessageIDs: the newest rows of the member, at most limit.        *)
GetUserMessageIDs(user, limit) ==
  LET own == {r \in messages : r.user = user}
  IN {r.id : r \in {s \in own :
        Cardinality({t \in own : t.at > s.at}) < limit}}

(* CountUserMessages *)
CountUserMessages(user) == Quantify(messages, LAMBDA r : r.user = user)

=============================================================================
