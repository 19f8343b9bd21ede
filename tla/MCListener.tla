----------------------------- MODULE MCListener -----------------------------
(* Listener for one person, one super, one channel and two texts.          *)
EXTENDS Listener

Setting(options, updates, who, texts, until, fails) ==
  [options |-> options, updates |-> updates, who |-> who, texts |-> texts,
   until |-> until, fails |-> fails]

(* The modes alone, in the combinations that differ. *)
MCModes == {{}, {"dry"}, {"training"}, {"soft"}, {"training", "soft"}}

(* Notes and their buttons, under every mode, with calls failing. *)
MCNotes ==
  {Setting(mode, {"message", "join", "press"}, {"ann", "sue"}, {"offer"}, 2,
           {"ban", "learn"}) : mode \in MCModes}

(* What admins do by themselves. *)
MCCommands ==
  {Setting(mode \cup {"cleanup"},
           {"message", "spam", "ban", "forward"},
           {"ann", "news", "group"}, {"offer"}, 4, {"erase"}) :
     mode \in MCModes}

(* The clean-up beside messages that still come, with failing deletions. *)
MCCleanup ==
  {Setting({"cleanup"}, {"message", "ban"}, {"ann", "news"},
           {"offer", "hello"}, 4, {"erase"})}

(* Commands and forwards, with texts repeated and edited. *)
MCForwards ==
  {Setting(mode, {"message", "edit", "ban", "forward"},
           {"ann", "news", "group"}, {"offer", "hello"}, 3, {}) :
     mode \in MCModes}

(* Warnings and reactions. *)
MCWarnings ==
  {Setting(mode, {"message", "warn", "reaction", "pause"},
           {"ann", "news"}, {"offer"}, 5, {}) : mode \in MCModes}

(* Commands about posts of the group's own admins. *)
MCGroupPosts ==
  {Setting({}, {"message", "warn", "spam", "forward"}, {"group"}, {"offer"},
           4, {"warn"})}

(* Everything that may ban a super. *)
MCSupers ==
  {Setting(mode, {"message", "warn", "ban", "forward", "reaction"},
           {"sue", "ann"}, {"offer"}, 3, {}) : mode \in {{}, {"training"}}}

(* What is remembered, and for how long. *)
MCLocator ==
  {Setting(options, {"message", "edit", "join", "kick", "pause"},
           {"ann", "news"}, {"offer", "hello"}, 4, {}) :
     options \in {{"suppressJoins"}, {"deleteJoins"}}}

MCSettings ==
  MCNotes \cup MCCommands \cup MCCleanup \cup MCForwards \cup MCWarnings
    \cup MCGroupPosts \cup MCSupers \cup MCLocator

=============================================================================
