--------------------------- MODULE MCConfigStore ---------------------------
(* Instances of ConfigStore. *)
EXTENDS ConfigStore

CommandLine ==
  [confdb |-> TRUE, instance |-> "tg-spam", key |-> NoKey,
   passwd |-> AutoPassword, hash |-> 0, token |-> 0, limit |-> 1,
   cas |-> "api", listen |-> "default", dry |-> FALSE, valid |-> TRUE]

MCOptions ==
  { [CommandLine EXCEPT !.confdb = FALSE, !.token = 1, !.key = "second"],
    [CommandLine EXCEPT !.confdb = FALSE, !.passwd = 0, !.limit = 0,
                        !.cas = "", !.listen = "other"],
    CommandLine,
    [CommandLine EXCEPT !.key = "second", !.token = 2],
    [CommandLine EXCEPT !.hash = 2, !.passwd = 1, !.dry = TRUE],
    [CommandLine EXCEPT !.instance = "mine", !.key = "first", !.passwd = 0,
                        !.listen = "other"] }

MCForms ==
  { [limit |-> 0, cas |-> FALSE, dry |-> FALSE, valid |-> TRUE],
    [limit |-> Missing, cas |-> TRUE, dry |-> TRUE, valid |-> FALSE] }

(* A partial blob for each instance. *)
MCPartialBlobs ==
  [to : Instances, settings : {[Unset EXCEPT !.token = Plain(1)]}]

(* And one with a hash encrypted with another key beside a plain token. *)
MCBlobs == MCPartialBlobs \cup
  [to : {"tg-spam"},
   settings : { [Defaults EXCEPT !.hash = [value |-> 2, key |-> "first"],
                                 !.token = Plain(1)] }]

=============================================================================
