----------------------------- MODULE MCDetector -----------------------------
(* Detector for up to three members and two long and two short texts.      *)
EXTENDS Detector, TLC

NoModels == [p \in {} |-> {}]

(* Nothing is switched on; --paranoid. *)
Base == [duplicates |-> 0, reactions |-> 0, flood |-> 0, first |-> 0,
         llms |-> NoModels, consensus |-> "any",
         updates |-> {"message"}, users |-> {"ann"}, texts |-> {"hello"},
         until |-> MaxTime, fails |-> {}]

(* Repeated and edited messages, as time passes. *)
MCRepeats ==
  {[Base EXCEPT !.duplicates = n, !.texts = {"hello", "offer"},
                !.updates = {"message", "edit", "pause"}, !.until = 5] :
     n \in {2, 3}}

(* More members than the cache holds; requests to check, and restarts. *)
MCCrowd ==
  {[Base EXCEPT !.duplicates = 2, !.users = Users, !.until = 6],
   [Base EXCEPT !.duplicates = 2, !.users = {"ann", "bob"}, !.until = 5,
                !.updates = {"message", "check", "restart", "pause"}]}

(* Floods of short messages. *)
MCFloods ==
  {[Base EXCEPT !.flood = 2, !.first = first, !.users = {"ann", "bob"},
                !.texts = {"hello", "hi", "yo"}, !.until = 4,
                !.updates = {"message", "edit", "restart"}] : first \in {1, 2}}
  \cup {[Base EXCEPT !.flood = 2, !.first = 2, !.texts = {"hi", "yo"},
                     !.fails = Faults]}

(* Every way to set up one language model or two. *)
MCModels ==
  {[Base EXCEPT !.first = 1, !.llms = llms, !.consensus = consensus,
                !.texts = {"hello", "hi"}, !.until = 2] :
     llms \in [{"openai"} -> SUBSET Flags]
               \cup [{"openai", "gemini"} -> SUBSET Flags],
     consensus \in {"any", "all"}}

(* A model that looks at repeated messages. *)
MCVetoed ==
  {[Base EXCEPT !.first = 2, !.llms = ("openai" :> {"veto"}),
                !.duplicates = 2, !.texts = {"hello", "offer"}, !.until = 4]}

MCReactions ==
  {[Base EXCEPT !.reactions = n, !.updates = {"reaction", "pause"},
                !.users = users] :
     n \in {2, 3}, users \in {{"ann", "bob"}}}
  \cup {[Base EXCEPT !.reactions = 2, !.updates = {"reaction", "restart"},
                     !.users = Users, !.until = 6]}

MCSettings == MCRepeats \cup MCCrowd \cup MCFloods \cup MCModels
                \cup MCVetoed \cup MCReactions

=============================================================================
