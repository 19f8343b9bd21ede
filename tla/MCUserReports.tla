--------------------------- MODULE MCUserReports ---------------------------
(* UserReports in a small group: mallory writes, all report. *)
EXTENDS UserReports, TLC

CONSTANTS mallory, alice, bob, carol, m1, m2

MCUsers == {mallory, alice, bob, carol}
MCReporters == Users \ {mallory}
MCAuthor == [m \in Messages |-> mallory]

(* One message and most calls failing; two, with calls failing whose       *)
(* failure the handlers only log.                                          *)
MCFaults == [about |-> {m1},
             fails |-> {"read", "delete", "deleteOne", "record", "ban", "send"},
             until |-> 3]
MCCrossed == [about |-> {m1, m2}, fails |-> {"record", "cleanup"}, until |-> 4]
MCSettings == {MCFaults, MCCrossed}

(* The reporters that wrote nothing may be exchanged. *)
MCSymmetry == Permutations({alice, bob, carol})

=============================================================================
