-------------------------- MODULE MCApprovedUsers --------------------------
(* ApprovedUsers for two members who may be exchanged. *)
EXTENDS ApprovedUsers, TLC

CONSTANTS ann, ben

MCUsers == {ann, ben}
MCSymmetry == Permutations(MCUsers)

=============================================================================
