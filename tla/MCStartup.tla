------------------------------ MODULE MCStartup ------------------------------
(* Startup with two samples and two phrases: presets, a preset that is     *)
(* also a ham sample of users, lists of phrases that share one, and a file *)
(* that cannot be read; over an empty database, or one that an older       *)
(* version left.                                                           *)
EXTENDS Startup, TLC

CONSTANTS promo, news, free, bonus

MCSamples == {promo, news}
MCPhrases == {free, bonus}

MCEmpty == [t \in MCSamples \cup MCPhrases |-> Nowhere]

MCTables == {MCEmpty, [MCEmpty EXCEPT ![promo] = 1, ![news] = 2]}

MCDeliveries ==
  { [place |-> 1, lines |-> {promo}],
    [place |-> 1, lines |-> Bad],
    [place |-> 2, lines |-> {news}],
    [place |-> 4, lines |-> {promo}],
    [place |-> 5, lines |-> {free, bonus}],
    [place |-> 6, lines |-> {free}] }

MCSymmetry == Permutations(Jobs)

=============================================================================
