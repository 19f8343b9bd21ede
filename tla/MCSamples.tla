----------------------------- MODULE MCSamples -----------------------------
(* Samples for texts of one or two words: promo and news come with the     *)
(* bot, offer shares a word with each.                                     *)
EXTENDS Samples, TLC

CONSTANTS promo, news, offer, buy, now

MCMessages == {promo, news, offer}
MCAsked == {promo, offer}
MCTokens == {buy, now}
MCHas == [m \in Messages |->
            IF m = promo THEN {buy} ELSE IF m = news THEN {now} ELSE {buy, now}]
MCPresets == [m \in {promo, news} |-> IF m = promo THEN "spam" ELSE "ham"]
MCSymmetry == Permutations(Jobs)

=============================================================================
