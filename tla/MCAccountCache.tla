--------------------------- MODULE MCAccountCache ---------------------------
(***************************************************************************)
(* TLC instances of AccountCache.                                          *)
(***************************************************************************)
EXTENDS AccountCache, TLC

CONSTANTS ann, bob, k1, r1, r2, ref1, ref2, g1

Body(user, from, to, amount, key) ==
    [user |-> user, fromAccount |-> from, toAccount |-> to,
     amount |-> amount, key |-> key]

OpenTwo == {[account |-> 1, user |-> ann, initial |-> 2000],
            [account |-> 2, user |-> bob, initial |-> 1000]}

OneWay == {Body(ann, 1, 2, 1000, NoKey)}

Symmetry == Permutations(Requests) \cup Permutations(Readers)
=============================================================================
