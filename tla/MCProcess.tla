----------------------------- MODULE MCProcess -----------------------------
(***************************************************************************)
(* TLC instances of Process.                                               *)
(***************************************************************************)
EXTENDS Process

CONSTANTS ann, bob, k1, r1, r2, ref1, ref2

Body(user, from, to, amount, key) ==
    [user |-> user, fromAccount |-> from, toAccount |-> to,
     amount |-> amount, key |-> key]

OpenTwo == {[account |-> 1, user |-> ann, initial |-> 2000],
            [account |-> 2, user |-> bob, initial |-> 1000]}

\* Retries of a keyed transfer, and one without a key.
TwoWays == {Body(ann, 1, 2, 1000, k1), Body(bob, 2, 1, 1000, NoKey)}
=============================================================================
