----------------------------- MODULE MCTransfer -----------------------------
(***************************************************************************)
(* TLC instances of Transfer.                                              *)
(***************************************************************************)
EXTENDS TransferProperties, TLC

CONSTANTS ann, bob, k1, r1, r2, r3, ref1, ref2

Body(user, from, to, amount, key) ==
    [user |-> user, fromAccount |-> from, toAccount |-> to,
     amount |-> amount, key |-> key]
Open(number, user, initial) ==
    [account |-> number, user |-> user, initial |-> initial]

\* Retries are told apart by nothing but their name.
Symmetry == Permutations(Requests)

OpenTwo == {Open(1, ann, 3000), Open(2, bob, 1000)}

\* Retries of one keyed body, and a transfer the other way.
RetryDtos == {Body(ann, 1, 2, 1000, k1), Body(bob, 2, 1, 1000, NoKey)}

\* The key again with another payload, a debit of somebody else's account, a
\* transfer to itself, and amounts @IsNumber lets through and the columns do
\* not hold.
MixedDtos == {Body(ann, 1, 2, 2000, k1), Body(ann, 1, 2, 1005, k1),
              Body(ann, 2, 1, 1000, NoKey), Body(ann, 1, 1, 1000, NoKey),
              Body(bob, 2, 1, 1994, NoKey)}

-----------------------------------------------------------------------------
\* A request that was answered with an error moved no money.
FailedMovesNoMoney ==
    \A r \in Requests : reply[r] = "failed" => \A t \in transactions : t.by # r
=============================================================================
