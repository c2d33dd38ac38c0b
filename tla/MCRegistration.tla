--------------------------- MODULE MCRegistration ---------------------------
(***************************************************************************)
(* TLC instances of Registration.                                          *)
(***************************************************************************)
EXTENDS Registration, TLC

CONSTANTS c1, c2, c3, p1

InLowerCase == ("Ada@bank" :> "ada@bank") @@ ("ada@bank" :> "ada@bank")
               @@ ("phoebe@phone" :> "phoebe@phone")

Symmetry == Permutations(Calls)
=============================================================================
