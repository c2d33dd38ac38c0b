----------------------------- MODULE MCSessions -----------------------------
(***************************************************************************)
(* TLC instances of Sessions.                                              *)
(***************************************************************************)
EXTENDS Sessions, TLC

CONSTANTS ann, bob, c1, c2, c3, c4

OneOfEach  == c1 :> "login" @@ c2 :> "refresh" @@ c3 :> "logout"
LoginTwice == c4 :> "login" @@ OneOfEach
=============================================================================
