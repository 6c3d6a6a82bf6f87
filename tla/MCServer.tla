------------------------------ MODULE MCServer ------------------------------
(***************************************************************************)
(* Instances of SyncServer for TLC: see MCReceiver for the names.          *)
(***************************************************************************)
EXTENDS SyncServer, TLC

CONSTANTS f, fOld, a, b, c1, c2, u1, u2, p1, s1

MCOld == f :> fOld
MCSize == (a :> 2) @@ (b :> 1)
TwoUsers == (c1 :> u1) @@ (c2 :> u2)

=============================================================================
