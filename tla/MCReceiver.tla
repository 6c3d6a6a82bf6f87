----------------------------- MODULE MCReceiver -----------------------------
(***************************************************************************)
(* Instances of UploadHistory for TLC.  f is a file, fOld and fOldOld what *)
(* an initial session renames it to; content a is cut into two pieces, b   *)
(* is one piece; c1 and c2 are client machines.                            *)
(***************************************************************************)
EXTENDS UploadHistory, ReceiverClaims, ReceiverCatalog, TLC

CONSTANTS f, fOld, fOldOld, a, b, c1, c2, u1, u2, p1, p2

MCOld == (f :> fOld) @@ (fOld :> fOldOld)
MCOld1 == f :> fOld
MCSize == (a :> 2) @@ (b :> 1)

\* Each machine belongs to a user of its own, or both to u1.
TwoUsers == (c1 :> u1) @@ (c2 :> u2)
OneUser == (c1 :> u1) @@ (c2 :> u1)
OneMachine == c1 :> u1

=============================================================================
