----------------------------- MODULE MCDownload -----------------------------
(***************************************************************************)
(* Download for TLC: f is a file, fOld and fOldOld what it may be renamed  *)
(* to; content a is cut into three pieces, b and c are one piece each, so  *)
(* that one may take the other's place in a Push.                          *)
(***************************************************************************)
EXTENDS Download, TLC

CONSTANTS f, fOld, fOldOld, a, b, c

MCOrder == <<f, fOld>>
MCOld == (f :> fOld) @@ (fOld :> fOldOld)
MCSize == (a :> 3) @@ (b :> 1) @@ (c :> 1)

=============================================================================
