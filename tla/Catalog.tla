------------------------------ MODULE Catalog ------------------------------
(***************************************************************************)
(* What the upload tunnels, taken together, promise the download tunnels:  *)
(* the contents the store has, the files offered for download, and the     *)
(* journal.  No process, row in progress or store file appears here.       *)
(*                                                                         *)
(* The store never gives up a content.  A file is offered, and entered in  *)
(* the journal, only with a content the store has by then.  An offered     *)
(* file is never replaced in place: it is renamed or withdrawn first, so   *)
(* that a download in progress does not change under its name.             *)
(***************************************************************************)
EXTENDS Sequences

CONSTANTS Users, Names, Contents

VARIABLES
    published,    \* the contents the store has
    offers,       \* the files offered for download
    log           \* the journal

catalogVars == <<published, offers, log>>

File == [uid: Users, name: Names, md5: Contents]

CatalogInit == published = {} /\ offers = {} /\ log = <<>>

Publish ==
    /\ \E m \in Contents : published' = published \cup {m}
    /\ UNCHANGED <<offers, log>>

\* Files of one content appear, at names that offered none.
Offer ==
    /\ \E m \in published : \E new \in SUBSET [uid: Users, name: Names, md5: {m}] :
          /\ \A o \in offers, e \in new : ~(o.uid = e.uid /\ o.name = e.name)
          /\ offers' = offers \cup new
    /\ UNCHANGED <<published, log>>

\* A file of one user moves to a name that offered none.
MoveOffer ==
    /\ \E o \in offers, n \in Names :
          /\ \A e \in offers : ~(e.uid = o.uid /\ e.name = n)
          /\ offers' = (offers \ {o}) \cup {[uid |-> o.uid, name |-> n, md5 |-> o.md5]}
    /\ UNCHANGED <<published, log>>

\* The files of a name go, whoever they belong to.
Withdraw ==
    /\ \E n \in Names : offers' = {o \in offers : o.name # n}
    /\ UNCHANGED <<published, log>>

\* An entry stays where it is put.
Record ==
    /\ \E e \in File : e.md5 \in published /\ log' = Append(log, e)
    /\ UNCHANGED <<published, offers>>

CatalogNext == Publish \/ Offer \/ MoveOffer \/ Withdraw \/ Record

CatalogSpec == CatalogInit /\ [][CatalogNext]_catalogVars

=============================================================================
