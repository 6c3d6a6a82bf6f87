-------------------------- MODULE ReceiverCatalog --------------------------
(***************************************************************************)
(* The receiver() processes implement the catalog.                         *)
(***************************************************************************)
EXTENDS ReceiverInv

\* The contents of table inode.
Published == {m \in Contents : inode[m] > 0}

\* The complete rows of table files, which scanUserFile selects.
Offers ==
    {o \in Commit : /\ HasRow(o.uid, o.name)
                    /\ files[o.uid][o.name].complete
                    /\ files[o.uid][o.name].md5 = o.md5}

C == INSTANCE Catalog WITH published <- Published, offers <- Offers, log <- journal

\* Whatever the receiver() processes of all users do to the tables, between
\* each other's statements, and wherever they are killed: contents are only
\* added, files are offered and recorded after their content, and an offer is
\* not replaced in place.
ImplementsCatalog == C!CatalogSpec

=============================================================================
