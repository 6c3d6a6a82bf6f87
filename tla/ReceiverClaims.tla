--------------------------- MODULE ReceiverClaims ---------------------------
(***************************************************************************)
(* What log messages of server.cpp and database.hpp, and the design, say   *)
(* of the upload tunnel and the code does not do.                          *)
(***************************************************************************)
EXTENDS Receiver

\* "remove uid %d %s/%s" (database.hpp:551): removeFile deletes a file of the
\* user it is given and leaves every other user's rows alone.
RemovesOwnRows ==
    [][\A p \in Procs : At(p, "rem") /\ pc'[p] = "add" =>
        \A u \in Users \ {User(p)} : files'[u] = files[u]]_vars

\* "Avoid sync over older file %s from client" (server.cpp:686): the row that
\* gives way is not newer than the file that comes, unless this session has
\* put it there itself, by renaming.
KeepsNewer ==
    [][\A p \in Procs : At(p, "rem") /\ pc'[p] = "add" =>
        LET e == Head(topull[p])
            row == files[User(p)][e.name]
        IN  row # NoRow /\ ~RenamedTo(p, e.name) => row.modtime <= e.modtime]_vars

=============================================================================
