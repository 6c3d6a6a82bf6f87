# Net-syncdisk: a verification project

Net-syncdisk is a networked sync disk: a server (`Server/src/server`) that forks
a process per connection over one MySQL database and one directory of contents,
and a Qt client (`Ubuntu-Client/src`, `Windows-Client/src`) that uploads and
downloads a folder with two threads. The TLA+ modules here model the server's
two tunnels, its accounts, the threads and the downloads of the client, and the
protocol and arithmetic both sides share. TLC checks them on small instances;
TLAPS proves, for every value of the constants, that uploads implement an abstract
catalog, and the safety properties of uploads and their byte arithmetic, downloads on
both sides, accounts, the client's threads and the framing of messages.

File names below are relative to `src/`; `server.cpp` and `database.hpp` are in
`Server/src/server/`.

## 1. Inventory

| Part | State | Operations | Talks to |
|---|---|---|---|
| Database (`G2652.sql`, `database.hpp`) | tables `user`, `client`, `files`, `inode`, `journal` | one function per SQL statement, autocommitted, results mostly ignored | every server process |
| Store (`server.cpp` 529-563) | one file per md5 in `StorePath` | create and preallocate, write a piece, read a piece | receivers write, senders read |
| Upload tunnel, `receiver()` | `topull`, `pullreq`, `fmap`, the global `csession` | DirInfo, pass 1, pass 2, Pull, the push loop, `onexit` | `SenderThread` of a client |
| Download tunnel, `senderInit()` | none that outlives a Pull | DirInfo, Pull, pieces, "done", `updateCommitid` | `ReceiverThread` of a client |
| Incremental sender, `senderIncr()` | as above | as above, from `selectNewCommits` | no client opens it |
| Accounts, `login()`, `signup()` | rows of `user` and `client` | look up, create a user, create a client | `Controller` |
| Framing (`common/utility.h`, `common/tsock.h`) | the buffer of a connection | `readto`, `readn`, `sendn`, `DHeader::read` | everything that reads a socket |
| Uploading client (`senderthread.cpp`, `dirscanner.cpp`) | `ready`, the scan, the open Push | `scan`, `sync`, `endSync` | upload tunnel, the other thread |
| Downloading client (`receiverthread.cpp`, `localfilemanager.cpp`) | local files and their `.tmydownload` files | `sync`, `setFile`, `writePush`, `updateChunks` | download tunnel, the other thread |
| Controller, user interface, loggers, `json.hpp` | widgets, sockets | connect with a timeout, forms, output | |

How they interact. A connection carries one request. `Tunnel` with the role of a
sender starts `receiver()`: the client sends a DirInfo (path, name, md5, length
and modification time of each file), pass 1 compares it with table `files`,
pass 2 takes from the store what is known there and asks for the rest with a
Pull, and the client answers with Pushes of at most 1 MB. Each piece is
written to the store file named by the md5 of the row; the last one adds an
inode, completes the rows with that md5 and appends a commit to the journal.
`Tunnel` with the role of a receiver starts `senderInit()`: the server sends
the DirInfo of the user's complete files and answers Pulls with pieces.

What is hard. Nothing is in a transaction: each statement commits by itself,
the check that a user has one receiver at a time is switched off
(`database.hpp` 219), a statement that fails is not noticed, and statements
with a short WHERE clause change rows of other sessions and other users. The
processes interleave between any two statements, may be killed between any two,
and keep copies (`topull`, `fmap`) of rows that others change. Connections close
inside a piece. The full list, with lines, is under "hazards" in `PROJECT.json`.

What makes each part correct:

- Store and tables: what the tables say is there is there. An inode has its
  whole content on disk, a complete row has an inode, the pieces a row counts
  are written, the journal names stored contents; a store file holds the bytes
  of its md5.
- Upload: both passes end; no announced file is forgotten; a pull answered in
  full completes its files; a newer version is not replaced by an older one;
  an interrupted upload resumes with exactly the missing bytes and ends.
- Download: what was offered arrives, and can be read; a commitid is one of the
  machine's own user.
- Accounts: a session that was given out is known, belongs to the first user of
  the name, is one machine's, and is kept from login to login.
- Clients: the two threads go on for ever and keep to their own connections; a
  download that is cut short resumes to the offered content; a file of the user
  is not lost.
- Framing: a message is delivered once and whole, however `recv` cuts the stream.

## 2. Modules

| Module | Models |
|---|---|
| `SyncDB` | the tables and the store, one operator per statement of `database.hpp` |
| `Receiver` | `receiver()`, `writeToChunks` and `onexit`: the upload processes; the properties of uploads |
| `ReceiverClaims` | what log messages and the design say of pass 2 and the code does not do |
| `ReceiverInv` | the inductive invariant `IInv` |
| `ReceiverProofs` | the proofs of types, of `IInv` and of the refinement |
| `UploadHistory` | `Receiver` with a record of which sessions came across each other; the properties of sessions that meet |
| `SessionProofs` | what is proved of sessions that meet, and of an upload that meets no other |
| `Catalog` | the abstract promise of the tables and the store |
| `ReceiverCatalog` | `Receiver` implements `Catalog`: the mapping |
| `Sender` | `senderInit()` and `updateCommitid`: the download processes |
| `SyncServer`, `ServerProofs` | receivers and senders together; the properties of downloads, and their proofs |
| `Chunks` | `insertIntoChunks`, the gaps of a Pull, `generatePushReqEntry`, the grouping of Pushes, `chunkify`, in bytes |
| `Upload`, `UploadProofs` | the data path of an upload in as many sessions as it takes, on `Chunks`; proofs |
| `Accounts`, `AccountsProofs` | `login()`, `signup()`, the login window and its saved session; proofs |
| `Download`, `DownloadProofs` | `ReceiverThread::sync` with `LocalFileWriter` and the `.tmydownload` files; proofs |
| `ClientThreads`, `ClientThreadsProofs` | the control of both client threads, their connections and descriptors; proofs |
| `Framing`, `FramingProofs` | `Readbuf` and the reading of messages from a stream; proofs |
| `MCReceiver`, `MCServer`, `MCUpload`, `MCAccounts`, `MCDownload`, `MCFraming` | instances for TLC |

`Receiver` and `Sender` are composed in `SyncServer`, over one `SyncDB`.
`ReceiverCatalog` instantiates `Catalog` with a refinement mapping. The client's
modules take the server as an environment that does what the server modules
show it to do, slowly, or not at all: `Download` has its rows and pieces,
`ClientThreads` where its two processes are, `Framing` only what it sends.

### State and actions

`SyncDB`. `files[u][n]` is the row with that primary key; a name `n` stands for
a (path, filename) pair and a content for an md5 with the bytes behind it. A row
keeps the columns the properties tell apart: `md5`, `complete`, `modtime` and
`chunks`. The length of a file is a number of pieces (`Size`), and the chunks of
a row are a number of leading pieces: clients answer a Pull in order, so the
list of chunks is empty or one chunk from offset 0. That is an abstraction, and
`Upload` checks it on the real list operations (`ChunksArePrefix`). `inode[m]`
is the refcount, 0 without a row; a row's commitid is its place in `journal`;
`store[m][i]` is what piece `i` of the store file holds: nothing, a hole left by
`fallocate`, a piece of some content, or bytes of no announced content
(`Garbage`). A statement that fails on a duplicate key changes nothing.

`Receiver`. Each process has a program counter; an action is one statement or
one file operation with the local code around it:

| Lines of `server.cpp` | Actions |
|---|---|
| 609-634, 641-651 | `Start`, `ReadDirInfo`, `BadDirInfo` |
| 653-690, pass 1 | `ChooseNew`, `FoundRow`, `Compare`, `Rename` |
| 709-783, pass 2 | `CheckInode`; `IncRef`, `AddComplete`, `CommitKnown`; `CheckRow`, `CompareRow`, `RemoveRow`, `AddPartial`, `PullGaps` |
| 693-703, 785-808 | `SendEmptyPull`, `SendPull` |
| 809-878, push loop | `Preallocate`, `WritePiece`, `RecordChunks`; `AddInode`, `Complete`, `CommitPulled` |
| ends | `HangUp`, `ReadFails`, `CloseInsidePiece`, `ReadnAgain`, `RowVanished`, `OnExit`, `Kill` |

`getUidBySession`, `userOnReceiving` and `chkCommitidNull` read what no step
changes, so they share a step with what follows. A row that was deleted since
`chkFilePath` makes `getFileScheme` return a null json, whose fields throw:
`RowVanished`, an exit without `onexit`. The client is the environment: it opens
sessions in both modes, announces any DirInfo in which a name occurs once,
answers the Pull in order, piece by piece, may have edited a file since it was
scanned (`Edits`), and may close the connection anywhere.

`Sender`. `Open`, `Offer`, `ReadPull`, `GetMD5`, `SendPiece`, `SendFails`,
`ReadMax`, `MaxIsNull`, `UpdateCommitid`, `CloseSender` follow `senderInit`
(`server.cpp` 355-439). A Pull is any list of pieces of any names, offered or not:
nothing in the code ties it to the DirInfo. `sent` records the bytes that went out.
`SyncServer` lets the processes of `Receiver` and `Sender` interleave freely, of one
user or of several, and `moved` records for each sender which rows of its user were
replaced since its DirInfo.

`UploadHistory`. Three variables the code does not have say which meetings of
sessions matter: `touched[p]` are the names another session of the same user
replaced since `p` began, `overtaken[p]` those it replaced between the look of pass
2 at a row and the INSERT or the caching that follows (733-768), and `spoilt` are the
contents of which a session pushed other bytes than it announced, or the file of a
row it was overtaken on. They restrict nothing.

`Catalog` and `ReceiverCatalog`. The catalog is a set of published contents that
only grows, what each user offers under each name, and a list of what was
recorded. Contents are published before they are offered or recorded, an offer
is moved, withdrawn or added by itself, never replaced in place, and the list is only
appended to. The mapping: a content is published when table `inode` has it, a
user offers the complete rows, and the list is the journal.

`Upload`. Two files of any lengths; `Sync` makes the Pull from the rows and the
Pushes from the Pull, `Receive` takes one piece, `Close` loses what is on the way.

`Accounts`. A machine has a window (`start`, `form`, `logging`, `signing` or `main`) and the session
in `tmyuser.txt`; `link[m]` is the process of its connection. A process draws its
session from the second it started in (`srand(time(NULL))`), so a session is
named by that second: `Tick` moves the clock, at most `MaxPerSecond` connections
are accepted in a second, and `crowded` records the seconds with more than one.
`CheckPassword`, `CheckSession`, `CheckName`, `InsertUser`, `FindUid`,
`InsertClient` are one SQL statement each (`server.cpp` 115-308, `database.hpp`
246-262); `Die` ends a process anywhere; `LoggedIn`, `BackToForm`, `LoginLost`,
`SignupLost` and `Restart` are `loginwindow.cpp` 25-124, where a login that
breaks off looks like one that worked, with an empty session.

`Download`. `rows` is what the server offers, `local` the user's folder, `meta[n]`
what the `.tmydownload` file of `n` says: no file, or the pieces received. The server
may have files before the machine comes. One
action is one effect on a file or one message (`receiverthread.cpp` 57-186,
`localfilemanager.cpp` 11-197): `KeepLocal`, `RenameLocal`, `RemoveLocal`,
`CreateMeta`; `TruncateMeta` and `SaveAndLoad` (`setFile` truncates the file it then
writes), `WritePush`, `InsertChunk`. `Stop` ends the program between any two of them,
`RowChanges` replaces or renames rows on the server, `UserEdits` the user's files,
and a connection may close between pieces or inside one (`CloseInside`, after
which the thread spins in `::readn` until the program is closed, `StopHung`).
The server sends from the row it has when the piece is due (`senderInit`), which may
be longer or shorter than what the Pull asks for: the last piece may be cut from a
longer one (`PieceIsCut`), the server may send less than its header announced, so that
the client takes what follows for the rest (`PieceRunsOver`) and everything after it
from the wrong place (`shifted`, `ShiftedPiece`), or nothing at all, and the thread
hangs (`Starves`). `Mixed` is a piece of no content. A Push is read as a whole before it
is written: a negative length in it throws and nothing of it is written
(`NegativePieceArrives`).

`ClientThreads`. `rpc` and `spc` are where the threads are, `rfd` and `sfd` the
descriptors of the Receiver and the Sender, `rnew` and `snew` those being made,
and `conn[x]` what descriptor `x` is: free, closed, or a connection whose server
process is somewhere. A number that was closed is given out again, the lowest
first, as `socket` does; that is what makes the second close of `receiver.cpp` 112
and 158 matter. `posted` counts the signals on their way to `setReady`. `faults`
records what went wrong so far: a "done" that was read, a spin in `::readn`, a
DirInfo lost with a buffer, a connection closed under the sender thread.

`Framing`. One direction of one connection: the bytes of a list of messages,
`arrived` and `taken`, and one action per call of `recv` and per return of `readto` and
`readn`. `Send` is the peer's next message, which may have to wait for the answer to
the one before (`AnswersTo`); `Arrive` is TCP, which brings any number of the bytes
sent. A data byte may be anything, in particular newlines, NULs
and what looks like a message. When the reader makes a new `Readbuf`, the rest of
the old one is gone.

Definitions marked "a slip" stand next to the definition they vary: a bug
someone could write there. They are used only to see that the properties would
notice.

## 3. Runs

All with two workers; times are of a small machine.

| Run | Question | Bounds | States |
|---|---|---|---|
| `MCReceiver_one` | one process, both modes, edits, hang-ups everywhere: `PulledIsComplete`, `NothingForgotten`, `StuckOnlyByKill`, `StoreMatchesMd5` | 1 user, 3 names (`f`, `f.old`, `f.old.old`), 2 contents of 2 and 1 pieces, 3 modification times, DirInfos of 0 to 2 files, 2 sessions | 1.6M, 2.5 min |
| `MCReceiver_race` | two sessions of one user at once, a kill: `InodeStored`, `CompleteHasInode`, `ChunksOnDisk`, `IInv`, `StoreMatchesMd5`, the refinement `ImplementsCatalog`, `ReplacesOnlyOlder` and `PassesEnd` | 2 processes, 2 names, 2 contents, 2 sessions of 0 or 1 file | 0.25M, 1.5 min |
| `MCServer` | uploads and downloads together, of one user or of two: `DeliversOffered`, `CommitidIsOwn` | 1 receiver, 1 sender, 2 users, 2 uploads with edits, 1 download with a Pull of any piece or none | 2.2M, 1.5 min |
| `MCUpload` | the byte arithmetic, resumed at every point: `ChunksArePrefix`, `DoneIffOnDisk`, `PushesAreMissing`, `ChunkifyAgrees`, `AllArrive` | 2 files of 1 to 7 bytes, Pushes of 3 | 500, 11 s |
| `MCAccounts` | logins and signups that race, die and share a second: `SessionKnown`, `ClientsOfFirst`, `SessionIsOwn`, `SessionIsUnique`, `KeepsSession` | 2 machines, 2 processes at a time, 2 names, 3 passwords (one too weak), 3 requests, 2 seconds of 2 connections | 1.8M, 1 min |
| `MCDownload` | a download resumed, overtaken and stopped at every step: `SavedChunksOnDisk`, `PiecesInOrder`, `PullsArePositive`, `FinishedIsOffered`, `InitialKeepsLocal`, `DownloadsFinish` | the rows of a file and its `.old` name, there from the start or not, 3 contents of 3, 1 and 1 pieces, 1 change on the server, 1 edit, 2 lost connections or stops | 0.6M, 1 min |
| `MCClientThreads` | both threads: `ScansAfterPass`, `OwnConnections`, `ReceiverKeepsSyncing`, `SignalArrives`, `SenderKeepsSyncing` | 4 descriptors, 2 signals on the way, 1 late answer, 1 broken connection | 0.5M, 2 min |
| `MCFraming` | a stream cut anywhere: `DeliversWhole`, `DropsOnlyReadAhead`, `AllDelivered`, `FramingTypeOK` (a buffer is never overrun) | buffers of 6 bytes, headers of 1 and 4, 4 messages, one payload that looks like a message, 1 timeout | 0.27M, 2 min |

Why the bounds are enough for what is asked. Two contents are needed for a file
to change, two pieces for a transfer to be interrupted between them; a second
session meets whatever the first left, or runs beside it. One kill meets every state
of a session (in `MCReceiver_race`; the properties of `MCReceiver_one` are proved with
kills). The two sessions of `MCReceiver_race` are of one user, where everything
collides; what sessions of different users do to each other by md5 is met in
`MCServer` and proved.
Two modification times give older, equal and newer; the third lets a row in the
store be newer than one file of a DirInfo and older than another. In `MCUpload` a
length of 7 with Pushes of 3 has a file of more than two full Pushes, exact fits, and the
boundary on both sides. In `MCAccounts` two connections in a second collide and
two in different seconds do not; three requests are two racing signups and a
login. In `MCDownload` the change overtakes a download of what was there at the
start; with three pieces against one the saved chunks may be more than the
new version has, or the new version more than was asked for, and with two contents of
one piece a row may also change without a change of length. Four descriptors are two for each thread: the one it has and
the one it is making. In `MCFraming` a header of 4 with a buffer of 6 needs half
a buffer to be handed out undelimited, and data of up to more than a buffer goes
past it. What is proved (section 5) does not rest on the bounds at all; where a
bound did carry a property, the proof found it (section 5, "Found by proving").

What the conditions mean. No specification keeps sessions apart: what the code leaves
to luck is recorded when it happens, and a property leaves out just that row or
content. `StoreMatchesMd5` excepts contents in `spoilt`: a file was edited between its
scan and its push, or another session of the user replaced the row between the look
at it and its caching. `ReplacesOnlyOlder` excepts a name another session of the user
`touched` since (`Claim_KeepsNewer` shows what happens then), and one the session
itself renamed. `DeliversOffered` excepts names whose row was `moved` since the DirInfo,
and spoilt contents. TLC refutes each of the three when its exception is dropped.
`InodeStored` and the other properties of `MCReceiver_race` have none.
`PulledIsComplete`, `NothingForgotten` and `StuckOnlyByKill` are about a session that
meets no other: another session of the user may replace what it has just completed.
`SessionIsUnique` and `SessionIsOwn` are about sessions drawn in a second with one
connection; of two that share a second both may get one session, which TLC confirms
when the condition is dropped (the design promises on page 3 that a session is no other
machine's). `PullsArePositive`, `FinishedIsOffered` and `DownloadsFinish` are about rows
that do not change under the download (`steady`); without that, see
`Claim_FinishedIsWhole`. `SavedChunksOnDisk` and `PiecesInOrder` are about every
download, also when the stream is out of step. The properties of `Download` are about
names nothing is renamed to: a file that is itself called `.old` may be overwritten.
`OwnConnections` and `ReceiverKeepsSyncing` hold until a "done" was read, and
`SenderKeepsSyncing` as long as no connection breaks and no DirInfo is lost, see
`Claim_ThreadsSync`.

CHECK_DEADLOCK is off throughout: when the bounded sessions are used up, and
in the program whenever nobody connects, nothing happens.

### Refuted claims

Each run checks one statement of a document or a message and finds a
counterexample; "findings" in `PROJECT.json` quotes the source.

| Run | The claim | What happens |
|---|---|---|
| `Claim_RemovesOwnRows` | `removeFile` removes a row of its user | it deletes every user's row of that name |
| `Claim_KeepsNewer` | of two versions the newer one is kept | pass 2 does not compare the times pass 1 compared: the newer row of another session that came in between is removed for an older file |
| `Claim_FinishedIsWhole` | a file without a `.tmydownload` file has been received | a row replaced after the DirInfo, or before a resume, leaves the beginning of a version, or the beginning of one and the end of another, without its `.tmydownload` file |
| `Claim_ThreadsSync` | both threads of the client sync every five seconds | the sender thread repeats `waitPull` on a closed connection, or after its DirInfo was dropped, for ever; after "done" the receiver's descriptor is closed twice, the second time it may be its own new connection, again and again; inside a piece it hangs in `::readn` |

### Seen while modelling

In the models as the code has it, without a run of its own.

Uploads and downloads on the server:

- A newer version sent in Recv mode whose content the store knows is counted and
  journalled, but its INSERT fails and the older row stays (`server.cpp` 720; the
  design says on page 4 that the newer one is kept).
- Two sessions of one user that upload one name at once put pieces of one content
  in the store file of another (`server.cpp` 853): the session whose INSERT fails caches
  the other's row (`overtaken`).
- A complete version is removed from table `files` when a newer one is announced,
  before a piece of that has arrived (`server.cpp` 741, whose message says
  "uncomplete"): if the client goes then, nobody can download either.
- Two signups of one name at once leave it twice in table `user`; two machines that
  sign in within one second may get one session.
- A process killed between `addInodeFile` and `completeFile` leaves a row no later
  session completes (`server.cpp` 866): what `StuckOnlyByKill` allows for.
- A connection that closes inside a piece leaves the process in `::readn` for ever
  (`tsock.h` 212), and the syncing flag up.
- `validateFile` accepts everything; `userOnReceiving` and `chkCommitidNull` never
  refuse; `updateChunks` writes chunks to complete rows; refcounts are not counted
  down and count inserts that failed; `max(commitid)` is NULL for a user whose only
  files were completed by another user's upload (`MaxIsNull`); the commitid stored
  after a Pull covers commits that were not offered.

Clients:

- A login that breaks off leaves code 0: an empty session is saved and both
  threads ask for tunnels without a session for ever (`loginwindow.cpp` 35-44,
  `controller.cpp` 336). The session of a signup is not saved, and a signup is sent
  even when the dialog was dismissed.
- The chunks of a download are saved when the next piece begins: sessions that
  end after one piece each make no progress (`localfilemanager.cpp` 25).
- When a folder is bound and the local file is newer, the server's is pulled as
  `f.old`, a name the server has only once this machine's other thread has made
  it rename its row (`receiverthread.cpp` 104). Until then the server announces a piece
  it cannot send, and the thread hangs in `::readn` although no connection broke.
- A DirInfo that arrives with its Tunnel in one `recv` is dropped (`server.cpp` 642),
  after which both sides wait.

## 4. Fairness

- `FairHistorySpec` of `UploadHistory` has weak fairness of the steps a process takes between
  two waits for the client (`Work`): the operating system runs it, and the database
  answers, as no statement waits for another process's lock beyond the statement
  itself. Nothing is assumed of clients, kills or closing connections.
- `FairSpec` of `Upload` has weak fairness of starting a session (`endSync` starts one
  every five seconds) and strong fairness of receiving a piece: of infinitely many
  sessions, some get one piece further before the connection closes. Without that
  an upload need not end, and the code can do nothing about it.
- `FairDownloadSpec`: the thread runs and the server answers; a program that hangs is
  closed, and one that is started again and again is some time started with the folder
  it has, not only to choose one (strong fairness of `Start(3)`). The last two are
  the user's part. Lost connections and stops are bounded (`MaxBreaks`), because
  a session that ends after a single piece gains nothing.
- `ThreadsSpec`: each thread runs, the event loop delivers signals, and the server's
  processes work and close when they end. Late answers and broken connections are
  not fair, and bounded.
- `FramingSpec`: the reader runs, the peer sends what need not wait, and TCP delivers
  what is sent.

The properties of `MCAccounts` are about safety and need none.

## 5. Proofs

For any sets of processes, users, machines, names and contents, any sizes and any
bounds. Under "holds of" is the specification a theorem is about; hang-ups, kills
and stops may come anywhere in all of them.

| Module | Theorems | Hold of |
|---|---|---|
| `ReceiverProofs` | `TypeCorrect`, `TypeInvariant`, `Invariant` (`IInv`), `InodeStoredAlways`, `CompleteHasInodeAlways`, `ChunksOnDiskAlways`, `JournalHasInodeAlways`, `CatalogImplemented` | all uploads, with or without edits |
| `SessionProofs` | `StoreMatchesAlways`, `ReplacesOnlyOlderAlways` | any number of sessions of any users at once (`HistorySpec`), with edits |
| | `PulledIsCompleteAlone`, `NothingForgottenAlone`, `StuckOnlyByKillAlone` | uploads of all users one at a time (`AloneSpec`), so every behaviour of one process (`OneProcessIsAlone`) |
| `ServerProofs` | `CommitidOfOwnUser`, `DeliversOfferedAlways` | all receivers and senders, of any users at once (`ServerSpec`), with edits |
| `DownloadProofs` | `SavedOnDiskAlways`, `PiecesInOrderAlways`, `PullsArePositiveAlways`, `FinishedIsOfferedAlways`, `InitialKeepsLocalAlways` | every sequence of sessions, stops, lost connections, edits and changes on the server |
| `AccountsProofs` | `SessionIsKnown`, `ClientsAreOfFirst`, `SessionIsKept`, `SessionIsOneMachines`, `SessionIsOwnAlways` | any number of logins and signups at once |
| `ClientThreadsProofs` | `ThreadsSafe` (`OwnConnections`, `NoDescriptorLeaks`), `ScansAfterPassAlways` | both threads |
| `UploadProofs` | `ChunksArePrefixAlways`, `DoneIffOnDiskAlways`, `PushesAreMissingAlways`, `ChunkifyAgreesAlways` | any files of any lengths, any `MaxPushBytes`, in sessions cut after any piece |
| `FramingProofs` | `FramingTypeOKAlways`, `DeliversWholeAlways`, `DropsOnlyReadAheadAlways` | every connection, with buffers of any size above 3 and any messages, however the stream is cut |

The assumptions are those of the modules: sizes of at least one piece, `Old` a
function from announced names to other names, a machine has a user, bounds are
numbers, headers, Pushes and files have at least one byte, a DirInfo names each file once, and the values that stand for "nothing"
are not rows, entries or bytes. (`Readbuf`s have 2048 bytes or 1 MB.)
Offsets and lengths are numbers without bound where the code has `int`s, so the theorems
about bytes are about files of less than 2 GB.
Only the third line has a condition on how sessions meet. It is not one the code
ensures, as `userOnReceiving` always answers no (`database.hpp` 219): the three theorems
say what an upload comes to if no other disturbs it, and their run has one process.

All uploads (`IInv`). That an inode has its content on disk is decided when the
last piece of a Pull is written, by a process that believes
the pieces before it are there because its copy of the row says so. So `IInv`
says of every row, in the table or cached in `fmap`, that the pieces it counts
are on disk (`RowsOnDisk`); of a process between `writeToChunks` and the
statements after it, that the piece is written and is the last one if the code
took it for that (`PieceOnDisk`); of a process that relies on an inode it saw
or added, that the inode is still there (`InodeKept`; no statement deletes
inodes); and that a store file that does not exist has no pieces
(`AbsentOrCreated`), because `Preallocate` overwrites it. Stale copies do no
harm to these properties: the pieces of a store file never become unwritten.
The proof follows that: lemmas `KeepRows` ... `KeepJournal` say which part of the
invariant survives a step that only adds pieces and inodes, and one lemma per
action supplies the rest.

The refinement. Most steps are stutters of the catalog; the interesting ones are
`completeFile`, which turns rows of any user into offers and needs `InodeKept` of
the process, and `AddComplete`, which may fail. That no offer is replaced in place
follows from the shape of the statements: `addFile` fails on a row that is there.

Sessions that meet (`HistoryInv`). A session finds the row it is about to use as it left
it, or gone, unless another session of its user replaced it: other users' sessions
remove rows by name and complete rows by md5, but change no md5 and no time
(`OthersRows`, `OthersVersion`). So the content cached for a name is the announced one
unless the session was overtaken on it (`CachedUnlessOvertaken`), for which the row must
be as asked when pass 2 adds or caches it (`AskedUnlessOvertaken`); a piece then goes to
the file of its own content, or the content is spoilt (`StoreOwn`). That a row chosen in
pass 1 is not newer stays true until another session touches it
(`NotOlderUnlessTouched`).

Alone (`AloneInv`). The invariant follows an entry through the session: it is in one
place of one list (`ListedOnce`) until its row is as announced or at least as
new (`SettledOrListed`); from its place in `fmap` on, its row stays and is completed
before the name leaves `pull` (`CachedRowStays`). `PartialIsCompleted` says
that, as long as nothing was killed, a partial row of a stored content is being
completed right now.

Server. Of the variables of receivers, senders change only `commitid`, which no
receiver reads, so the invariants above carry over (`ServerInv` on `IInv`, `SendsInv`
on `HistoryInv`). For `CommitidIsOwn`, what `ReadMax` has found must still be a commit
of the user when it is stored (`LatestIsOwn`): the journal only grows. For
`DeliversOffered`, the md5 that is looked up again for every piece must be the offered
one or gone, unless the row moved (`OfferedIsKept`, `KeyIsOffered`), and the store file
of an offered content is whole (`InodeStored`) and, unless spoilt, right.

Download. `SavedInv` is about the `.tmydownload` files: those of the files to come stay as
they were when the Pull was made, so the chunks `setFile` reads are the ones the Pull
starts after (`PullsFit`, `PushFits`), and what `setFile` saves for the file before has
been written to it (`CountedOnDisk`). It has to account for DirInfos that name a file
twice after an entry was given its `.old` name (`DirFits`). `SteadyInv` adds that, while
no row changes under a download, a file under download is a beginning of the row's
content and lacks a piece, and the stream is in step. `KeepsInv` says that of a name nothing is renamed to exactly
what lacks is asked for, once.

Accounts. Rows are only added to table `user`, so the first row of a name stays
the first once there is one; `FindsFirst` carries that from `FindUid` to
`InsertClient`, across other processes' inserts. `AnswersKnown` says that a session
on its way to a machine has its row, which is why a failed INSERT does no harm: it
fails because the row is there. For `SessionIsKept` the process must answer the
session the machine sent (`LoginKeeps`), and two machines must have different
connections (`LinksApart`). For the two theorems about whose a session is, `SessionsInv`
says where a session drawn in an uncrowded second may be: with the one process
that drew it, its row of `client`, and the one machine it was answered to.

Threads. `Apart` says that the connections of the two threads, those being made
included, are different and of the right kind until a "done" was read; `Holders`
says which descriptor is held at which step; `Signals` says that no signal exists
before the first pass.

Framing. The stream is laid out message after message (`StreamOK`), and the buffer is
what `recv` took of it last (`BufferOK`), also after a `Readbuf` was dropped: so a
position in the stream belongs to every state of the reader. `Sync` says that the
reader is in step with the messages. As long as nothing was dropped, each wait
begins where the message before it ended; after that it may begin anywhere, but a
type line is recognised only where a message begins if no data holds one, for which
half a buffer must have room for more than the first byte of it (N > 3).
`DropsOnlyReadAhead` needs that the Tunnel and the DirInfo of a download come alone
(`FirstAlone`), because the next message answers the answer to them. Where a delimiter
is first in a buffer is found by well-founded induction (`LeastExists`).

Upload. `UploadInv` says how far each file has come: its row has one chunk from 0 to
there, or none; the bytes on disk are those; and while a session runs, the bytes on the
way are all that the files lack, one file after the other. So the piece in front is the
next one of the first file that lacks something (`Advance`), and `insertIntoChunks` only
ever gets a chunk that touches the one it has, for which its merge loop is right; with a
gap, a new run would start with a wrong end. That `Sync` establishes the invariant needs
that cutting and grouping leave the bytes of a list of entries as they are, in order
(`PartsStream`, `GroupPiecesFacts`, `ChunkifyFacts`), for lists of any length. The loops
are recursive functions, for which there is no induction rule here whose conclusion is a
formula: induction is that of a set of numbers, from its least element (`LeastExists`),
and gives first that a loop has a value after every turn (`LoopRuns`), then what it is.

### Found by proving

Three properties held in their runs only because a bound was too small; the proof
attempts led to the counterexamples, which TLC then showed with larger bounds.

- `ReplacesOnlyOlder` (then a property of one session). With three modification times, an initial session whose row was
  renamed to the name of another announced file removes that row in pass 2 although
  it is newer: pass 1 compared the entry when the name was free. The
  property now leaves out a row the session itself renamed there.
- `PullsArePositive`. With three changes and two stops, an initial session gives an
  entry the name of a file that is itself under download, removes its local file and
  is stopped before its `.tmydownload` file is rewritten; when the row then gets
  shorter, a length is not positive. `steady` now counts a row as changed under a
  download also while its file has a `.tmydownload` file and saved chunks.
- `DeliversWhole`. The property said "whatever bytes the data is made of" of every
  connection, and the data of its run was too plain to show more. After a `Readbuf` was
  dropped with a beginning of a message, the next wait looks for a type line in the
  middle of the data, and data that looks like a message is delivered as one. The
  property now says so, and its run has such data.

### Only model-checked

- Liveness: `PassesEnd`, `AllArrive`, `DownloadsFinish`, `AllDelivered` and the three of
  the threads. The provers have no support for ENABLED, so not for fairness.
- What `insertIntoChunks` makes of chunks with gaps between them is neither proved nor
  checked: the theorems of `Upload` say that no row gets such chunks.

## 6. Not modelled

- `senderIncr`: no client opens it.
- `DirScanner`: the uploads take any DirInfo as announced. The scan that races with
  the downloads of the other thread is listed as a hazard without a property.
- `connectto` with its timeout, `sendn`, `blockt`; the start of the threads, which
  relies on a `sleep(1)`.
- The windows, the loggers, the Windows client (the Ubuntu client with other paths
  and types), and the vendored `json.hpp`, three copies of which are 36,600 of the
  repository's 47,300 lines of code: no model can cover a large share of the lines.
- Login and signup are not composed with the tunnels: they share only the rows
  of `user` and `client`, which the tunnels read (`SessionKnown` is what they need).
- Inside the modelled parts: lengths beyond pieces, the case-insensitive collation
  of names, file descriptors on the server (none is ever closed in
  `writeToChunks`), short writes, and failures of the database other than
  duplicate keys and rows that are not found. In `InsertChunk`, the extra save of a
  `.tmydownload` file after ten chunks (`localfilemanager.cpp` 183): `setFile`, which comes
  before every piece, sets `chunksWriteCnt` back whenever it reads that file.

## 7. Plan

Done: everything in section 2, and the proofs of section 5. Left, in this order:

1. `DirScanner` with `Download`: what a scan may announce of a file under download.
2. `Download` over `Sender` instead of its own environment.
