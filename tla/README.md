# Grid-FTP: specifications and proofs

TLA+ models of Grid-FTP, a small distributed file store: a *metadata server* knows which files
exist and where their blocks are, *data repositories* keep the blocks, *clients* store and fetch
files. The modules are checked with TLC on small instances; what matters most is proved with TLAPS
for every instance.

    tlc -workers 2 -config MetadataServer.cfg MCMetadataServer
    tlapm MetadataServerProofs.tla

The `.cfg` of a run is that of its component's module; the module to give to TLC is the `MC` one.
Paths below are those of the repository (`src/...`).

## 1. Inventory

| component | source | state | operations |
|---|---|---|---|
| client sessions of the metadata server | `metadata_server/server.c` | one thread per connection, each with a stack buffer `buf`; strtok's position, one for the process | `ls`, `auth`, `get_dr`, `put`, `get`, `remove`, `quit`, unknown commands, end of the connection |
| file database | `utils/file_db.c` | linked list of `Grid_File`, each with a list of `Block_File`; one semaphore | `init_db`, `add_file`, `get_file`, `remove_file`, `append_block`, `get_block`, `transfer_block`, `remove_block`, `file_db_to_string`, `update_file_db_from_string`, `db_destroyer` |
| block division | `server.c:128`, `client.c:131`, `client.c:344`, `client.c:404` | the blocks of a file, the tokens of an answer | divide, print, read back, cut |
| start-up of the metadata server | `server.c:61`, `server.c:314`, `utils/dr_list.c` | the repository list; the files the repositories report | read `rep.conf`, connect, `update_map`, drop who is offline |
| client | `client/client.c` | control connection, the repository list, one thread per block of a PUT, a semaphore | log in, fetch the list, the commands of the prompt |
| data repository | `data_repository/data_repository.c` | its own file database, the directory `./<id>`, the file `./<id>.db`, `localpath`, a semaphore for the file | `update_map`, `put`, `get`, `remove`, `transfer`, `dr_transfer`, `quit`; the scan at start |
| protocol | `utils/protocol.c` | bytes on a connection, the caller's buffer | `send_message`, `recv_message`, `send_file`, `recv_file`, the `craft_*` functions |
| keys, error helpers, colours, build files, sample data | `utils/common.c`, `utils/error_helper.h`, `utils/colors.h`, ... | none | |

**Interactions.** A client keeps one TCP connection to the server and opens one per block to the
repositories. All `client_handling` threads of the server share the file list (under the semaphore
of `file_db.c`), strtok's position (under nothing) and the process: `ERROR_HELPER` with `isFatal`
ends it for everybody. The server connects to the repositories at start (`update_map`) and once for
each REMOVE. Repositories connect to each other for a transfer.

**What is hard in this code**

* *A stored name is a pointer into a request buffer.* `new_file` (`file_db.c:208`) keeps the pointer
  that `strtok` returned (`server.c:212`). The key of a record changes with every later message of
  the session, and, because thread stacks are reused, with later sessions.
* *An early return keeps the semaphore.* `add_file` (`file_db.c:227`).
* *strtok is shared* by threads that parse at the same time; and its position stays in a buffer after
  that buffer has been answered from.
* *Buffers are never cleared on receipt*, and a request has no terminator but its newline.
* *The end of a connection looks like a request* (`protocol.c:63`).
* *Arithmetic at the edges*: offsets of adjacent blocks, the remainder, files smaller than the
  number of repositories, no repository at all.
* *Newlines are missing or doubled*: the server answers a GET or REMOVE twice, a repository waits for the rest
  of a GET that has none, and an LS prints names as it finds them, newlines included.
* *One path for all PUTs*: `localpath` of a repository is extended by every PUT and never cut, and is the key and
  the name of the record as well; a PUT copies it before it opens its file.
* *Three copies of what a repository has* (directory, list, `.db` file), written one after the other, across
  crashes and restarts.
* *Detached threads*: a PUT of the client does not wait for its transfers, and the next one initialises
  their semaphore again and cuts the file they send.
* *A list is changed while it is followed*: start-up frees the node it is at.

**What makes each part correct**

* *Database*: operations exclude each other; no record is lost; a name occurs once; a search finds
  the record of that name and no other; every operation returns the semaphore; the list is
  append-only but for the blocks a REMOVE frees.
* *Sessions*: a token belongs to the request that is parsed; an answer reports what was done.
* *Division*: blocks are disjoint and make up the file; each is sent to its repository, with its
  size; a GET asks for the blocks of the file.
* *Start-up*: every repository online, and only those, is in the list; every file and block reported is
  in the database.
* *Repository*: directory, list and `.db` file agree, before and after a restart; every request is
  answered once.
* *Client and connections*: answer *n* is the answer to request *n*; a transfer ends.

Some of these do not hold; section 5 lists what was found.

## 2. Modules

| module | what it is |
|---|---|
| `FileRegistry` | abstract: what the file database of the server really promises |
| `MetadataServer` | the server's threads, buffers, strtok, semaphore and file list; implements `FileRegistry` |
| `BlockDivision` | division of a file, the answer, and what the client makes of it |
| `Startup` | the server from `main` to `server_routine`: repository list, reports, what clients are told |
| `BlockStore` | abstract: what a repository really promises of its disk, run after run |
| `DataRepository` | one repository: scan, sessions, directory, `.db` file, list; implements `BlockStore` |
| `ControlChannel` | one client and its session: composition over the connection between them |
| `Transfers` | a client's PUT threads and GETs against a repository: both ends of each connection |
| `MC...` | instances of the six for TLC |
| `...Proofs` | theorems about the six; `PermitProofs` continues `MetadataServerProofs` with the semaphore |

Each module models the operations of its part as whole handlers, at the granularity at which others can
interleave. What one module takes from another it takes as a free choice: `ControlChannel` lets the
session block or the process end, as `MetadataServer` says they can; `Transfers` lets the repository end at any
time, as `DataRepository` says it can.

### MetadataServer

One `pc` per thread stack follows the code from `recv_message` to the reply. The names of the
actions are those of the functions they model, or `Handle...`, `Parse...`, `Reply...` for the parts of
`client_handling`.

| variable | code |
|---|---|
| `up` | the process runs |
| `sem`, `files` | the semaphore and the list in `file_db.c`; `freed` is set when a REMOVE has freed the blocks of a record |
| `at4` | the string at `buf + 4` on each stack: exactly the name of a file, a name with its newline, or anything else |
| `left` | what the last message left in `buf`: something short, something longer than a GET line, or "quit" |
| `saved` | strtok's position: the buffer it is in (or some other place), and whether a file name, another argument or nothing more of the request comes next |
| `pc`, `req`, `name`, `cur`, `appended` | control point, request, `file_name`, list position and block count of each thread |

A record is `[buf, file, freed]`: `buf` is the stack its name points into, `file` what the PUT was
for, which the code does not keep; actions never read it, properties do. Names compare by what is in the two
buffers at that moment. The key of a REMOVE that took its own token is at `buf + 8` and keeps its newline; one that
took another session's token has that session's `buf + 4`, the very pointer a record may have (`Key`). Where the outcome depends on bytes that the model does not keep, both
outcomes are allowed (`CanMatch`, `CanDiffer`).

*Granularity.* One step is: a receipt with the first strtok call, one later strtok call, `sem_wait`,
one list entry, the link of a new record (after `get_tail`, in a step of its own), `sem_post`, a
reply. Between any two the other threads run. The first strtok call of a request
is with the receipt: it reads only the thread's own buffer, and its effect on the shared position is
that step. Behind the last token the position stays in its buffer (`next = "end"`), through the answer and later
messages: `strtok(NULL)` is NULL there for sure only while that buffer still holds the request (`NoToken`), and
otherwise NULL or a piece of whatever the buffer holds by then.

*Ends of the process* (`Halt`): SIGINT, a lost connection, a NULL token, division by zero, blocks
used after they were freed. `up = FALSE` is terminal, hence `CHECK_DEADLOCK FALSE`; so is
a server whose threads all wait for a lost permit.

*Abstractions.* File names contain no comma and no newline, none is a prefix of another. A GET or REMOVE key read while
another thread's `recv` is half way is not distinguished from the buffer before or after.
A strtok call is one step. A token from behind a request is at `buf + 6` or later, so it is at no record's `buf + 4`: it is
a place of its own, and what an answer has there is taken to be the name of no file; that
strtok cuts an answer or a message at its comma changes nothing that the model keeps, except that
the request cut in two has no further token, which the position allows anyway.
A place that is no known buffer (`Elsewhere`) compares both ways, and a use of
a missing token ends the process there or when the name is first read.
The list starts empty: start-up adds at most one record, without blocks, whose name is in a frame that is gone
(`Startup`). A GET or LS of a
record with freed blocks is taken to fail (`UseAfterFree`) or to print something. Keys,
addresses and the wording of replies are left out; the outcome of authentication is a free choice.

### BlockDivision

One behaviour is one file and one list: `DivideRound` is a round of `data_block_division`,
`AnswerSent` the reply to a PUT or to a later GET, `PutRound` and `GetRound` the client's loops over
its tokens. `unsigned long` is `0..Word-1`, and the size is below `Word \div 2` because `strtol`
returns a `long`. A token is its kind and the number `strtol` makes of it.
`split_file` and `file_size` say which bytes a block gets and what `send_file` is told. When a
PUT with three or more repositories asks for an id that is not in the list, the real client crashes
in `get_node`'s result; the model goes on and only records the request. Answers are taken to be
received whole and `result` to start empty, though `malloc` does not guarantee it (`server.c:129`).

### Startup

| variable | code |
|---|---|
| `phase` | where `main` is: reading `rep.conf`, before `connect`, in `recv_message`, in `update_file_db_from_string`, before `node->next`, serving, ended |
| `list`, `size`, `node`, `freed_next` | the `DR_List`, its count, the loop's pointer, and `next` of the node that `delete_node` freed last |
| `tried`, `reported` | what `connect` returned for each repository; which ones have reported a file |
| `reply`, `tok`, `inside` | the answer in `buf` and strtok's position in it, or in the copy of a block's name |
| `database` | the records made: the place in `buf` that the name points to, and the blocks |
| `client` | the list that a client has made of `GET_DR`, or that it ended over it |

A name is what its place in `buf` reads as *now*, so what `get_file` finds depends on the answer that is
being read. `free` leaves `next` of a node as it was (nothing allocates in
between); a build whose allocator overwrites it behaves as the variant `freed_pointer_clear`. Repositories in
`rep.conf` are distinct. An answer begins with a file and a block of it, as
`file_db_to_string` prints them.

### DataRepository

| variable | code |
|---|---|
| `made`, `dir`, `lines` | the directory `./<id>`, its files, the lines of `./<id>.db`: what a restart finds |
| `phase`, `todo`, `ignored` | the process: none, in the scan of the directory, serving; entries not yet returned by `readdir`, and those passed over because they are hidden or could not be opened |
| `fresh`, `localpath` | this run made the directory, so that `localpath` ends in `.db`; the names PUTs have appended to it |
| `list`, `sem` | the `Grid_File` list and its semaphore; a block is `told` when its range is the one its PUT gave |
| `saved` | strtok's position: in a session's request, where that session's own calls have left it, or anywhere else |
| `pc`, `cmd`, `arg`, `at` | control point, request, block of its PUT, record of `db_destroyer` |

`Halt(d)` is every end of the process: memory is lost, the disk stays, `Start` begins the next run. It can
come between any two steps (`close_server`), so crash and restart are in every behaviour. A GET of a client
has no newline and leaves `recv_message` only when its peer is gone; then `get_block`'s NULL is used
(`GetUnknown`). TRANSFER and DR_TRANSFER clear the buffer their tokens are in and end the process (`TransferLost`).
Names in `Hidden` are those that begin with a dot; the scan never lists them (`IgnoreEntry`), a PUT does.
A PUT takes its path (`CopyPath`), then opens it (`OpenBlock`), and other PUTs extend `localpath` in between; the
path is that of a file in the directory only if nobody had extended it when it was copied, and fails in `fopen` otherwise.
Its four arguments are taken in two steps, name and range: between the two calls of either step another session changes nothing
that is kept. When the position was moved, the name is any block's and the range is not its own (`told = FALSE`), or a token is NULL.
Every key is accepted: `crypt` returns one static buffer, which `check_key` compares with itself. The content of a file is not kept: what a
transfer that ends early leaves is `Transfers`. A removal of a file that is being written is in
`db_destroyer`; the bytes that go to a removed file are lost with it.

### BlockStore

A first run stores nothing; a later one grants blocks until one of them has been recorded, then writes
at most one line; a block that was granted before may still be written after it; files go only with a QUIT, lines
never. `DataRepository` implements it with `stored <- dir`, `logged <- lines`, `begun <- made`, `granted <-` the blocks
of PUTs between the copy of their path and `fopen`, and `run` a function of `phase`, `fresh` and the list.

### ControlChannel

`client`, `request` and `behind` are the client: what it waits for, and how many lines it is behind, one for each GET or
REMOVE it has sent and one for each line behind the first of an answer.
`toServer` and `toClient` are lines and answers under way, `session` is the thread at the other end
(`"open"`, left by QUIT, waiting for a lost permit, or the process ended, because of this connection or
not), `reset` that the client's end has refused bytes. An answer remembers the line it is to, which the client cannot see.
A GET or REMOVE is two lines, the second one empty. An answer that prints names (`PrintsNames`: LS, and the blocks of a PUT or
GET) has any number of further lines, since a name is read in another session's buffer with the newline
that ends its last answer; what such a line begins with depends on what buffers held before, so both
"ack" and anything else are possible (`More`). Each side reads one line or answer at a time: messages sent
one after the other are taken not to be merged by TCP, nor cut.

### Transfers

One repository, so one block and one thread for each PUT. `sem` and `lost` are the client's semaphore
and the threads that slept in it when a PUT initialised it again; `pc`, `of`, `wrote`, `sent` the threads;
`part` how much of each block's local file there is, which a later PUT of the same block cuts to nothing;
`session` and `got` the repository's ends. `Joined` is the hundred `pthread_join` calls on ids that are
unset or of detached threads: they may return at any time, and crash or hang otherwise (`ClientEnds`, or no
step). Main's connection is the GET, which stays in `"asked"` until somebody sends a newline.
What the repository does with a block after `recv_file` is in `DataRepository`.

### FileRegistry

The list grows at its end, one record at a time, at most one record per buffer; a record's blocks
may be released; the list may jam for good once it has a record; the process may end.
`MetadataServer` implements it with `entries <- files`, `jammed <- PermitLost`, `alive <- up`.

## 3. Runs

| run | instance | question |
|---|---|---|
| `database` | 2 threads, 2 files, 1 repository, at most 1 record | what names in buffers, strtok's position and the semaphore do over all interleavings |
| `registry` | 2 threads, 1 file, 2 repositories, at most 2 records | no record is lost, doubled or made without blocks; refinement of `FileRegistry`. Two repositories, because with an odd number a REMOVE ends the process |
| `permit_returns` | 2 threads, 1 file, 1 repository, at most 2 records | does the semaphore come back, under fairness |
| `no_repositories` | 2 threads, 2 files, no repository | does the database stay in service, under fairness, when PUTs divide by zero |
| `division` | sizes 0 to 31; 1, 2, 3 and 7 repositories, and two in another order | where blocks are, which bytes are lost, what the client asks for |
| `startup` | 3 repositories, 6 answers of up to 2 files and 2 blocks | which list the server serves with, what it keeps of the reports, does it get to serve |
| `repository` | 2 sessions; 2 blocks of one file, 1 of another and 1 of a hidden one; any number of runs | directory, `.db` file, list and semaphore over crashes and restarts; refinement of `BlockStore` |
| `channel` | one client, up to 3 lines unread for GETs, REMOVEs and answers of more lines | which answer is read for which request; what the end of either side does |
| `transfers` | 2 threads, 2 blocks of 2 buffers, one GET | when transfers end, when a block arrives in part, whether a GET is answered |
| `permit_lost`, `get_wrong_file`, `remove_without_name` | 1 thread, 2 files | one sentence of the code's comments each, refuted (section 5) |

What the passing runs show of the server's sessions and of the division:

* `MutualExclusion`: between `sem_wait` and `sem_post` there is one thread, also after a permit was lost.
* `TokensAreCurrent`: a file name or the argument behind it that strtok still has to give out is in a request whose
  own thread has not asked for it yet. Threads take each other's tokens, but none takes a *name in its place* out of a
  request that was answered. It does not say that the position is current: behind the last token it stays in a buffer that
  answers overwrite, and what another thread gets from there may be a piece of an answer (`Elsewhere`).
* `NamesFade`: a stored name is readable only while its buffer serves a request for that name: after
  the reply no file is known by the name it was stored under.
* `OneEntryPerBuffer`: no two records point into one buffer. It holds *because* a second PUT finds the
  first record equal to itself, which is the case that loses the permit.
* `BlocksBeforeRecord`: `append_block` takes the semaphore once per block, before `add_file` takes it; no
  record is visible without all its blocks.
* `WaitersAreServed`: with no repository online a PUT ends the process before it holds the permit, so it can neither
  lose it nor leave a record; while the process runs and some thread waits, one operation after the other completes.
* `FilesAppendOnly`: no interleaving of PUTs loses, moves or renames a record.
* `PermitLossIsFinal`: after the early return of `add_file` the list never changes again.
* `HitExplained`: when a search succeeds, record and key are one pointer, which a REMOVE gets only from
  another session's token; or one of them is a token from behind a request; or the threads whose buffers are compared
  handle requests for the same file right now; or the key is another thread's token and neither buffer holds a name
  any more (`MatchExplained`). So a REMOVE of a client on its own finds nothing, and one that took another session's
  token can free the blocks of that session's record.
* `PermitReturns`: an operation that holds the semaphore gives it back, loses it, or the process ends.
* `NoOverlap`, `LostBytes`: blocks are disjoint and within the file; the bytes in none are exactly
  those at the boundaries and the remainder (when there is a byte for each repository).
* `EndlessTransfers`: `end - start` wraps around, and `send_file` never ends, exactly for the blocks after
  the first of a file with fewer bytes than there are repositories.
* `PutAsks`: the loop of a PUT sends the first, seventh, ... block and nothing else right.
* `GetAsks`: the loop of a GET asks for exactly the blocks, in order.

Of start-up:

* `ListIsOnline`: although the loop reads `next` out of freed nodes, it tries every repository, and the list is who
  is online, in the order of `rep.conf`, with the right `size`; clients get that list, and end over an empty one.
* `OneFileKnown`: of all the reports the server keeps one record, without blocks: strtok stays in the copy of
  the first block's name, `append_block`'s result is dropped, and later answers rename the record.
* `StartProceeds`: the server serves or ends, unless a repository that accepted the connection does not answer.

Of a repository:

* `FirstRunStoresNothing`: every PUT of the run that makes the directory ends the process.
* `OneStorePerRun`, `OneRangeKnown`: in each later run one PUT gets into the list, and of all blocks that
  are listed the range of that one at most is known; the lines of the `.db` file bring none back.
* `JamExplained`: the permit is lost only to a PUT that found its name, in a record of this run or of the scan.
* `ListCoversDirectory`: while it serves, every file is listed, or a PUT is on its way to list it, or the scan of this
  run passed over it; a restart lists again what a crash left, but for hidden files, which are listed by the run
  that stored them only.
* `ListedHasFile`: a listed block has its file, unless a QUIT freed another record of the same block.
* `StoreSpec`: all of it implements `BlockStore`.

Of the connections:

* `Backlog`: the client is behind by one line for each GET or REMOVE so far and for each line behind the first of an
  answer, and never catches up.
* `InStep`: up to the first GET or REMOVE, that one included, and while no answer has had a second line, the answer that
  is read is that of its own request.
* `OrderlyLeavesServer`: a client that leaves with QUIT, has sent no GET or REMOVE and got no answer of two lines does not end the
  server; `DeathEndsServer`: one that goes without QUIT does, unless its session waits for a lost permit.
* `AnswerComes`: every request gets an answer (perhaps another's), or its session waits for a lost permit.
* `TruncatedExplained`: a block is recorded in part only if the client's process ended, not because a later PUT
  cut the local file.
* `GetIsNeverAnswered`: a GET of a block returns only when the repository's process ends; and if the
  client goes instead, the repository ends too.
* `TransferEnds`: after the last PUT every transfer ends, but for threads that an initialisation of the semaphore has
  forgotten, files shorter than was said, and processes that ended.

**Bounds.** *Server.* The view `Alive` identifies the states in which the process has ended. Two threads are every pair of interleaved sessions; a stack is reused by any number of later
sessions, and each session sends any number of requests, so long histories are in. Two files tell "the
same name" from "another"; they matter where names are compared (`database`), and there one record is enough, since
a search looks at one record at a time. `MaxFiles` (in `MCNext`, the only bound on behaviour) is 2 where the list matters: a first record,
a tail and a search that passes one entry. One or two repositories decide whether a
REMOVE survives. The record of stray names (`Elsewhere`) can be linked too, so both places in the
list occur with every kind of name.
*Division.* Seven repositories are the first number for
which the loop of a PUT comes back into step; 64 and 8 stand for 2^64 and 2^8, with ids below 8 and offsets on
both sides of it, and sizes below half the word as `strtol` gives them.
*Start-up.* Three nodes are a first, a middle and a last one to delete, in every combination; two files
tell a record renamed by a later answer from one that was not.
*Repository.* Two sessions are the overlap of two PUTs, of a PUT and a QUIT, and of either with a parse; two blocks of one file
make the even number that a QUIT survives, a third block of another file a second record, a fourth is of a file that the scan
does not list. `DiskBound`, a constraint, takes no step from states with more than three files (the hidden one with
two others, or three that are not) or more than one line in the `.db` file, which no run reads for a range. The number
of runs, requests and crashes has no bound; the state space is finite because a run can extend `localpath` only
while PUTs are on their way.
*Channel.* `MaxBehind` (in `Send` and `More`) is 3: one GET, REMOVE or second line out of step, and then further ones, or
an answer of four lines; other requests have no bound.
*Transfers.* Two threads are one that sleeps and one that goes on, or two that share a local file; two buffers
of `sendfile` make a block that can be cut in the middle.

**Fairness.** `Fairness` of `MetadataServer` is weak fairness of each thread's steps on the database while the process
runs: the operating system runs every runnable thread, and these steps block on nothing but the
semaphore. Nothing is assumed of clients (they may be silent), and the semaphore
is not assumed to be fair: `sem_wait` is a step of the waiting thread that others may pre-empt for ever. (So
`WaitersAreServed` says that *some* operation completes, not that each does.)
`Startup`: `main`'s own steps, as `connect` always returns; not the answers of repositories.
`ControlChannel`: the client's reads and the session's steps when there is something to read; not what the user
types, nor that a lost permit comes back.
`Transfers`: each thread's steps, those of the repository's thread for its connection, and `sem_wait` of a thread that the semaphore knows to sleep;
not that a user stops typing (`TransferEnds` says "after the last PUT"), nor that a forgotten sleeper wakes.

`CHECK_DEADLOCK FALSE` is in every configuration: processes end for good in all of the models, and a
client may have left.

## 4. Proofs

Every safety invariant and action property of the passing runs is proved, for every value of the constants that the
named assumption of its module allows; so are the two refinements, and three of the seven liveness properties.

*The hypothesis `GoesOn`.* The prover does not evaluate ENABLED. Each module with fairness therefore has a `GoesOn`, which
says in which states the fair actions are enabled: their guards, on the side that a reader can check. The
theorems about liveness assume `[]GoesOn`, the others do not. That `GoesOn` holds in every reachable state of the
instances is TLC's part: add it to the INVARIANTS of `Startup.cfg`, `ControlChannel.cfg`, `Transfers.cfg` and
`MetadataServer_live.cfg`.

`MetadataServerProofs` is about any set of threads, files and any number of repositories
(`ConstantsAssumption`).

* `Inductive`: `IInv` is inductive. Besides `TypeOK`, `MutualExclusion` and `OneEntryPerBuffer`
  it has `ControlOK` (what the list position is at each control point; at `Link` it is the tail) and
  `KeyIsFresh` (while `add_file` searches and links, no record passed so far has its name in the buffer
  of the key). The last two are what the properties lack: that
  `get_tail`'s result is still the tail when it is used rests on mutual exclusion and on `ControlOK`,
  and `OneEntryPerBuffer` on a comparison of a buffer with itself being always TRUE, which `KeyIsFresh` carries from
  the search to the link.
* `Typing`, `Exclusion`, `OneEntry` are its parts; `AppendOnly` and `LossIsFinal` are action properties
  that follow from it.
* `Names`: `NamesInv` (`TokensAreCurrent` and `NamesFade` together) is inductive relative to `IInv`;
  neither is without the other, since strtok writes a terminator into the buffer its position is in.
  `TokensCurrent` and `NamesDoFade` are its parts.
* `BlocksFirst`: what `BlocksBeforeRecord` lacks is that a thread outside the database has no blocks of its own, and that
  a PUT appends no more than one for each repository (`BlocksOf`).
* `Keys`, `Hits`: a key that its thread took itself stays in its buffer to the end of the search, whatever
  others cut (`KeysInv`, inductive relative to `NamesInv`). Without it a thread's own key could match a buffer that holds
  no name, which is left for another's token only.
* `Refinement`: every behaviour satisfies `RegistrySpec`.

`PermitProofs` is about the permit of the semaphore, under the same assumption. `Walks`: a walk is never more than one
behind the list's end. From it `HolderMoves`: between `sem_wait` and `sem_post` the holder can always take a step, for a record
either matches or differs, whatever is in the buffers. `StepsLeft` is the rank of an operation: blocks to append, records to
pass, and the few steps to `sem_post`; `HoldShrinks` says that it falls with each step of the holder and that no other thread can
raise it, which is mutual exclusion once more: the list grows under the permit only. `HoldGoesOn` is one round of
`PermitReturns`, from rank `n` to a lower one. `LossExplained` says who loses the permit: a PUT whose `add_file` finds a record, for
one of the reasons of `HitExplained`, and nobody else.

`BlockDivisionProofs` is about any word size, list and file size that `BlockAssumption` allows.
`Division` gives the closed form of every block (`i * block_size`), from which `NoOverlaps`,
`BytesLost` and `Endless` follow by arithmetic (quotient, remainder, monotonic product); sizes below half the word are needed
because sums would wrap around. `AnswerInductive` says which tokens of the answer are left after any number of
rounds of either loop of the client (`GetInv`, `PutInv`): of a GET five a round, of a PUT six.
`DivisionTyping` needs it too, since the GET loop's tokens are of the right type only because it is in step.

`DataRepositoryProofs` is about any sessions, finite set of blocks and names (`RepositoryAssumption`). `StoreInv` adds
to the properties: what each session has at its control point (`ThreadOK`), who has the permit or lost it (`Permit`),
what there is between runs (`RunOK`), that a run has one record of its own at most and then an extended path (`OwnOK`), whose range is known
(`RangeOK`), and what the scan has listed or passed over so far (`ScanOK`). `ListCoversDirectory` needs `ScanOK` for the
step that begins to serve, `OneStorePerRun` needs that a PUT in `Wait` has already extended the path. `Refinement`: every behaviour satisfies `StoreSpec`; a PUT that copied its path when nobody had extended it
holds a grant, so its `fopen` may come after another's record.
`JamLasts`: a permit that was lost stays lost to the end of the run; nothing is listed or freed after it.

`StartupProofs` is about any `rep.conf` of distinct repositories and any answers (`ConfAssumption`). `ListInv` says, at
each place of the loop, which repositories have been passed and that the list is those of them that are online followed by those
not yet tried; after a `delete_node` that `freed_next` is the first of the latter. `DatabaseInv` follows strtok through
an answer. `OnlineList` and `OneFile` are the two properties. `ConnectsOnce` and the rank `StepsLeft` (the lines to come, and where main is
in this one) say that pointers into freed nodes never lead back: each step of main leaves fewer (`StartShrinks`), and `StartGoesOn` is
one round of `StartProceeds`.

`ControlChannelProofs` is about any bound (`BoundAssumption`): the inductive invariant counts lines and answers
and says which request the first of them is for, as long as nothing was sent or answered in two lines; that a login and the
list are answered in one (`Orderly`) needs that they are first in line when they are handled. `BacklogGrows`, `AnswersInStep`, `OrderlyEnds` follow. For `RequestsAreAnswered` the same counts show that
while an answer is owed, the client has one to read or the server a line, and that reading one is never a step back.
`DeathIsFatal`: after the client's end at most two answers are sent, the second to a connection that refuses it.

`TransfersProofs` is about any threads, blocks and size (`TransferAssumption`). Its invariant
relates each session of the repository to the thread at its other end; `Truncation` and `GetOnlyEnds` (the
action part of `GetIsNeverAnswered`) follow, and with `GoesOn` the whole of it (`GetNeverAnswered`).
`SleeperHasPoster` is an invariant of its own: initialising the semaphore under sleeping threads loses their wake-up, but never the permit they wait for.
For `TransferEnds` there are the rank `Left` (`TransfersGoForward`) and each stage of a transfer: the rounds of
`split_file` (`SplitGoesOn`), the connection, request and ack (`RequestServed`), the rounds of `sendfile` (`SendGoesOn`). They need that a thread that
waits for its ack has a request at the repository (`Asked`), and that there are no threads without the client.

*Model-checked only*: the liveness properties `PermitReturns`, `WaitersAreServed`, `StartProceeds` and `TransferEnds` as a whole. Their ranks (that of `PermitReturns` for `WaitersAreServed`, too), and the way from one
rank to a lower one, are proved for every rank; what is missing is the induction over the ranks, since the library's rule for it
takes an operator as a parameter, which no installed prover can instantiate, and for `TransferEnds` the wait in `sem_wait` besides. `GoesOn`, in
which ENABLED occurs, is confirmed by TLC only.

## 5. Where code and comments disagree

Each is a run with one property and a counterexample.

| run | what the code says | what it does |
|---|---|---|
| `permit_lost` | the semaphore handles concurrency (`file_db.c:14`) | the second PUT of a session keeps it, and calls a new name present (`file_db.c:222`); every later LS, PUT, GET and REMOVE of anyone blocks |
| `get_wrong_file` | the file if it is present, NULL otherwise (`file_db.c:189`) | NULL for stored files after their session's next message; in a session that has stored a file, that file for any name |
| `remove_without_name` | removes the file from the repositories (`client.c:27`) | the name sent to them is empty: the reply was crafted over it |

What else differs from what a reader would expect is stated by passing properties, which say exactly what
holds instead: bytes that are in no block (`LostBytes`), blocks that are never sent (`PutAsks`), endless transfers (`EndlessTransfers`),
reports that are dropped (`OneFileKnown`), answers out of step (`Backlog`), a GET that waits for ever (`GetIsNeverAnswered`),
a first run that stores nothing (`FirstRunStoresNothing`), one PUT per run (`OneStorePerRun`). `remove_file` returns TRUE at
the end of the list too (`file_db.c:242`); `WalkDone` has it.

## 6. Not modelled

* *Input and output*: the prompt, colours, `print_list`, the strings of the `craft_*` functions. A short line sent in two parts, and
  messages merged into one `recv`, are left out of all modules.
* *Keys* (`utils/common.c`): `crypt` and comparisons without state; a repository accepts every key, as `ParseKey` says of `check_key`,
  and a login is a free choice.
* *TRANSFER and DR_TRANSFER* beyond the end of the process that they cause, and so `delete_entry_file_db` and `transfer_block`, which
  come after it. `remove_block` and `is_a_block_of_file` have no caller.
* *File descriptors*: sessions that end never close theirs; the bound is the operating system's.
* *Build files and sample data* have no behaviour.

What could follow: one module that composes a client, `MetadataServer` and two repositories for a PUT followed by a GET. With what
the properties above say, no block can come back from a repository (`GetIsNeverAnswered`), so that it would state little that
they do not.
