---------------------------- MODULE DataRepository ----------------------------
(***************************************************************************)
(* One data repository (data_repository/data_repository.c): its sessions,  *)
(* one dr_routine thread per connection, over                              *)
(*                                                                         *)
(*   - the directory ./<id>, with one file for each block it keeps;        *)
(*   - the database file ./<id>.db, with a line for each block;            *)
(*   - the list of Grid_File records in memory and its semaphore           *)
(*     (utils/file_db.c);                                                  *)
(*   - localpath, the directory's path, one buffer for the process.        *)
(*                                                                         *)
(* Directory and database file survive the end of the process; a new run   *)
(* scans the directory before it serves and passes over the hidden files.  *)
(* localpath is "./<id>" except in the run that makes the directory, where *)
(* ".db" is appended to it and stays.  Every PUT copies localpath for the  *)
(* path of its block, appends the name of its file to localpath for good,  *)
(* and makes a record that has localpath itself for a name.                *)
(***************************************************************************)
EXTENDS Integers, Sequences, FiniteSets

CONSTANTS Threads,   \* threads that serve connections
          Blocks,    \* names of blocks: "<file>_<id>"
          Names,     \* the part of such a name before the first "_"
          NameOf,    \* that part of each block name
          Hidden,    \* the names that begin with "."
          Local,     \* marks a record whose name pointer is localpath
          NoBlock    \* no block

ASSUME RepositoryAssumption ==
    /\ NameOf \in [Blocks -> Names]
    /\ Hidden \subseteq Names
    /\ Local \notin Names
    /\ NoBlock \notin Blocks
    /\ IsFiniteSet(Blocks)

VARIABLES made,       \* the directory exists
          dir,        \* the blocks that have a file in it
          lines,      \* the blocks with a line in the database file
          phase,      \* of the process: "down", "scan", "serve"
          todo,       \* directory entries readdir has not returned yet
          ignored,    \* those this run has passed over
          fresh,      \* this run made the directory: localpath is "./<id>.db"
          localpath,  \* the names PUTs have appended to localpath
          list,       \* the Grid_File list, from database->head on
          sem,        \* value of the semaphore of file_db.c
          saved,      \* where strtok's position is
          pc,         \* where each thread is
          cmd,        \* the request it handles
          arg,        \* the block of its PUT, and whether the range is that block's
          at          \* the record its db_destroyer is at

disk     == <<made, dir, lines>>
scan     == <<todo, ignored>>
memory   == <<fresh, localpath, list, sem>>
sessions == <<saved, pc, cmd, arg, at>>
vars == <<made, dir, lines, phase, todo, ignored, fresh, localpath, list, sem,
          saved, pc, cmd, arg, at>>

-------------------------------------------------------------------------------
\* Block_File: "told" when start and end are those its PUT gave.
Block_File == [block : Blocks, told : BOOLEAN]

NoArg == [block |-> NoBlock, told |-> FALSE]

\* Grid_File: its name, and whether db_destroyer has freed its blocks.
Grid_File == [name : Names \cup {Local}, blocks : Seq(Block_File), freed : BOOLEAN]

\* strtok's position, one for the process: in the request of a thread, where its own
\* strtok calls have brought it and the next will find it, or anywhere else.
Elsewhere == "elsewhere"
Cursor    == Threads \cup {Elsewhere}

Idle    == "idle"     \* no session
Recv    == "recv"     \* in recv_message
Half    == "half"     \* still in recv_message, with a GET that has no newline
Gone    == "gone"     \* the peer has closed, a nack is on its way to it
Parse   == "parse"    \* before the strtok calls for the arguments
Extent  == "extent"   \* before those for start and end of a PUT
Copy    == "copy"     \* before the ack of the PUT, and strdup(localpath)
Open    == "open"     \* has the path of a block in the directory
Astray  == "astray"   \* has a path that leads nowhere
Receive == "receive"  \* in recv_file
Extend  == "extend"   \* before the name is appended to localpath
Wait    == "wait"     \* in sem_wait
Hold    == "hold"     \* has the semaphore
Log     == "log"      \* before append_block_to_filedb
Stuck   == "stuck"    \* in the sem_wait of get_file, after add_file kept the permit
PCs == {Idle, Recv, Half, Gone, Parse, Extent, Copy, Open, Astray, Receive, Extend, Wait, Hold,
        Log, Stuck}
Commands == {"none", "put", "update_map", "remove", "quit"}

\* Type invariant of the repository's disk, memory and sessions.
TypeOK ==
    /\ made \in BOOLEAN
    /\ dir \in SUBSET Blocks
    /\ lines \in SUBSET Blocks
    /\ phase \in {"down", "scan", "serve"}
    /\ todo \in SUBSET Blocks
    /\ ignored \in SUBSET Blocks
    /\ fresh \in BOOLEAN
    /\ localpath \in Seq(Names)
    /\ list \in Seq(Grid_File)
    /\ sem \in Nat
    /\ saved \in Cursor
    /\ pc \in [Threads -> PCs]
    /\ cmd \in [Threads -> Commands]
    /\ arg \in [Threads -> Block_File \cup {NoArg}]
    /\ at \in [Threads -> Nat]

Serving == phase = "serve"
At(t, l) == Serving /\ pc[t] = l
Goto(t, l) == pc' = [pc EXCEPT ![t] = l]

\* The request is over, or the session is: its local variables are gone.
Leave(t, l) ==
    /\ Goto(t, l)
    /\ cmd' = [cmd EXCEPT ![t] = "none"]
    /\ arg' = [arg EXCEPT ![t] = NoArg]
    /\ at' = [at EXCEPT ![t] = 0]

CRITICAL_SECTION_SIZE == 1

Threads_at(x) == [t \in Threads |-> x]

\* What the memory of the process holds before a run does not matter.
Init ==
    /\ made = FALSE /\ dir = {} /\ lines = {}
    /\ phase = "down" /\ todo = {} /\ ignored = {} /\ fresh = FALSE
    /\ list = << >> /\ sem = CRITICAL_SECTION_SIZE /\ localpath = << >>
    /\ saved = Elsewhere /\ pc = Threads_at(Idle) /\ cmd = Threads_at("none")
    /\ arg = Threads_at(NoArg) /\ at = Threads_at(0)

\* The end of the process: SIGINT, a fatal error, a crash.  The disk stays, and
\* the next run begins with memory as init_db leaves it.
Halt(d) ==
    /\ dir' = d /\ UNCHANGED <<made, lines>>
    /\ phase' = "down" /\ todo' = {} /\ ignored' = {} /\ fresh' = FALSE
    /\ list' = << >> /\ sem' = CRITICAL_SECTION_SIZE /\ localpath' = << >>
    /\ saved' = Elsewhere /\ pc' = Threads_at(Idle) /\ cmd' = Threads_at("none")
    /\ arg' = Threads_at(NoArg) /\ at' = Threads_at(0)

-------------------------------------------------------------------------------
\* start_dr_routine and check_database_and_update.  A directory that was not
\* there is made, with an empty database file.
Start ==
    /\ phase = "down"
    /\ phase' = "scan"
    /\ made' = TRUE
    /\ fresh' = ~made
    /\ todo' = dir
    /\ UNCHANGED <<dir, lines, ignored, localpath, list, sem, sessions>>

\* get_file, add_file and append_block for one directory entry.  The path given
\* to get_block_dimensions_from_db_file is the directory's: nothing can be read
\* from it, and start and end are what malloc returned.
new_block(b, told) == [block |-> b, told |-> told]
new_file(n, block) == [name |-> n, blocks |-> <<block>>, freed |-> FALSE]

ReadRange_db(b) == b \in lines   \* Variant: read from the database file.
ReadRange(b) == FALSE

append_block_lost(i, block) == list   \* Variant: its result is ignored.
append_block(i, block) == [list EXCEPT ![i].blocks = Append(@, block)]

ScanEntry(b) ==
    /\ phase = "scan"
    /\ b \in todo
    /\ NameOf[b] \notin Hidden
    /\ todo' = todo \ {b}
    /\ LET block == new_block(b, ReadRange(b))
       IN  \/ \E i \in 1..Len(list) :
                 list[i].name = NameOf[b] /\ list' = append_block(i, block)
           \/ /\ \A i \in 1..Len(list) : list[i].name # NameOf[b]
              /\ list' = Append(list, new_file(NameOf[b], block))
    /\ UNCHANGED <<disk, phase, ignored, fresh, localpath, sem, sessions>>

\* The entry begins with ".", or its file cannot be opened: it is not listed.
IgnoreEntry(b) ==
    /\ phase = "scan"
    /\ b \in todo
    /\ todo' = todo \ {b}
    /\ ignored' = ignored \cup {b}
    /\ UNCHANGED <<disk, phase, memory, sessions>>

ScanDone ==
    /\ phase = "scan"
    /\ todo = {}
    /\ phase' = "serve"
    /\ UNCHANGED <<disk, scan, memory, sessions>>

-------------------------------------------------------------------------------
Accept(t) ==
    /\ At(t, Idle)
    /\ Goto(t, Recv)
    /\ UNCHANGED <<disk, phase, scan, memory, saved, cmd, arg, at>>

\* A request: recv_message and the first strtok call.
Begin(t, c, a) ==
    /\ At(t, Recv)
    /\ Goto(t, Parse)
    /\ cmd' = [cmd EXCEPT ![t] = c]
    /\ arg' = [arg EXCEPT ![t] = a]
    /\ saved' = t
    /\ UNCHANGED <<disk, phase, scan, memory, at>>

HandlePut(t)       == \E b \in Blocks : Begin(t, "put", new_block(b, TRUE))
HandleUpdateMap(t) == Begin(t, "update_map", arg[t])
HandleRemove(t)    == Begin(t, "remove", arg[t])

\* The GET of a client ends without a newline: recv_message waits for more.
HandleGet(t) ==
    /\ At(t, Recv)
    /\ Goto(t, Half)
    /\ UNCHANGED <<disk, phase, scan, memory, saved, cmd, arg, at>>

\* QUIT: db_destroyer follows head->next.  It removes every record but the last.
HandleQuit(t) ==
    /\ At(t, Recv)
    /\ list # << >>
    /\ \/ Len(list) = 1 /\ Goto(t, Idle) /\ UNCHANGED <<cmd, at>>
       \/ /\ Len(list) > 1
          /\ Goto(t, Wait)
          /\ cmd' = [cmd EXCEPT ![t] = "quit"]
          /\ at' = [at EXCEPT ![t] = 1]
    /\ UNCHANGED <<disk, phase, scan, memory, saved, arg>>

\* The peer closed: what the last answer left in buf is no command, and a nack
\* is sent to nobody.
HandleEof(t) ==
    /\ At(t, Recv)
    /\ Goto(t, Gone)
    /\ UNCHANGED <<disk, phase, scan, memory, saved, cmd, arg, at>>

\* The arguments, one strtok(NULL, ...) for each.  If another session has moved the
\* position since strtok(buf, ...), what a call returns is a piece of another request,
\* of an answer or of a block name, or it is NULL.  (Key and name are one step, and so
\* are start and end: where the position moves within such a pair makes no difference.)
ParseOwn(t)      == saved = t /\ UNCHANGED arg
ParseMixed(t, B) ==
    /\ saved # t
    /\ \E b \in B : arg' = [arg EXCEPT ![t] = new_block(b, FALSE)]

ParseName(t) ==
    /\ At(t, Parse)
    /\ cmd[t] = "put"
    /\ ParseOwn(t) \/ ParseMixed(t, Blocks)
    /\ saved' = IF saved = t THEN t ELSE Elsewhere
    /\ Goto(t, Extent)
    /\ UNCHANGED <<disk, phase, scan, memory, cmd, at>>

ParseRange(t) ==
    /\ At(t, Extent)
    /\ ParseOwn(t) \/ ParseMixed(t, {arg[t].block})
    /\ saved' = Elsewhere
    /\ Goto(t, Copy)
    /\ UNCHANGED <<disk, phase, scan, memory, cmd, at>>

\* check_key accepts every key: crypt returns one buffer for the key and the secret,
\* which is compared with itself (common.c:65-79).
ParseKey(t) ==
    /\ At(t, Parse)
    /\ cmd[t] \in {"update_map", "remove"}
    /\ saved' = Elsewhere
    /\ Goto(t, Wait)
    /\ UNCHANGED <<disk, phase, scan, memory, cmd, arg, at>>

-------------------------------------------------------------------------------
\* PUT.  The ack, and the path of the block: <localpath>/<block name>, with localpath
\* as it is now.  The path is that of a file in the directory only while localpath
\* is the directory's.
AtDirectory_fresh  == localpath = << >>   \* Variants: ".db" was taken off again;
AtDirectory_always == ~fresh              \* nobody else has extended the path.
AtDirectory == ~fresh /\ localpath = << >>

CopyPath(t) ==
    /\ At(t, Copy)
    /\ Goto(t, IF AtDirectory THEN Open ELSE Astray)
    /\ UNCHANGED <<disk, phase, scan, memory, saved, cmd, arg, at>>

\* fopen in recv_file, whatever has become of localpath.  An older file of that name
\* is cut to nothing.
OpenBlock(t) ==
    /\ At(t, Open)
    /\ dir' = dir \cup {arg[t].block}
    /\ Goto(t, Receive)
    /\ UNCHANGED <<made, lines, phase, scan, memory, saved, cmd, arg, at>>

\* recv_file returns: all the bytes are in the file, or recv returned 0 or -1
\* before.  (After a QUIT the file may not be in the directory any more.)
recv_file(t) ==
    /\ At(t, Receive)
    /\ Goto(t, Extend)
    /\ UNCHANGED <<disk, phase, scan, memory, saved, cmd, arg, at>>

\* get_file_name_from_block_name, which leaves strtok in a copy of the block's name,
\* and the two strncat calls on localpath.  (Two at once: some order of the names;
\* "./<id>/" is the directory as well.)
NameBlock(t) ==
    /\ At(t, Extend)
    /\ localpath' = Append(localpath, NameOf[arg[t].block])
    /\ saved' = Elsewhere
    /\ Goto(t, Wait)
    /\ UNCHANGED <<disk, phase, scan, fresh, list, sem, cmd, arg, at>>

sem_wait_ignored(t) ==   \* Variant: sem_wait returned early.
    /\ At(t, Wait)
    /\ sem' = sem - 1
    /\ Goto(t, Hold)
    /\ UNCHANGED <<disk, phase, scan, fresh, localpath, list, saved, cmd, arg, at>>

sem_wait(t) ==
    /\ At(t, Wait)
    /\ sem > 0
    /\ sem' = sem - 1
    /\ Goto(t, Hold)
    /\ UNCHANGED <<disk, phase, scan, fresh, localpath, list, saved, cmd, arg, at>>

\* The body of an operation has ended: sem_post, and where the thread goes on.
Holds(t, c) == At(t, Hold) /\ cmd[t] = c
Release(t) ==
    /\ sem' = sem + 1
    /\ UNCHANGED <<made, lines, phase, scan, fresh, localpath, saved>>

\* find_file with localpath for a key: the record of a PUT of this run has the
\* same pointer for a name, that of an older block the name alone.
Present_loaded == \E i \in 1..Len(list) : localpath = <<list[i].name>>
Present_any    == localpath # << >>   \* Variants: a name copied; any name.
Present ==
    \E i \in 1..Len(list) : list[i].name = Local \/ localpath = <<list[i].name>>

add_file_present(t) ==
    /\ Holds(t, "put")
    /\ Present
    /\ Goto(t, Stuck)
    /\ UNCHANGED <<disk, phase, scan, memory, saved, cmd, arg, at>>

add_file(t) ==
    /\ Holds(t, "put")
    /\ ~Present
    /\ list' = Append(list, new_file(Local, arg[t]))
    /\ Release(t)
    /\ Goto(t, Log)
    /\ UNCHANGED <<dir, cmd, arg, at>>

append_block_to_filedb(t) ==
    /\ At(t, Log)
    /\ lines' = lines \cup {arg[t].block}
    /\ Leave(t, Idle)
    /\ UNCHANGED <<made, dir, phase, scan, memory, saved>>

-------------------------------------------------------------------------------
\* update_map: file_db_to_string, the answer, and the end of the thread.
file_db_to_string(t) ==
    /\ Holds(t, "update_map")
    /\ \A i \in 1..Len(list) : ~list[i].freed
    /\ Release(t)
    /\ Leave(t, Idle)
    /\ UNCHANGED <<dir, list>>

\* REMOVE: the last token still has the newline of the request, so no record is
\* found; the answer is ack.
remove_file(t) ==
    /\ Holds(t, "remove")
    /\ Release(t)
    /\ Leave(t, Recv)
    /\ UNCHANGED <<dir, list>>

\* _remove_file on the record db_destroyer is at.  The loop frees a block, goes on
\* to the next and then, by its own step, to the one behind: of every two blocks it
\* removes the file of the first.
Purged_next(i) ==   \* Variant: the pointer has moved on.
    {list[k].blocks[1].block : k \in {j \in 1..Len(list) : j = i + 1}}
Purged(i) == {list[i].blocks[k].block : k \in {j \in 1..Len(list[i].blocks) : j % 2 = 1}}

\* Behind the last of an odd number of blocks that step follows NULL; blocks that
\* were freed before are freed again: either way the process ends.
Survives(i) == ~list[i].freed /\ Len(list[i].blocks) % 2 = 0

db_destroyer(t) ==
    /\ Holds(t, "quit")
    /\ Survives(at[t])
    /\ dir' = dir \ Purged(at[t])
    /\ list' = [list EXCEPT ![at[t]].freed = TRUE]
    /\ Release(t)
    /\ \/ /\ at[t] + 1 < Len(list)
          /\ Goto(t, Wait)
          /\ at' = [at EXCEPT ![t] = @ + 1]
          /\ UNCHANGED <<cmd, arg>>
       \/ at[t] + 1 >= Len(list) /\ Leave(t, Idle)

-------------------------------------------------------------------------------
\* The ends of the process that a session causes.  A missing token; a send or a
\* recv on a connection that is gone; fopen failed in recv_file.
NullToken(t)      == Serving /\ pc[t] \in {Parse, Extent} /\ saved # t
ConnectionLost(t) == Serving /\ pc[t] \in {Recv, Half, Gone, Copy, Hold}
OpenFails(t)      == At(t, Astray)

\* A GET that is answered, because its peer is gone, asks for "<file>_<id>"; the
\* list has "./<id>/<file>_<id>".  What get_block returns is used unchecked.
GetUnknown(t) == At(t, Half)

\* TRANSFER and DR_TRANSFER clear the buffer their tokens are in, and go on with
\* what is there then: a block that is not found, a file name that is empty.
TransferLost(t) == At(t, Recv)

\* QUIT on an empty list; update_map after the blocks of a record were freed.
NullHead(t)     == At(t, Recv) /\ list = << >>
UseAfterFree(t) == Holds(t, "update_map") /\ \E i \in 1..Len(list) : list[i].freed

Fault(t) ==
    /\ \/ NullToken(t) \/ ConnectionLost(t) \/ OpenFails(t)
       \/ GetUnknown(t) \/ TransferLost(t) \/ NullHead(t) \/ UseAfterFree(t)
    /\ Halt(dir)

\* The process ends in _remove_file, after it has removed files.
DestroyerFault(t) ==
    /\ Holds(t, "quit")
    /\ ~Survives(at[t])
    /\ \E S \in {{}, Purged(at[t])} : Halt(dir \ S)

close_server == phase # "down" /\ Halt(dir)

-------------------------------------------------------------------------------
Handle(t) ==
    \/ Accept(t) \/ HandlePut(t) \/ HandleUpdateMap(t) \/ HandleRemove(t)
    \/ HandleGet(t) \/ HandleQuit(t) \/ HandleEof(t)
    \/ ParseName(t) \/ ParseRange(t) \/ ParseKey(t)

Store(t) ==
    \/ CopyPath(t) \/ OpenBlock(t) \/ recv_file(t) \/ NameBlock(t)
    \/ sem_wait(t) \/ add_file(t) \/ add_file_present(t) \/ append_block_to_filedb(t)
    \/ file_db_to_string(t) \/ remove_file(t) \/ db_destroyer(t)

Next ==
    \/ Start \/ ScanDone \/ close_server
    \/ \E b \in Blocks : ScanEntry(b) \/ IgnoreEntry(b)
    \/ \E t \in Threads : Handle(t) \/ Store(t) \/ Fault(t) \/ DestroyerFault(t)

Spec == Init /\ [][Next]_vars

-------------------------------------------------------------------------------
PutsOwn  == {i \in 1..Len(list) : list[i].name = Local}
Live     == {i \in 1..Len(list) : ~list[i].freed}
Listed(i) == {list[i].blocks[k].block : k \in 1..Len(list[i].blocks)}

\* A PUT of block b has opened its file and has not yet got into the list.
Storing(t, b) ==
    /\ cmd[t] = "put" /\ arg[t].block = b
    /\ pc[t] \in {Receive, Extend, Wait, Hold, Stuck}

\* The semaphore is taken and no thread is left that will post it.
PermitLost == sem = 0 /\ \A t \in Threads : pc[t] # Hold

\* The run that makes the directory (data_repository.c:325-331) leaves it empty,
\* however many clients send it blocks: ".db" stays at the end of localpath, so
\* every PUT of that run ends the process.
FirstRunStoresNothing ==
    fresh => dir = {} /\ lines = {} /\ list = << >> /\ localpath = << >>

\* One PUT in a run gets into the list (data_repository.c:281-291): the name of
\* its record is localpath, which is the key of every later search as well.
OneStorePerRun ==
    /\ Cardinality(PutsOwn) <= 1
    /\ PutsOwn # {} => localpath # << >>

\* Of all the blocks the repository lists, it knows the range of at most one:
\* that of the PUT of this run.  The lines of the database file do not bring the
\* others back: the file that is read for them is the directory
\* (data_repository.c:360).
OneRangeKnown ==
    \A i, j \in 1..Len(list) :
        \A k \in 1..Len(list[i].blocks), l \in 1..Len(list[j].blocks) :
            list[i].blocks[k].told /\ list[j].blocks[l].told => i = j /\ k = l

\* The permit is lost only to a PUT of a name that is known: another PUT of this
\* run, or a file that an earlier run stored (file_db.c:226, "file already
\* exists", data_repository.c:286-291).  That PUT never returns.
JamExplained ==
    PermitLost =>
        \E t \in Threads :
            /\ pc[t] = Stuck
            /\ \/ PutsOwn # {}
               \/ \E i \in 1..Len(list) : list[i].name = NameOf[arg[t].block]

\* While the repository serves, no file in the directory is unknown to the list, but
\* for those of PUTs on their way to it, stuck ones included, and for those the scan
\* of this run has passed over: the hidden ones (data_repository.c:342) and those it
\* could not open (347-353).  A hidden file is listed only where this run stored it.
Covered ==
    Serving => \A b \in dir \ ignored :
        \/ \E i \in 1..Len(list) : b \in Listed(i)
        \/ \E t \in Threads : Storing(t, b)

HiddenIsOwn ==
    \A i \in 1..Len(list) : \A b \in Listed(i) : NameOf[b] \in Hidden => i \in PutsOwn

ListCoversDirectory == Covered /\ HiddenIsOwn

\* A record whose blocks were not freed has the files of all of them, unless
\* db_destroyer freed another record of the same block: the one an earlier run
\* left when this run stored the block again (file_db.c:249-260).
ListedHasFile ==
    \A i \in Live : \A b \in Listed(i) \ dir :
        \E j \in (1..Len(list)) \ Live : b \in Listed(j)

\* The repository implements the abstract block store.
Run ==
    CASE phase = "down"                              -> "off"
      [] phase # "down" /\ fresh                     -> "first"
      [] phase # "down" /\ ~fresh /\ PutsOwn = {}    -> "open"
      [] phase # "down" /\ ~fresh /\ PutsOwn # {} ->
            IF \E t \in Threads : pc[t] = Log THEN "recorded" ELSE "closed"

\* The blocks of PUTs that have copied the path and not opened the file yet.
Granted == {arg[t].block : t \in {u \in Threads : pc[u] = Open}}

Abstract == INSTANCE BlockStore
    WITH stored <- dir, logged <- lines, begun <- made, granted <- Granted, run <- Run
StoreSpec == Abstract!StoreSpec

===============================================================================
