---------------------------- MODULE MetadataServer ----------------------------
(***************************************************************************)
(* The metadata server: one client_handling thread per connection          *)
(* (metadata_server/server.c) over the file database that all of them      *)
(* share and its semaphore (utils/file_db.c).                              *)
(*                                                                         *)
(* Grid_File.name is not a copy of the file name: it is the pointer that   *)
(* strtok returned into the stack buffer "buf" of the thread that handled  *)
(* the PUT.  For PUT and GET that pointer is buf + 4, so the model keeps,  *)
(* for each thread stack t, the string at4[t] that starts there, and a     *)
(* name pointer is the stack it points into.  A stack outlives its thread: *)
(* the C library keeps the stacks of ended threads and hands them to the   *)
(* next connections.                                                       *)
(*                                                                         *)
(* strtok itself keeps its position in one variable of the process, which  *)
(* the threads share without the semaphore: a token asked for by one may   *)
(* come out of the buffer of another, or be missing (NULL).  Behind the    *)
(* last token of a request the position stays where it is, in a buffer     *)
(* that the answer and later messages overwrite.                           *)
(***************************************************************************)
EXTENDS Integers, Sequences, FiniteSets

CONSTANTS Threads,   \* thread stacks, each with one client_handling buffer
          Files,     \* the file names clients ask for (no comma, no newline)
          Repos,     \* number of nodes in the DR_List when clients are served
          Elsewhere  \* any place a name pointer can hit but some buf + 4

ASSUME ConstantsAssumption ==
    /\ Repos \in Nat
    /\ Elsewhere \notin Threads

VARIABLES up,       \* the server process is running
          sem,      \* value of the semaphore of file_db.c
          files,    \* the Grid_File list, from database->head on
          at4,      \* the string at buf + 4 in each thread stack (Elsewhere: not known)
          left,     \* what the last message left in each buffer
          saved,    \* where the next strtok(NULL) will look
          pc,       \* where each thread is
          req,      \* the request each thread is handling
          name,     \* its file_name pointer
          cur,      \* the list position its database call is at
          appended  \* blocks its PUT has appended to its own block list

db     == <<sem, files>>
bufs   == <<at4, left>>
locals == <<req, name, cur, appended>>
vars == <<up, sem, files, at4, left, saved, pc, req, name, cur, appended>>

-------------------------------------------------------------------------------
\* The strings a buffer can hold at offset 4, as far as names are concerned:
\* exactly the name of a file; that name followed by the newline of the
\* request line (and what the previous message left after it, up to the next
\* comma); or anything else, which is no key any request looks up.
Name(f) == [kind |-> "name", file |-> f]
Line(f) == [kind |-> "line", file |-> f]
Other   == [kind |-> "other"]
Text    == {Name(f) : f \in Files} \cup {Line(f) : f \in Files} \cup {Other}

\* What the next message finds in buf: nothing longer than an "ack" or a "nack",
\* which any GET line covers; a longer reply; or the "quit" of the session that
\* used the stack before, and what its replies left behind that.
Leftover == {"short", "long", "quit"}

NoFile    == "no file"
NoRequest == [cmd |-> "none", file |-> NoFile]
Request   == [cmd : {"put", "get", "remove"}, file : Files]
                \cup {NoRequest, [cmd |-> "ls", file |-> NoFile]}

Places == Threads \cup {Elsewhere}

\* Grid_File: its name pointer, the file its PUT was for (the code keeps no
\* such thing), and whether its block list has been freed.
Grid_File == [buf : Places, file : Files, freed : BOOLEAN]

\* The first strtok call of a request leaves the pointer saved before the file
\* name ("name"); then comes its other argument, or that of a line of the user
\* list ("arg"), and then the end of the string, which stays in that buffer.
Cursor == [of : Threads, next : {"name", "arg", "end"}]
              \cup [of : {Elsewhere}, next : {"end"}]

Idle     == "idle"      \* no thread runs on this stack
Recv     == "recv"      \* in recv_message
Gone     == "gone"      \* the client closed its socket without QUIT
Auth     == "auth"      \* before the next line of the user list
Password == "password"  \* between the two strtok calls on that line
Parse    == "parse"     \* before the strtok call for the file name
Size     == "size"      \* before the strtok call for the size in a PUT
Wait     == "wait"      \* in sem_wait
AppendB  == "append"    \* in append_block, holding the semaphore
Walk     == "walk"      \* following the list, holding the semaphore
Link     == "link"      \* add_file has the tail, the new record is not linked
Post     == "post"      \* before sem_post
Reply    == "reply"     \* the database call has returned
Tell     == "tell"      \* "ack" is in buf, the repositories are being told
PCs      == {Idle, Recv, Gone, Auth, Password, Parse, Size,
             Wait, AppendB, Walk, Link, Post, Reply, Tell}

\* Type invariant: what each variable of server.c and file_db.c can hold.
TypeOK ==
    /\ up \in BOOLEAN
    /\ sem \in Nat
    /\ files \in Seq(Grid_File)
    /\ at4 \in [Places -> Text] /\ at4[Elsewhere] = Other
    /\ left \in [Threads -> Leftover]
    /\ saved \in Cursor
    /\ pc \in [Threads -> PCs]
    /\ req \in [Threads -> Request]
    /\ name \in [Threads -> Places]
    /\ cur \in [Threads -> Nat]
    /\ appended \in [Threads -> Nat]

\* The thread is between sem_wait and sem_post.
InCS(t) == pc[t] \in {AppendB, Walk, Link, Post}

\* The semaphore is taken and no thread is left that will post it.
PermitLost == sem = 0 /\ \A t \in Threads : ~InCS(t)

Goto(t, l) == pc' = [pc EXCEPT ![t] = l]

\* The thread is at a record of the list, or past the last one.
AtEntry(t) == pc[t] = Walk /\ cur[t] \in 1..Len(files)
AtEnd(t)   == pc[t] = Walk /\ cur[t] > Len(files)

\* The process ends: what its memory holds no longer matters.
Halt ==
    /\ up' = FALSE
    /\ UNCHANGED <<db, bufs, saved, pc, req, name, cur, appended>>

-------------------------------------------------------------------------------
CRITICAL_SECTION_TWO  == 2   \* Variant of the next line.
CRITICAL_SECTION_SIZE == 1

\* init_db: an empty list and a semaphore of CRITICAL_SECTION_SIZE.  The
\* repositories that answered update_map had no file to report.
Init ==
    /\ up = TRUE
    /\ sem = CRITICAL_SECTION_SIZE
    /\ files = << >>
    /\ at4 = [p \in Places |-> Other]
    /\ left = [t \in Threads |-> "short"]
    /\ saved = [of |-> Elsewhere, next |-> "end"]
    /\ pc = [t \in Threads |-> Idle]
    /\ req = [t \in Threads |-> NoRequest]
    /\ name = [t \in Threads |-> t]
    /\ cur = [t \in Threads |-> 0]
    /\ appended = [t \in Threads |-> 0]

\* server_routine accepts a client and starts a thread, on a stack that was
\* never used, was cleared, or still has what the last session left in it.
Accept(t) ==
    /\ pc[t] = Idle
    /\ Goto(t, Recv)
    /\ \E l \in {left[t], "short"} : left' = [left EXCEPT ![t] = l]
    /\ UNCHANGED <<up, db, at4, saved, locals>>

Uncleared(t) == at4   \* Variant of the next line.
Cleared(t)   == [at4 EXCEPT ![t] = Other]

\* buf is cleared and overwritten with a reply, whoever points into it.
SendMessage(t, l) ==
    /\ Goto(t, Recv)
    /\ left' = [left EXCEPT ![t] = l]
    /\ at4' = Cleared(t)

\* Commands that need neither the database nor strtok.  Without any repository
\* the reply to GET_DR is "ack," alone.
Answer(t, l) ==
    /\ pc[t] = Recv
    /\ SendMessage(t, l)
    /\ UNCHANGED <<up, db, saved, locals>>

HandleGetDr(t) == Answer(t, IF Repos = 0 THEN "short" ELSE "long")

HandleUnknown(t) == Answer(t, "short")

HandleQuit(t) ==
    /\ pc[t] = Recv
    /\ Goto(t, Idle)
    /\ left' = [left EXCEPT ![t] = "quit"]
    /\ at4' = Cleared(t)
    /\ UNCHANGED <<up, db, saved, locals>>

\* The client is gone without QUIT.  recv_message returns with buf as the last
\* message left it, and the loop takes that for a request: the "quit" of an
\* earlier session ends the thread, anything else is nacked.
HandleEof(t) ==
    /\ pc[t] = Recv
    /\ at4' = Cleared(t)
    /\ \/ left[t] = "quit" /\ Goto(t, Idle) /\ UNCHANGED left
       \/ left[t] # "quit" /\ Goto(t, Gone) /\ left' = [left EXCEPT ![t] = "short"]
    /\ UNCHANGED <<up, db, saved, locals>>

\* A send or a recv on a connection the peer has closed or reset: recv_message
\* and send_message end the whole process (ERROR_HELPER with isFatal).
ConnectionLost(t) == pc[t] \in {Recv, Gone, Auth, Reply, Tell} /\ Halt

\* SIGINT: close_server calls exit.
close_server == Halt

-------------------------------------------------------------------------------
\* strtok(NULL) takes the token at the position and moves it behind that token.
\* At the end of the string the position stays in that buffer, whose thread may
\* have answered the request and received the next message into it since.
TokenOfName == saved.next = "name"
TokenOfPut  == TokenOfName /\ req[saved.of].cmd = "put"
TakeToken_peek == UNCHANGED saved   \* Variant: the position is not moved.
TakeToken ==
    saved' = [saved EXCEPT !.next = IF TokenOfPut THEN "arg" ELSE "end"]
StartTokens(t, next) == saved' = [of |-> t, next |-> next]

\* The buffer of t still holds the request that was parsed there.
HoldsRequest(t) ==
    /\ pc[t] \in {Parse, Size, Wait, AppendB, Walk, Link, Post, Reply}
    /\ req[t].cmd # "ls"

\* There is no further token, for sure, while the buffer holds that request and
\* no older message left anything behind it; otherwise there may be one.
NoToken ==
    /\ saved.next = "end"
    /\ saved.of \in Threads
    /\ HoldsRequest(saved.of)
    /\ left[saved.of] = "short"

\* The place of the token that strtok(NULL) returns to thread t.  The name in
\* a REMOVE is at buf + 8: its own thread has it there, for another it is
\* somewhere else, as is what lies behind the last token of a request.
TokenPlace(t) ==
    IF TokenOfName /\ (saved.of = t \/ req[saved.of].cmd # "remove")
    THEN saved.of
    ELSE Elsewhere

\* strtok ends the token at the comma; the line of a GET has no comma.  A comma
\* behind the last token of a request is at buf + 6 or later, and what an answer
\* has between buf + 4 and there (a number, a key) is the name of no file.
TokenText ==
    IF TokenOfPut
    THEN [at4 EXCEPT ![saved.of] = Name(req[saved.of].file)]
    ELSE at4

\* client_authentication reads the user list line by line.
HandleAuth(t) ==
    /\ pc[t] = Recv
    /\ Goto(t, Auth)
    /\ at4' = Cleared(t)
    /\ UNCHANGED <<up, db, left, saved, locals>>

ReadUser(t) ==
    /\ pc[t] = Auth
    /\ \/ StartTokens(t, "arg") /\ Goto(t, Password) /\ UNCHANGED bufs
       \/ SendMessage(t, "short") /\ UNCHANGED saved    \* no line matched
    /\ UNCHANGED <<up, db, locals>>

ReadPassword(t) ==
    /\ pc[t] = Password
    /\ ~NoToken
    /\ TakeToken
    /\ \/ Goto(t, Auth) /\ at4' = TokenText /\ UNCHANGED left
       \/ /\ Goto(t, Recv)
          /\ left' = [left EXCEPT ![t] = "long"]
          /\ at4' = [TokenText EXCEPT ![t] = Other]
    /\ UNCHANGED <<up, db, locals>>

-------------------------------------------------------------------------------
\* Requests on the database: recv_message and the first strtok call.
Begin(t, c, f, text) ==
    /\ pc[t] = Recv
    /\ Goto(t, Parse)
    /\ req' = [req EXCEPT ![t] = [cmd |-> c, file |-> f]]
    /\ at4' = [at4 EXCEPT ![t] = text]
    /\ StartTokens(t, "name")
    /\ UNCHANGED <<up, db, left, name, cur, appended>>

HandlePut(t)    == \E f \in Files : Begin(t, "put", f, Other)
HandleGet(t)    == \E f \in Files : Begin(t, "get", f, Line(f))
HandleRemove(t) == \E f \in Files : Begin(t, "remove", f, Other)

\* LS parses nothing; its reply header is in buf before the database is read.
HandleLs(t) ==
    /\ pc[t] = Recv
    /\ Goto(t, Wait)
    /\ req' = [req EXCEPT ![t] = [cmd |-> "ls", file |-> NoFile]]
    /\ at4' = Cleared(t)
    /\ UNCHANGED <<up, db, left, saved, name, cur, appended>>

\* "file_name[strlen(file_name) - 1] = 0" in a GET.  recv_message writes no
\* terminator: the token runs on into what the last message left in buf, and
\* the byte that is cut is the newline only if nothing follows it.
CutLast(p) ==
    IF TokenText[p].kind = "line"
    THEN {[at4 EXCEPT ![p] = Name(at4[p].file)]}
            \cup (IF left[p] = "short" THEN {} ELSE {at4})
    ELSE {[at4 EXCEPT ![p] = Other]}

ParseName(t, c, l) ==
    /\ pc[t] = Parse
    /\ req[t].cmd = c
    /\ Goto(t, l)
    /\ name' = [name EXCEPT ![t] = TokenPlace(t)]
    /\ TakeToken
    /\ UNCHANGED <<up, db, left, req, cur, appended>>

ParsePut(t) == ParseName(t, "put", Size) /\ at4' = TokenText

\* data_block_division begins by dividing by the number of repositories.
\* Variant: the division is left to the first block.
ParseSize_any(t) ==
    /\ pc[t] = Size
    /\ ~NoToken
    /\ Goto(t, Wait)
    /\ at4' = TokenText
    /\ TakeToken
    /\ UNCHANGED <<up, db, left, locals>>

ParseSize(t) ==
    /\ pc[t] = Size
    /\ Repos > 0 /\ ~NoToken
    /\ Goto(t, Wait)
    /\ at4' = TokenText
    /\ TakeToken
    /\ UNCHANGED <<up, db, left, locals>>

ParseGet(t) ==
    /\ ~NoToken
    /\ ParseName(t, "get", Wait)
    /\ at4' \in CutLast(TokenPlace(t))

\* The key of a REMOVE is never cut at its newline.
ParseRemove(t) == ParseName(t, "remove", Wait) /\ at4' = TokenText

\* strtol(NULL) or strlen(NULL): at once, or later with the name of a PUT or
\* REMOVE, or with that of a record that was stored under NULL.
NullPointer(t) ==
    /\ \/ pc[t] \in {Parse, Size, Password} /\ saved.next = "end"
       \/ pc[t] \in {Wait, AppendB, Walk, Tell} /\ name[t] = Elsewhere
       \/ AtEntry(t) /\ files[cur[t]].buf = Elsewhere
    /\ Halt

\* data_block_division divides by list->size.
DivideByZero(t) == Repos = 0 /\ pc[t] = Size /\ Halt

-------------------------------------------------------------------------------
\* The operations of file_db.c: sem_wait, the body, sem_post.

Appending_short(t) == req[t].cmd = "put" /\ appended[t] + 1 < Repos   \* Variant.
Appending(t)       == req[t].cmd = "put" /\ appended[t] < Repos

TakePermit_try  == sem' = IF sem > 0 THEN sem - 1 ELSE 0   \* Variants: sem_trywait,
TakePermit_down == sem' = sem - 1                          \* and a bare counter.
TakePermit      == sem > 0 /\ sem' = sem - 1

sem_wait(t) ==
    /\ pc[t] = Wait
    /\ TakePermit
    /\ Goto(t, IF Appending(t) THEN AppendB ELSE Walk)
    /\ cur' = [cur EXCEPT ![t] = 1]
    /\ UNCHANGED <<up, files, bufs, saved, req, name, appended>>

sem_post(t) ==
    /\ pc[t] = Post
    /\ sem' = sem + 1
    /\ Goto(t, Reply)
    /\ UNCHANGED <<up, files, bufs, saved, locals>>

\* One round of the loop of data_block_division: append_block on a list that
\* only this thread has, sem_post, and on to the next block or to add_file.
append_block(t) ==
    /\ pc[t] = AppendB
    /\ appended' = [appended EXCEPT ![t] = @ + 1]
    /\ sem' = sem + 1
    /\ Goto(t, Wait)
    /\ UNCHANGED <<up, files, bufs, saved, req, name, cur>>

\* file_compare reads both strings in the buffers at that moment.  Two strings
\* compare equal for sure when they are one and the same, or the same name.  The
\* key of a REMOVE that got its own token is at buf + 8, newline included; a
\* token of another thread is at that thread's buf + 4, like a record's name.
Key(t) ==
    IF req[t].cmd = "remove" /\ name[t] = t THEN Line(req[t].file) ELSE at4[name[t]]

\* Variant: the lengths are compared, the characters are not.
CanMatch_length(e, t) ==
    Elsewhere \in {e.buf, name[t]} \/ at4[e.buf].kind = Key(t).kind

CanMatch(e, t) == Elsewhere \in {e.buf, name[t]} \/ at4[e.buf] = Key(t)

CanDiffer(e, t) ==
    \/ Elsewhere \in {e.buf, name[t]}
    \/ at4[e.buf] # Key(t)
    \/ at4[e.buf].kind # "name" /\ e.buf # name[t]

Hit(t)     == AtEntry(t) /\ req[t].cmd # "ls" /\ CanMatch(files[cur[t]], t)
Miss(t)    == AtEntry(t) /\ (req[t].cmd = "ls" \/ CanDiffer(files[cur[t]], t))

SameEntry(i) == i       \* Variant of the next line.
NextEntry(i) == i + 1

\* One step along the list; LS prints the entry, blocks included.
Advance(t) ==
    /\ Miss(t)
    /\ cur' = [cur EXCEPT ![t] = NextEntry(@)]
    /\ UNCHANGED <<up, db, bufs, saved, pc, req, name, appended>>

\* LS and GET follow block pointers that an earlier REMOVE freed.
UseAfterFree(t) ==
    /\ cur[t] \in 1..Len(files)
    /\ files[cur[t]].freed
    /\ \/ pc[t] = Walk /\ req[t].cmd = "ls"
       \/ pc[t] = Reply /\ req[t].cmd = "get"
    /\ Halt

\* Variant: find_file is not heeded.
add_file_unchecked(t) ==
    /\ Hit(t)
    /\ req[t].cmd = "put"
    /\ cur' = [cur EXCEPT ![t] = NextEntry(@)]
    /\ UNCHANGED <<up, db, bufs, saved, pc, req, name, appended>>

\* add_file when find_file said TRUE: it returns without sem_post.
add_file_present(t) ==
    /\ Hit(t)
    /\ req[t].cmd = "put"
    /\ Goto(t, Reply)
    /\ UNCHANGED <<up, db, bufs, saved, locals>>

LastEntry_early == IF Len(files) < 2 THEN Len(files) ELSE Len(files) - 1   \* Variant.
LastEntry       == Len(files)

\* add_file when the name is new: get_tail (position 0 is an empty list) ...
get_tail(t) ==
    /\ AtEnd(t)
    /\ req[t].cmd = "put"
    /\ cur' = [cur EXCEPT ![t] = LastEntry]
    /\ Goto(t, Link)
    /\ UNCHANGED <<up, db, bufs, saved, req, name, appended>>

\* ... and the new record becomes the successor of that tail.
new_file(t) == [buf |-> name[t], file |-> req[t].file, freed |-> FALSE]

link_file(t) ==
    /\ pc[t] = Link
    /\ files' = Append(SubSeq(files, 1, cur[t]), new_file(t))
    /\ Goto(t, Post)
    /\ UNCHANGED <<up, sem, bufs, saved, locals>>

get_file_found(t) ==
    /\ Hit(t)
    /\ req[t].cmd = "get"
    /\ Goto(t, Post)
    /\ UNCHANGED <<up, db, bufs, saved, locals>>

\* The end of the list: GET has NULL (position 0), LS has listed cur entries,
\* REMOVE returns TRUE although it found nothing.
WalkDone(t) ==
    /\ AtEnd(t)
    /\ req[t].cmd # "put"
    /\ cur' = [cur EXCEPT ![t] = IF req[t].cmd = "ls" THEN Len(files) ELSE 0]
    /\ Goto(t, Post)
    /\ UNCHANGED <<up, db, bufs, saved, req, name, appended>>

\* _remove_file frees every other block, and after the loop the last one; an
\* odd number of blocks makes it read the next pointer of NULL.  The record
\* stays in the list.  Freeing the blocks again may abort the process.
remove_found(t) ==
    /\ Hit(t)
    /\ req[t].cmd = "remove"
    /\ \/ (Repos % 2 = 1 \/ files[cur[t]].freed) /\ Halt
       \/ /\ Repos % 2 = 0
          /\ files' = [files EXCEPT ![cur[t]].freed = TRUE]
          /\ Goto(t, Post)
          /\ UNCHANGED <<up, sem, bufs, saved, locals>>

-------------------------------------------------------------------------------
\* Replies; the local variables of the request go out of scope.
EndRequest(t, l) ==
    /\ SendMessage(t, l)
    /\ req' = [req EXCEPT ![t] = NoRequest]
    /\ name' = [name EXCEPT ![t] = t]
    /\ cur' = [cur EXCEPT ![t] = 0]
    /\ appended' = [appended EXCEPT ![t] = 0]
    /\ UNCHANGED <<up, db, saved>>

\* The division list is acknowledged whether or not add_file stored the file.
ReplyPut(t) ==
    /\ pc[t] = Reply
    /\ req[t].cmd = "put"
    /\ EndRequest(t, "long")

\* A GET that found nothing and an LS of an empty list have short replies.
ReplyGetOrLs(t) ==
    /\ pc[t] = Reply
    /\ req[t].cmd \in {"get", "ls"}
    /\ EndRequest(t, IF cur[t] = 0 THEN "short" ELSE "long")

\* "ack" is crafted in buf first, so what send_command_to_dr then copies from a
\* file_name in this buffer is empty.
AckRemove(t) ==
    /\ pc[t] = Reply
    /\ req[t].cmd = "remove"
    /\ Goto(t, Tell)
    /\ at4' = Cleared(t)
    /\ UNCHANGED <<up, db, left, saved, locals>>

NameTold(t) == IF name[t] = t THEN Other ELSE at4[name[t]]

\* Every node has been sent the REMOVE, or has refused the connection.
ReplyRemove(t) ==
    /\ pc[t] = Tell
    /\ EndRequest(t, "short")

-------------------------------------------------------------------------------
Handle(t) ==
    \/ HandleGetDr(t) \/ HandleUnknown(t) \/ HandleQuit(t) \/ HandleEof(t)
    \/ HandleAuth(t) \/ ReadUser(t) \/ ReadPassword(t)
    \/ HandleLs(t) \/ HandlePut(t) \/ HandleGet(t) \/ HandleRemove(t)
    \/ ParsePut(t) \/ ParseSize(t) \/ ParseGet(t) \/ ParseRemove(t)

Database(t) ==
    \/ sem_wait(t) \/ sem_post(t) \/ append_block(t)
    \/ Advance(t) \/ WalkDone(t)
    \/ add_file_present(t) \/ get_tail(t) \/ link_file(t)
    \/ get_file_found(t) \/ remove_found(t)

SendAnswer(t) == ReplyPut(t) \/ ReplyGetOrLs(t) \/ AckRemove(t) \/ ReplyRemove(t)

Fault(t) ==
    \/ ConnectionLost(t) \/ NullPointer(t) \/ DivideByZero(t) \/ UseAfterFree(t)

Next ==
    /\ up
    /\ \/ \E t \in Threads :
            Accept(t) \/ Handle(t) \/ Database(t) \/ SendAnswer(t) \/ Fault(t)
       \/ close_server

Spec == Init /\ [][Next]_vars

\* A thread that is not blocked keeps running.  The semaphore is not fair: a
\* thread in sem_wait is only sure to return when nobody else takes the permit.
Fair(t)  == WF_vars(up /\ Database(t))
Fairness == \A t \in Threads : Fair(t)

\* When a thread that keeps running is sure to go on: the one in sem_wait when
\* there is a permit, the one that has it at every point of its operation.
CanOperate(t) ==
    /\ req[t].cmd # "none"
    /\ \/ pc[t] = Wait /\ sem > 0
       \/ pc[t] \in {AppendB, Link, Post} \/ Hit(t) \/ Miss(t) \/ AtEnd(t)

GoesOn ==
    \A t \in Threads : up /\ CanOperate(t) <=> ENABLED <<up /\ Database(t)>>_vars

-------------------------------------------------------------------------------
\* The semaphore of file_db.c lets one thread at a time between sem_wait and
\* sem_post, and it has no permit to give while a thread is there.
MutualExclusion ==
    /\ sem \in {0, 1}
    /\ \A t \in Threads : InCS(t) => sem = 0
    /\ \A t, u \in Threads : InCS(t) /\ InCS(u) => t = u

\* A position before a file name, or before the argument behind it, is in a
\* request whose own thread has yet to ask for it (server.c:211-213, 223-224,
\* 244-245, 106-107): a thread that gets the name or the size of another
\* session gets that of a request not yet served, never one of a request that
\* was answered.  What it gets from behind the last token of a request, which
\* may be a piece of an answer, is no name of a file in its place (buf + 4).
TokensAreCurrent ==
    /\ saved.next = "name" => pc[saved.of] = Parse
    /\ saved.next = "arg" => pc[saved.of] \in {Parse, Size, Password}

\* The name of a record can be read only while the thread it points at handles
\* a request for a file of that name; as soon as that request is answered
\* (buf is overwritten), no file is known by the name it was stored under.
NamesFade ==
    \A t \in Threads : at4[t] # Other =>
        /\ pc[t] \in {Parse, Size, Wait, AppendB, Walk, Link, Post, Reply}
        /\ at4[t].file = req[t].file

\* No two records name the same buffer: as far as add_file can tell, a buffer
\* that a record points into holds the name of a file that is present already.
OneEntryPerBuffer ==
    \A i, j \in 1..Len(files) :
        files[i].buf = files[j].buf /\ files[i].buf # Elsewhere => i = j

\* A record enters the list only with a block for every repository, of which
\* there is at least one (server.c:130-156).
BlocksBeforeRecord ==
    /\ files # << >> => Repos > 0
    /\ \A t \in Threads : req[t].cmd = "put" /\ pc[t] \in {Walk, Link, Post} =>
           Repos > 0 /\ appended[t] = Repos

\* No operation loses, reorders or renames a record that another one stored:
\* what get_tail saw is still the tail when add_file links to it.
FilesAppendOnly ==
    [][/\ Len(files) <= Len(files')
       /\ \A i \in 1..Len(files) :
             /\ files'[i].buf = files[i].buf
             /\ files'[i].file = files[i].file
             /\ files[i].freed => files'[i].freed]_vars

\* Once an operation has returned without sem_post, no operation ever completes
\* again: the permit stays lost and the list never changes.
PermitLossIsFinal == [][PermitLost => PermitLost' /\ files' = files]_vars

\* What the key of t and the record at its position can have in common: they are
\* one pointer, which a REMOVE never gets from its own message; or one of them is
\* a token from behind a request; or the threads whose buffers are compared both
\* handle requests for one and the same file; or the key is another thread's
\* token and neither buffer holds a name any more.
MatchExplained(t) ==
    LET e == files[cur[t]]
        k == name[t]
    IN  \/ e.buf = k /\ (k = t => req[t].cmd # "remove")
        \/ Elsewhere \in {e.buf, k}
        \/ req[e.buf].file = req[k].file /\ req[k].file \in Files
        \/ k # t /\ at4[k] = Other /\ at4[e.buf] = Other

\* A search of the list (find_file, get_file, remove_file) finds nothing but what
\* MatchExplained names: as long as strtok mixes up no tokens, the record is in
\* the very buffer of the key, or its thread handles a request for that file.
HitExplained ==
    [][\A t \in Threads :
          up' /\ pc[t] = Walk /\ pc'[t] # Walk /\ cur[t] \in 1..Len(files)
              => MatchExplained(t)]_vars

\* An operation that has taken the permit gives it back, unless it is the PUT
\* that loses it for good or the process ends.
PermitReturns ==
    (up /\ \E t \in Threads : InCS(t)) ~> (sem = 1 \/ PermitLost \/ ~up)

\* An operation returns to its thread.
Completes(t) == pc[t] # Reply /\ pc'[t] = Reply

\* Without repositories the division by zero (server.c:130) ends the process
\* before a PUT holds the permit, so that nothing can jam the database: as long
\* as some thread waits for it, one operation after the other completes.
WaitersAreServed ==
    Repos = 0 =>
        (<>[](up /\ \E t \in Threads : pc[t] = Wait)
            => []<><<\E t \in Threads : Completes(t)>>_vars)

\* The threads and their semaphore implement the abstract file registry.
Registry == INSTANCE FileRegistry
                WITH Buffers <- Threads, entries <- files,
                     jammed <- PermitLost, alive <- up
RegistrySpec == Registry!RegistrySpec

-------------------------------------------------------------------------------
\* "Initialization of database and semaphore to handle concurrency"
\* (file_db.c:14): the semaphore always comes back.
PermitNeverLost == ~PermitLost

\* "the pointer to the file if it is present, NULL otherwise" (file_db.c:189).
GetFileFindsTheFile ==
    \A t \in Threads : pc[t] = Post /\ req[t].cmd = "get" =>
        IF cur[t] = 0
        THEN \A i \in 1..Len(files) : files[i].file # req[t].file
        ELSE files[cur[t]].file = req[t].file

\* "remove file from data repositories." (client.c:27): the REMOVE that goes to
\* the repositories says which file.
RemoveNamesItsFile ==
    \A t \in Threads : pc[t] = Tell => NameTold(t) # Other

===============================================================================
