------------------------- MODULE MetadataServerProofs -------------------------
(***************************************************************************)
(* Proofs about MetadataServer, for any number of threads, files and       *)
(* repositories.                                                           *)
(***************************************************************************)
EXTENDS MetadataServer, TLAPS

\* A step of thread t that touches neither the list nor its semaphore.
Outside(t) == Accept(t) \/ Handle(t) \/ SendAnswer(t)

\* The labels are distinct and grouped as InCS says.
USE DEF Idle, Recv, Gone, Auth, Password, Parse, Size, Wait, AppendB, Walk, Link, Post, Reply, Tell

-------------------------------------------------------------------------------
\* A request that names a file names one of Files.
LEMMA RequestFile ==
    ASSUME NEW r \in Request, r.cmd \in {"put", "get", "remove"}
    PROVE  r.file \in Files
  BY DEF Request, NoRequest

\* The text strtok leaves in the buffers is text.
LEMMA TokenTextType ==
    ASSUME TypeOK
    PROVE  TokenText \in [Places -> Text] /\ TokenText[Elsewhere] = Other
  <1> USE ConstantsAssumption
  <1>1. CASE TokenOfPut
    <2>1. saved.of \in Threads /\ req[saved.of].cmd = "put"
      BY <1>1 DEF TokenOfPut, TokenOfName, TypeOK, Cursor
    <2>2. req[saved.of].file \in Files
      BY <2>1, RequestFile DEF TypeOK
    <2>3. Name(req[saved.of].file) \in Text
      BY <2>2 DEF Text
    <2> QED  BY <1>1, <2>1, <2>3 DEF TokenText, TypeOK, Places
  <1>2. CASE ~TokenOfPut
    BY <1>2 DEF TokenText, TypeOK
  <1> QED  BY <1>1, <1>2

\* strtok's position stays within a buffer or at the end.
LEMMA TakeTokenType ==
    ASSUME TypeOK, TakeToken
    PROVE  saved' \in Cursor
  <1>1. CASE TokenOfPut
    <2>1. saved \in [of : Threads, next : {"name", "arg", "end"}]
      BY <1>1 DEF TokenOfPut, TokenOfName, TypeOK, Cursor
    <2> QED  BY <1>1, <2>1 DEF TakeToken, Cursor
  <1>2. CASE ~TokenOfPut
    BY <1>2 DEF TakeToken, TypeOK, Cursor
  <1> QED  BY <1>1, <1>2

\* What the cut of the last byte in a GET leaves is still text, and nothing is
\* known of Elsewhere.
LEMMA CutLastType ==
    ASSUME TypeOK, NEW p \in Places, NEW a \in CutLast(p)
    PROVE  a \in [Places -> Text] /\ a[Elsewhere] = Other
  <1>0. at4 \in [Places -> Text] /\ at4[Elsewhere] = Other /\ Elsewhere \in Places
    BY DEF TypeOK, Places
  <1>1. Other \in Text /\ \A f \in Files : Name(f) \in Text
    BY DEF Text
  <1>2. CASE TokenText[p].kind = "line"
    <2>1. ~(TokenOfPut /\ p = saved.of)
      <3> SUFFICES ASSUME TokenOfPut, p = saved.of PROVE FALSE
        OBVIOUS
      <3>1. TokenText[p] = Name(req[saved.of].file)
        BY DEF TokenText, TypeOK
      <3> QED  BY <3>1, <1>2 DEF Name
    <2>2. TokenText[p] = at4[p]
      BY <2>1 DEF TokenText, TypeOK
    <2>3. at4[p].file \in Files /\ p # Elsewhere
      BY <1>2, <2>2 DEF TypeOK, Text, Name, Line, Other
    <2>4. a = [at4 EXCEPT ![p] = Name(at4[p].file)] \/ a = at4
      BY <1>2 DEF CutLast
    <2>5. Name(at4[p].file) \in Text
      BY <1>1, <2>3
    <2> QED  BY <1>0, <2>3, <2>4, <2>5
  <1>3. CASE TokenText[p].kind # "line"
    <2>1. a = [at4 EXCEPT ![p] = Other]
      BY <1>3 DEF CutLast
    <2> QED  BY <1>0, <1>1, <2>1
  <1> QED  BY <1>2, <1>3

\* strtok(NULL) returns a pointer into some stack, or elsewhere.
LEMMA PlaceType ==
    ASSUME TypeOK, NEW t \in Threads
    PROVE  TokenPlace(t) \in Places
  BY DEF TokenPlace, TokenOfName, TypeOK, Places, Cursor

-------------------------------------------------------------------------------
\* Members of the sets the variables range over.
LEMMA Members ==
    /\ Other \in Text
    /\ \A f \in Files : Name(f) \in Text /\ Line(f) \in Text
    /\ NoRequest \in Request /\ [cmd |-> "ls", file |-> NoFile] \in Request
    /\ \A f \in Files, c \in {"put", "get", "remove"} : [cmd |-> c, file |-> f] \in Request
    /\ [of |-> Elsewhere, next |-> "end"] \in Cursor
    /\ \A t \in Threads, n \in {"name", "arg"} : [of |-> t, next |-> n] \in Cursor
    /\ Elsewhere \in Places /\ \A t \in Threads : t \in Places /\ t # Elsewhere
  BY ConstantsAssumption DEF Text, Request, Cursor, Places

\* What a step outside the database leaves alone.
Framed(t) ==
    /\ UNCHANGED <<up, sem, files>>
    /\ ~InCS(t) /\ ~InCS(t)'
    /\ \A u \in Threads : u # t =>
          /\ pc'[u] = pc[u] /\ req'[u] = req[u]
          /\ name'[u] = name[u] /\ cur'[u] = cur[u]

\* Parsing, authenticating and answering keep the types, and neither touch the
\* database nor another thread.
LEMMA OutsideStep ==
    ASSUME TypeOK, NEW t \in Threads, Outside(t)
    PROVE  TypeOK' /\ Framed(t)
  <1> USE Members
  <1> USE DEF TypeOK, Framed, InCS, Goto, SendMessage, Cleared, StartTokens, db, bufs, locals
  <1>1. CASE Accept(t)
    BY <1>1 DEF Accept, Leftover, PCs
  <1>2. CASE HandleGetDr(t) \/ HandleUnknown(t)
    BY <1>2 DEF HandleGetDr, HandleUnknown, Answer, Leftover, PCs
  <1>3. CASE HandleQuit(t)
    BY <1>3 DEF HandleQuit, Leftover, PCs
  <1>4. CASE HandleEof(t)
    BY <1>4 DEF HandleEof, Leftover, PCs
  <1>5. CASE HandleAuth(t)
    BY <1>5 DEF HandleAuth, PCs
  <1>6. CASE ReadUser(t)
    BY <1>6 DEF ReadUser, Leftover, PCs
  <1>7. CASE ReadPassword(t)
    BY <1>7, TokenTextType, TakeTokenType DEF ReadPassword, Leftover, PCs
  <1>8. CASE HandleLs(t)
    BY <1>8 DEF HandleLs, PCs
  <1>9. ASSUME NEW c \in {"put", "get", "remove"}, NEW f \in Files, NEW x \in Text,
               Begin(t, c, f, x)
        PROVE  TypeOK' /\ Framed(t)
    <2>1. [cmd |-> c, file |-> f] \in Request /\ [of |-> t, next |-> "name"] \in Cursor
      BY Members
    <2>2. req' \in [Threads -> Request] /\ saved' \in Cursor
      BY <1>9, <2>1 DEF Begin
    <2>3. at4' \in [Places -> Text] /\ at4'[Elsewhere] = Other
      BY <1>9 DEF Begin
    <2> QED  BY <1>9, <2>2, <2>3 DEF Begin, PCs
  <1>10. CASE HandlePut(t)
    BY <1>9, <1>10 DEF HandlePut
  <1>11. CASE HandleGet(t) \/ HandleRemove(t)
    BY <1>9, <1>11 DEF HandleGet, HandleRemove
  <1>12. CASE ParsePut(t)
    BY <1>12, TokenTextType, TakeTokenType, PlaceType DEF ParsePut, ParseName, PCs
  <1>13. CASE ParseSize(t)
    BY <1>13, TokenTextType, TakeTokenType DEF ParseSize, PCs
  <1>14. CASE ParseGet(t)
    BY <1>14, CutLastType, TakeTokenType, PlaceType DEF ParseGet, ParseName, PCs
  <1>15. CASE ParseRemove(t)
    BY <1>15, TokenTextType, TakeTokenType, PlaceType DEF ParseRemove, ParseName, PCs
  <1>16. CASE ReplyPut(t) \/ ReplyGetOrLs(t) \/ ReplyRemove(t)
    <2>1. PICK l \in Leftover : pc[t] \in {Reply, Tell} /\ EndRequest(t, l)
      BY <1>16 DEF ReplyPut, ReplyGetOrLs, ReplyRemove, Leftover
    <2>2. at4' \in [Places -> Text] /\ at4'[Elsewhere] = Other
      BY <2>1 DEF EndRequest
    <2>3. req' \in [Threads -> Request] /\ name' \in [Threads -> Places]
      BY <2>1 DEF EndRequest
    <2> QED  BY <2>1, <2>2, <2>3 DEF EndRequest, PCs
  <1>17. CASE AckRemove(t)
    BY <1>17 DEF AckRemove, PCs
  <1> QED
    BY <1>1, <1>2, <1>3, <1>4, <1>5, <1>6, <1>7, <1>8, <1>9, <1>10, <1>11, <1>12,
       <1>13, <1>14, <1>15, <1>16, <1>17 DEF Outside, Handle, SendAnswer

-------------------------------------------------------------------------------
\* What holds of a thread inside the semaphore beside the types: only a PUT
\* appends or links, and the position get_tail returned is still the last.
ControlOK ==
    \A t \in Threads :
        /\ pc[t] \in {AppendB, Link} => req[t].cmd = "put"
        /\ pc[t] = Link => cur[t] = Len(files)

\* What a database step of thread t leaves alone when the process goes on.
DatabaseFramed(t) ==
    /\ UNCHANGED <<up, at4, left, saved, req, name>>
    /\ \A u \in Threads : u # t =>
          pc'[u] = pc[u] /\ cur'[u] = cur[u] /\ ~InCS(u) /\ ~InCS(u)'

\* What add_file makes of the list is a list of records.
LEMMA LinkType ==
    ASSUME TypeOK, ControlOK, NEW t \in Threads, link_file(t)
    PROVE  /\ files' = Append(files, new_file(t))
           /\ new_file(t) \in Grid_File
           /\ files' \in Seq(Grid_File)
  <1>1. pc[t] = Link /\ cur[t] = Len(files) /\ req[t].cmd = "put"
    BY DEF link_file, ControlOK
  <1>2. req[t] \in Request /\ name[t] \in Places /\ files \in Seq(Grid_File)
    BY DEF TypeOK
  <1>3. new_file(t) \in Grid_File
    BY <1>1, <1>2, RequestFile DEF new_file, Grid_File
  <1>4. SubSeq(files, 1, Len(files)) = files
    BY <1>2
  <1> QED  BY <1>1, <1>2, <1>3, <1>4 DEF link_file

\* What remove_file makes of the list is a list of records.
LEMMA RemoveType ==
    ASSUME TypeOK, NEW t \in Threads, remove_found(t), ~Halt
    PROVE  /\ cur[t] \in 1..Len(files)
           /\ files' = [files EXCEPT ![cur[t]].freed = TRUE]
           /\ files' \in Seq(Grid_File)
           /\ Len(files') = Len(files)
  <1>1. cur[t] \in 1..Len(files) /\ files' = [files EXCEPT ![cur[t]].freed = TRUE]
    BY DEF remove_found, Hit, AtEntry
  <1>2. files \in Seq(Grid_File)
    BY DEF TypeOK
  <1>3. [files[cur[t]] EXCEPT !.freed = TRUE] \in Grid_File
    <2>1. files[cur[t]] \in Grid_File
      BY <1>1, <1>2
    <2> QED  BY <2>1 DEF Grid_File
  <1> QED  BY <1>1, <1>2, <1>3

\* A step on the database keeps the types and leaves other threads alone.
LEMMA DatabaseStep ==
    ASSUME TypeOK, ControlOK, MutualExclusion, NEW t \in Threads, Database(t), ~Halt
    PROVE  TypeOK' /\ DatabaseFramed(t) /\ MutualExclusion'
  <1> USE DEF DatabaseFramed, InCS, Goto, db, bufs, locals
  <1>1. TypeOK'
    <2> USE DEF TypeOK, PCs
    <2>1. CASE sem_wait(t)
      BY <2>1 DEF sem_wait, TakePermit
    <2>2. CASE sem_post(t)
      BY <2>2 DEF sem_post
    <2>3. CASE append_block(t)
      BY <2>3 DEF append_block
    <2>4. CASE Advance(t)
      BY <2>4 DEF Advance, NextEntry
    <2>5. CASE WalkDone(t)
      BY <2>5 DEF WalkDone
    <2>6. CASE add_file_present(t) \/ get_file_found(t)
      BY <2>6 DEF add_file_present, get_file_found
    <2>7. CASE get_tail(t)
      BY <2>7 DEF get_tail, LastEntry
    <2>8. CASE link_file(t)
      BY <2>8, LinkType DEF link_file
    <2>9. CASE remove_found(t)
      BY <2>9, RemoveType DEF remove_found
    <2> QED  BY <2>1, <2>2, <2>3, <2>4, <2>5, <2>6, <2>7, <2>8, <2>9 DEF Database
  <1>2. /\ UNCHANGED <<up, at4, left, saved, req, name>>
        /\ \A u \in Threads : u # t => pc'[u] = pc[u] /\ cur'[u] = cur[u]
    BY DEF TypeOK, Database, sem_wait, sem_post, append_block, Advance, WalkDone,
           add_file_present, get_file_found, get_tail, link_file, remove_found
  <1>3. \/ pc[t] = Wait /\ pc'[t] \in {AppendB, Walk} /\ sem > 0 /\ sem' = sem - 1
        \/ pc[t] \in {AppendB, Post} /\ pc'[t] \in {Wait, Reply} /\ sem' = sem + 1
        \/ pc[t] \in {Walk, Link} /\ pc'[t] \in {Walk, Link, Post, Reply} /\ sem' = sem
    <2> USE DEF TypeOK
    <2>1. CASE sem_wait(t) \/ sem_post(t) \/ append_block(t)
      BY <2>1 DEF sem_wait, TakePermit, sem_post, append_block
    <2>2. CASE Advance(t) \/ WalkDone(t) \/ add_file_present(t) \/ get_file_found(t)
      BY <2>2 DEF Advance, Miss, WalkDone, AtEnd, AtEntry, Hit, add_file_present, get_file_found
    <2>3. CASE get_tail(t) \/ link_file(t) \/ remove_found(t)
      BY <2>3 DEF get_tail, AtEnd, link_file, remove_found, Hit, AtEntry
    <2> QED  BY <2>1, <2>2, <2>3 DEF Database
  <1>4. sem \in {0, 1} /\ \A u \in Threads : InCS(u) => sem = 0 /\ (InCS(t) => u = t)
    BY DEF MutualExclusion
  <1>5. \A u \in Threads : u # t => ~InCS(u) /\ ~InCS(u)'
    BY <1>2, <1>3, <1>4
  <1>6. MutualExclusion'
    BY <1>1, <1>2, <1>3, <1>4 DEF MutualExclusion
  <1> QED  BY <1>1, <1>2, <1>5, <1>6

-------------------------------------------------------------------------------
\* The list positions a PUT has passed hold no record that points where its
\* own file_name points; once it is about to link, no position does.
KeyIsFresh ==
    \A t \in Threads :
        pc[t] \in {Walk, Link} /\ req[t].cmd = "put" /\ name[t] # Elsewhere =>
            \A i \in 1..Len(files) :
                pc[t] = Link \/ i < cur[t] => files[i].buf # name[t]

IInv == TypeOK /\ MutualExclusion /\ ControlOK /\ KeyIsFresh /\ OneEntryPerBuffer

\* The end of the process keeps the inductive invariant.
LEMMA HaltStep ==
    ASSUME IInv, Halt
    PROVE  IInv'
  <1>1. up' \in BOOLEAN /\ UNCHANGED <<sem, files, at4, left, saved, pc, req, name, cur, appended>>
    BY DEF Halt, db, bufs
  <1>2. TypeOK'
    BY <1>1 DEF IInv, TypeOK
  <1>3. MutualExclusion' /\ ControlOK'
    BY <1>1 DEF IInv, MutualExclusion, ControlOK, InCS
  <1>4. KeyIsFresh' /\ OneEntryPerBuffer'
    BY <1>1 DEF IInv, KeyIsFresh, OneEntryPerBuffer
  <1> QED  BY <1>2, <1>3, <1>4 DEF IInv

\* Parsing, authenticating and answering keep the inductive invariant.
LEMMA OutsideInv ==
    ASSUME IInv, NEW t \in Threads, Outside(t)
    PROVE  IInv'
  <1>1. TypeOK' /\ Framed(t)
    BY OutsideStep DEF IInv
  <1>2. MutualExclusion'
    BY <1>1 DEF IInv, MutualExclusion, Framed, InCS
  <1>3. ControlOK'
    BY <1>1 DEF IInv, ControlOK, Framed, InCS
  <1>4. KeyIsFresh'
    BY <1>1 DEF IInv, KeyIsFresh, Framed, InCS
  <1>5. OneEntryPerBuffer'
    BY <1>1 DEF IInv, OneEntryPerBuffer, Framed
  <1> QED  BY <1>1, <1>2, <1>3, <1>4, <1>5 DEF IInv

\* A record that an add_file search passes by does not point at its file_name.
LEMMA MissDiffers ==
    ASSUME NEW t \in Threads, Miss(t), req[t].cmd = "put", name[t] # Elsewhere
    PROVE  files[cur[t]].buf # name[t]
  BY DEF Miss, CanDiffer, Key

\* Each step of the operations of file_db.c keeps the inductive invariant.
LEMMA DatabaseInv ==
    ASSUME IInv, NEW t \in Threads, Database(t), ~Halt
    PROVE  IInv'
  <1>1. TypeOK' /\ DatabaseFramed(t) /\ MutualExclusion'
    BY DatabaseStep DEF IInv
  <1>2. TypeOK /\ ControlOK /\ KeyIsFresh /\ OneEntryPerBuffer
    BY DEF IInv
  <1> USE DEF Goto, db, bufs, locals
  <1>3. ControlOK'
    <2>1. pc'[t] \in {AppendB, Link} => req[t].cmd = "put"
      BY <1>2 DEF TypeOK, Database, sem_wait, Appending, sem_post, append_block, Advance,
           Miss, AtEntry, WalkDone, add_file_present, get_file_found, get_tail,
           link_file, remove_found, ControlOK
    <2>2. pc'[t] = Link => cur'[t] = Len(files')
      BY <1>2 DEF TypeOK, Database, sem_wait, sem_post, append_block, Advance,
           Miss, AtEntry, WalkDone, add_file_present, get_file_found, get_tail,
           LastEntry, link_file, remove_found, ControlOK
    <2> QED  BY <1>1, <2>1, <2>2 DEF ControlOK, DatabaseFramed, InCS
  <1>4. KeyIsFresh'
    <2> SUFFICES ASSUME pc'[t] \in {Walk, Link}, req[t].cmd = "put", name[t] # Elsewhere,
                        NEW i \in 1..Len(files'), pc'[t] = Link \/ i < cur'[t]
                 PROVE  files'[i].buf # name[t]
      BY <1>1 DEF KeyIsFresh, DatabaseFramed, InCS
    <2>1. CASE sem_wait(t)
      BY <1>2, <2>1 DEF sem_wait, TypeOK
    <2>2. CASE Advance(t)
      <3>1. pc[t] = Walk /\ cur[t] \in Nat /\ cur'[t] = cur[t] + 1 /\ files' = files
        BY <1>2, <2>2 DEF Advance, NextEntry, Miss, AtEntry, TypeOK
      <3>2. i = cur[t] \/ i < cur[t]
        BY <1>2, <2>2, <3>1 DEF Advance, TypeOK
      <3>3. i = cur[t] => files[i].buf # name[t]
        BY <2>2, MissDiffers DEF Advance
      <3> QED  BY <1>2, <3>1, <3>2, <3>3 DEF KeyIsFresh
    <2>3. CASE get_tail(t)
      BY <1>2, <2>3 DEF get_tail, AtEnd, KeyIsFresh, TypeOK
    <2> QED
      BY <1>2, <2>1, <2>2, <2>3 DEF TypeOK, Database, sem_post, append_block, WalkDone,
         add_file_present, get_file_found, link_file, remove_found
  <1>5. OneEntryPerBuffer'
    <2>1. CASE link_file(t)
      <3>1. files' = Append(files, new_file(t)) /\ files \in Seq(Grid_File)
        BY <1>2, <2>1, LinkType DEF TypeOK
      <3>2. name[t] # Elsewhere => \A i \in 1..Len(files) : files[i].buf # name[t]
        BY <1>2, <2>1 DEF link_file, KeyIsFresh, ControlOK
      <3> QED  BY <1>2, <3>1, <3>2 DEF OneEntryPerBuffer, new_file
    <2>2. CASE remove_found(t)
      <3>1. /\ cur[t] \in 1..Len(files) /\ Len(files') = Len(files)
            /\ files' = [files EXCEPT ![cur[t]].freed = TRUE]
        BY <1>2, <2>2, RemoveType
      <3>2. \A i \in 1..Len(files) : files[i] \in Grid_File
        BY <1>2 DEF TypeOK
      <3>3. \A i \in 1..Len(files) : files'[i].buf = files[i].buf
        BY <1>2, <3>1, <3>2 DEF Grid_File, TypeOK
      <3> QED  BY <1>2, <3>1, <3>3 DEF OneEntryPerBuffer
    <2>3. CASE UNCHANGED files
      BY <1>2, <2>3 DEF OneEntryPerBuffer
    <2> QED
      BY <2>1, <2>2, <2>3 DEF Database, sem_wait, sem_post, append_block, Advance, WalkDone,
         add_file_present, get_file_found, get_tail
  <1> QED  BY <1>1, <1>3, <1>4, <1>5 DEF IInv

\* Every fault ends the process.
LEMMA FaultHalts ==
    ASSUME NEW t \in Threads, Fault(t)
    PROVE  Halt
  BY DEF Fault, ConnectionLost, NullPointer, DivideByZero, UseAfterFree

\* Every step of the server keeps the inductive invariant.
LEMMA NextInv ==
    ASSUME IInv, [Next]_vars
    PROVE  IInv'
  <1>1. CASE Halt
    BY <1>1, HaltStep
  <1>2. CASE ~Halt /\ Next
    BY <1>2, OutsideInv, DatabaseInv, FaultHalts DEF Next, Outside, close_server
  <1>3. CASE UNCHANGED vars
    BY <1>3 DEF IInv, vars, TypeOK, MutualExclusion, ControlOK, KeyIsFresh,
                OneEntryPerBuffer, InCS
  <1> QED  BY <1>1, <1>2, <1>3

\* The server starts with the inductive invariant.
LEMMA InitInv ==
    ASSUME Init
    PROVE  IInv
  BY Members DEF Init, CRITICAL_SECTION_SIZE, IInv, TypeOK, Leftover, PCs, MutualExclusion,
     ControlOK, KeyIsFresh, OneEntryPerBuffer, InCS

\* Every behaviour of the server keeps the inductive invariant.
THEOREM Inductive == Spec => []IInv
  <1> QED  BY InitInv, NextInv, PTL DEF Spec

\* The variables of the server have their types.
THEOREM Typing == Spec => []TypeOK
  <1>1. IInv => TypeOK
    BY DEF IInv
  <1> QED  BY Inductive, <1>1, PTL

\* One thread at a time is between sem_wait and sem_post.
THEOREM Exclusion == Spec => []MutualExclusion
  <1>1. IInv => MutualExclusion
    BY DEF IInv
  <1> QED  BY Inductive, <1>1, PTL

\* No two records of the list have their names in the same buffer.
THEOREM OneEntry == Spec => []OneEntryPerBuffer
  <1>1. IInv => OneEntryPerBuffer
    BY DEF IInv
  <1> QED  BY Inductive, <1>1, PTL

-------------------------------------------------------------------------------
\* What a step can do to the list and to the permit.
FilesStep(t) ==
    \/ UNCHANGED files
    \/ /\ pc[t] = Link
       /\ files' = Append(files, new_file(t))
       /\ new_file(t) \in Grid_File
       /\ name[t] # Elsewhere => \A i \in 1..Len(files) : files[i].buf # name[t]
    \/ /\ pc[t] = Walk
       /\ cur[t] \in 1..Len(files)
       /\ files' = [files EXCEPT ![cur[t]].freed = TRUE]

\* A step on the database either leaves the list alone, links a record behind
\* the tail, or frees the blocks of one.
LEMMA DatabaseFiles ==
    ASSUME IInv, NEW t \in Threads, Database(t), ~Halt
    PROVE  FilesStep(t)
  <1>1. CASE link_file(t)
    <2>1. files' = Append(files, new_file(t)) /\ new_file(t) \in Grid_File
      BY <1>1, LinkType DEF IInv
    <2>2. name[t] # Elsewhere => \A i \in 1..Len(files) : files[i].buf # name[t]
      BY <1>1 DEF IInv, link_file, KeyIsFresh, ControlOK
    <2> QED  BY <1>1, <2>1, <2>2 DEF FilesStep, link_file
  <1>2. CASE remove_found(t)
    BY <1>2 DEF FilesStep, remove_found, Hit, AtEntry
  <1> QED
    BY <1>1, <1>2 DEF FilesStep, Database, sem_wait, sem_post, append_block, Advance, WalkDone,
       add_file_present, get_file_found, get_tail, db

\* The same of any step of the server.
LEMMA NextFiles ==
    ASSUME IInv, [Next]_vars
    PROVE  UNCHANGED files \/ \E t \in Threads : InCS(t) /\ FilesStep(t)
  <1>1. CASE Halt \/ UNCHANGED vars
    BY <1>1 DEF Halt, db, vars
  <1>2. ASSUME NEW t \in Threads, Outside(t)
        PROVE  UNCHANGED files
    BY <1>2, OutsideStep DEF IInv, Framed
  <1>3. ASSUME NEW t \in Threads, Database(t), ~Halt
        PROVE  UNCHANGED files \/ (InCS(t) /\ FilesStep(t))
    BY <1>3, DatabaseFiles DEF FilesStep, InCS
  <1> QED  BY <1>1, <1>2, <1>3, FaultHalts DEF Next, Outside, close_server

\* No record is lost, moved or renamed by any step: two PUTs never both link
\* to the same tail.
THEOREM AppendOnly == Spec => FilesAppendOnly
  <1> DEFINE Kept == /\ Len(files) <= Len(files')
                     /\ \A i \in 1..Len(files) :
                           /\ files'[i].buf = files[i].buf
                           /\ files'[i].file = files[i].file
                           /\ files[i].freed => files'[i].freed
  <1>1. ASSUME IInv, [Next]_vars
        PROVE  Kept
    <2>1. files \in Seq(Grid_File) /\ \A i \in 1..Len(files) : files[i] \in Grid_File
      BY <1>1 DEF IInv, TypeOK
    <2>2. CASE UNCHANGED files
      BY <2>1, <2>2
    <2>3. ASSUME NEW t \in Threads, files' = Append(files, new_file(t))
          PROVE  Kept
      BY <2>1, <2>3
    <2>4. ASSUME NEW k \in 1..Len(files), files' = [files EXCEPT ![k].freed = TRUE]
          PROVE  Kept
      BY <2>1, <2>4 DEF Grid_File
    <2> QED  BY <1>1, <2>2, <2>3, <2>4, NextFiles DEF FilesStep
  <1>2. IInv /\ [Next]_vars => [Kept]_vars
    BY <1>1
  <1> QED  BY Inductive, <1>2, PTL DEF Spec, FilesAppendOnly

\* A permit that is lost stays lost, and the list with it.
LEMMA LossStep ==
    ASSUME IInv, PermitLost, [Next]_vars
    PROVE  PermitLost' /\ files' = files
  <1>1. files' = files
    BY NextFiles DEF PermitLost
  <1>2. CASE Halt \/ UNCHANGED vars
    BY <1>2 DEF Halt, db, vars, PermitLost, InCS
  <1>3. ASSUME NEW t \in Threads, Outside(t)
        PROVE  PermitLost'
    BY <1>3, OutsideStep DEF IInv, Framed, PermitLost, InCS
  <1>4. ASSUME NEW t \in Threads, Database(t)
        PROVE  FALSE
    BY <1>4 DEF PermitLost, InCS, Database, sem_wait, TakePermit, sem_post, append_block, Advance,
       Miss, WalkDone, AtEnd, AtEntry, Hit, add_file_present, get_file_found, get_tail,
       link_file, remove_found
  <1> QED  BY <1>1, <1>2, <1>3, <1>4, FaultHalts DEF Next, Outside, close_server

\* After an operation has returned without sem_post, nothing the threads do
\* brings the semaphore back.
THEOREM LossIsFinal == Spec => PermitLossIsFinal
  <1>1. IInv /\ [Next]_vars => [PermitLost => PermitLost' /\ files' = files]_vars
    BY LossStep
  <1> QED  BY Inductive, <1>1, PTL DEF Spec, PermitLossIsFinal

-------------------------------------------------------------------------------
\* strtok's position and the names the buffers hold.
Busy == {Parse, Size, Wait, AppendB, Walk, Link, Post, Reply}

NamesInv == TokensAreCurrent /\ NamesFade

\* A text is no name, or the name in the request its buffer's thread handles.
Served(a) == \A p \in Threads : a[p] # Other => pc[p] \in Busy /\ a[p].file = req[p].file

\* If names fade, so they do when strtok has cut a token in a buffer.
LEMMA TokenServed ==
    ASSUME TypeOK, NamesInv
    PROVE  Served(TokenText)
  <1>1. CASE TokenOfPut
    <2>1. saved.of \in Threads /\ pc[saved.of] = Parse
      BY <1>1 DEF TokenOfPut, TokenOfName, TypeOK, Cursor, NamesInv, TokensAreCurrent
    <2>2. TokenText = [at4 EXCEPT ![saved.of] = Name(req[saved.of].file)]
      BY <1>1 DEF TokenText
    <2> QED  BY <2>1, <2>2 DEF Served, NamesInv, NamesFade, Busy, Name, TypeOK
  <1>2. CASE ~TokenOfPut
    BY <1>2 DEF TokenText, Served, NamesInv, NamesFade, Busy
  <1> QED  BY <1>1, <1>2

\* If names fade, so they do when a GET has cut the last byte of its token.
LEMMA CutServed ==
    ASSUME TypeOK, NamesInv, NEW q \in Places, NEW a \in CutLast(q)
    PROVE  Served(a)
  <1>1. Served(at4) /\ at4 \in [Places -> Text]
    BY DEF Served, NamesInv, NamesFade, Busy, TypeOK
  <1>2. CASE TokenText[q].kind = "line"
    <2>1. a = at4 \/ a = [at4 EXCEPT ![q] = Name(at4[q].file)]
      BY <1>2 DEF CutLast
    <2>2. at4[q] # Other
      <3>1. CASE TokenOfPut /\ q = saved.of
        <4>1. TokenText[q] = Name(req[saved.of].file)
          BY <3>1, <1>1 DEF TokenText
        <4> QED  BY <4>1, <1>2 DEF Name
      <3>2. CASE ~(TokenOfPut /\ q = saved.of)
        <4>1. TokenText[q] = at4[q]
          BY <3>2, <1>1 DEF TokenText
        <4> QED  BY <4>1, <1>2 DEF Other
      <3> QED  BY <3>1, <3>2
    <2>3. CASE a = [at4 EXCEPT ![q] = Name(at4[q].file)]
      <3>1. \A p \in Threads : p # q => a[p] = at4[p]
        BY <1>1, <2>3 DEF Places
      <3>2. a[q].file = at4[q].file
        BY <1>1, <2>3 DEF Name
      <3> QED  BY <1>1, <2>2, <3>1, <3>2 DEF Served
    <2> QED  BY <1>1, <2>1, <2>3
  <1>3. CASE TokenText[q].kind # "line"
    <2>1. a = [at4 EXCEPT ![q] = Other]
      BY <1>3 DEF CutLast
    <2> QED  BY <1>1, <2>1 DEF Served
  <1> QED  BY <1>2, <1>3

\* Taking a token moves the position past the request of the thread that goes
\* on, whichever buffer the position was in.
LEMMA CursorStep ==
    ASSUME TypeOK, NamesInv, NEW t \in Threads, TakeToken, NEW l, pc' = [pc EXCEPT ![t] = l],
           pc[t] = Parse /\ req[t].cmd = "put" => l = Size
    PROVE  TokensAreCurrent'
  <1>1. CASE TokenOfPut
    <2>1. saved.of \in Threads /\ pc[saved.of] = Parse /\ req[saved.of].cmd = "put"
      BY <1>1 DEF TokenOfPut, TokenOfName, TypeOK, Cursor, NamesInv, TokensAreCurrent
    <2>2. saved' = [saved EXCEPT !.next = "arg"]
      BY <1>1 DEF TakeToken
    <2>3. saved \in [of : Threads, next : {"name", "arg"}]
      BY <1>1 DEF TokenOfPut, TokenOfName, TypeOK, Cursor
    <2>4. saved'.of = saved.of /\ saved'.next = "arg"
      BY <2>2, <2>3
    <2>5. pc'[saved.of] \in {Parse, Size}
      BY <2>1 DEF TypeOK
    <2> QED  BY <2>4, <2>5 DEF TokensAreCurrent
  <1>2. CASE ~TokenOfPut
    <2>1. saved' = [saved EXCEPT !.next = "end"]
      BY <1>2 DEF TakeToken
    <2>2. saved'.next = "end"
      BY <2>1 DEF TypeOK, Cursor
    <2> QED  BY <2>2 DEF TokensAreCurrent
  <1> QED  BY <1>1, <1>2

\* What a step of thread t that keeps NamesFade does: it overwrites buffers with
\* a text that is served, and its own with no name unless it serves it still.
LEMMA FadeStep ==
    ASSUME NEW t \in Threads, NEW b, Served(b),
           \A u \in Threads : u # t =>
               pc'[u] = pc[u] /\ req'[u] = req[u] /\ at4'[u] \in {b[u], Other},
           at4'[t] = Other \/ (at4'[t] = b[t] /\ pc'[t] \in Busy /\ req'[t] = req[t])
    PROVE  NamesFade'
  <1>1. ASSUME NEW u \in Threads, at4'[u] # Other
        PROVE  pc'[u] \in Busy /\ at4'[u].file = req'[u].file
    BY <1>1 DEF Served
  <1> QED  BY <1>1 DEF NamesFade, Busy

\* Parsing, authenticating and answering keep TokensAreCurrent and NamesFade.
LEMMA OutsideNames ==
    ASSUME TypeOK, NamesInv, NEW t \in Threads, Outside(t)
    PROVE  NamesInv'
  <1> USE DEF TypeOK, Goto, SendMessage, Cleared, StartTokens, locals, bufs
  <1>0. /\ Served(at4) /\ TokensAreCurrent
        /\ saved.next # "end" => saved.of \in Threads /\ saved.next \in {"name", "arg"}
    BY DEF Served, NamesInv, NamesFade, Busy, Cursor
  <1>1. NamesFade' <=> \A p \in Threads : at4'[p] # Other =>
                            pc'[p] \in Busy /\ at4'[p].file = req'[p].file
    BY DEF NamesFade, Busy
  <1>2. CASE \/ Accept(t) \/ HandleGetDr(t) \/ HandleUnknown(t) \/ HandleQuit(t) \/ HandleEof(t)
             \/ HandleAuth(t) \/ AckRemove(t)
    <2>1. /\ pc[t] \in {Idle, Recv, Reply} /\ \E l : pc' = [pc EXCEPT ![t] = l]
          /\ saved' = saved /\ req' = req /\ ((at4' = at4 /\ pc[t] # Reply) \/ at4' = Cleared(t))
      BY <1>2 DEF Accept, HandleGetDr, HandleUnknown, HandleQuit, HandleEof, HandleAuth,
         AckRemove, Answer
    <2>2. TokensAreCurrent'
      BY <1>0, <2>1 DEF TokensAreCurrent
    <2>3. at4'[t] = Other
      BY <1>0, <2>1 DEF Served, Busy, Places
    <2>4. \A u \in Threads : u # t =>
              pc'[u] = pc[u] /\ req'[u] = req[u] /\ at4'[u] \in {at4[u], Other}
      BY <2>1 DEF Places
    <2>5. NamesFade'
      BY <1>0, <2>3, <2>4, FadeStep
    <2> QED  BY <2>2, <2>5 DEF NamesInv
  <1>3. CASE ReadUser(t)
    <2>1. /\ pc[t] = Auth /\ \E l : pc' = [pc EXCEPT ![t] = l] /\ req' = req
          /\ at4' = at4 \/ at4' = Cleared(t)
          /\ saved' = saved \/ (saved' = [of |-> t, next |-> "arg"] /\ pc'[t] = Password)
      BY <1>3 DEF ReadUser
    <2>2. TokensAreCurrent'
      BY <1>0, <2>1 DEF TokensAreCurrent
    <2>3. at4'[t] = Other
      BY <1>0, <2>1 DEF Served, Busy, Places
    <2>4. \A u \in Threads : u # t =>
              pc'[u] = pc[u] /\ req'[u] = req[u] /\ at4'[u] \in {at4[u], Other}
      BY <2>1 DEF Places
    <2>5. NamesFade'
      BY <1>0, <2>3, <2>4, FadeStep
    <2> QED  BY <2>2, <2>5 DEF NamesInv
  <1>4. CASE ReadPassword(t)
    <2>1. /\ pc[t] = Password /\ \E l : pc' = [pc EXCEPT ![t] = l] /\ req' = req
          /\ at4' = TokenText \/ at4' = [TokenText EXCEPT ![t] = Other]
      BY <1>4 DEF ReadPassword
    <2>2. TokensAreCurrent'
      BY <1>4, CursorStep DEF ReadPassword
    <2>3. at4'[t] = Other
      <3>1. TokenText[t] = Other
        BY <2>1, TokenServed DEF Served, Busy
      <3>2. TokenText \in [Places -> Text] /\ t \in Places
        BY TokenTextType DEF Places
      <3> QED  BY <2>1, <3>1, <3>2
    <2>4. \A u \in Threads : u # t =>
              pc'[u] = pc[u] /\ req'[u] = req[u] /\ at4'[u] \in {TokenText[u], Other}
      BY <2>1, TokenTextType DEF Places
    <2>5. NamesFade'
      BY <2>3, <2>4, TokenServed, FadeStep
    <2> QED  BY <2>2, <2>5 DEF NamesInv
  <1>5. CASE HandleLs(t)
    <2>1. TokensAreCurrent'
      BY <1>0, <1>5 DEF HandleLs, TokensAreCurrent
    <2>2. NamesFade'
      BY <1>0, <1>1, <1>5 DEF HandleLs, Served, Busy
    <2> QED  BY <2>1, <2>2 DEF NamesInv
  <1>6. ASSUME NEW c, NEW f, NEW x \in {Other, Line(f)}, Begin(t, c, f, x)
        PROVE  NamesInv'
    <2>1. TokensAreCurrent'
      BY <1>6 DEF Begin, TokensAreCurrent
    <2>2. NamesFade'
      BY <1>0, <1>1, <1>6 DEF Begin, Served, Busy, Line
    <2> QED  BY <2>1, <2>2 DEF NamesInv
  <1>7. CASE HandlePut(t) \/ HandleGet(t) \/ HandleRemove(t)
    BY <1>6, <1>7 DEF HandlePut, HandleGet, HandleRemove
  <1>8. CASE ParsePut(t) \/ ParseSize(t) \/ ParseGet(t) \/ ParseRemove(t)
    <2>1. /\ pc[t] \in Busy /\ \E l \in {Size, Wait} : pc' = [pc EXCEPT ![t] = l]
          /\ req' = req /\ (at4' = TokenText \/ at4' \in CutLast(TokenPlace(t)))
      BY <1>8 DEF ParsePut, ParseSize, ParseGet, ParseRemove, ParseName, Busy
    <2>2. TokensAreCurrent'
      BY <1>8, CursorStep DEF ParsePut, ParseSize, ParseGet, ParseRemove, ParseName
    <2>3. Served(at4')
      BY <2>1, TokenServed, CutServed, PlaceType
    <2>4. NamesFade'
      BY <1>1, <2>1, <2>3 DEF Served, Busy
    <2> QED  BY <2>2, <2>4 DEF NamesInv
  <1>9. CASE ReplyPut(t) \/ ReplyGetOrLs(t) \/ ReplyRemove(t)
    <2>1. /\ pc[t] \in {Reply, Tell} /\ pc' = [pc EXCEPT ![t] = Recv] /\ saved' = saved
          /\ at4' = Cleared(t) /\ req' = [req EXCEPT ![t] = NoRequest]
      BY <1>9 DEF ReplyPut, ReplyGetOrLs, ReplyRemove, EndRequest
    <2>2. TokensAreCurrent'
      BY <1>0, <2>1 DEF TokensAreCurrent
    <2>3. at4'[t] = Other
      BY <2>1 DEF Places
    <2>4. \A u \in Threads : u # t =>
              pc'[u] = pc[u] /\ req'[u] = req[u] /\ at4'[u] \in {at4[u], Other}
      BY <2>1 DEF Places
    <2>5. NamesFade'
      BY <1>0, <2>3, <2>4, FadeStep
    <2> QED  BY <2>2, <2>5 DEF NamesInv
  <1> QED
    BY <1>2, <1>3, <1>4, <1>5, <1>7, <1>8, <1>9 DEF Outside, Handle, SendAnswer

\* Steps on the database, which touch no buffer, keep them.
LEMMA DatabaseNames ==
    ASSUME IInv, NamesInv, NEW t \in Threads, Database(t), ~Halt
    PROVE  NamesInv'
  <1>1. UNCHANGED <<at4, saved, req>> /\ \A u \in Threads : u # t => pc'[u] = pc[u]
    BY DatabaseStep DEF IInv, DatabaseFramed
  <1>2. pc[t] \in {Wait, AppendB, Walk, Link, Post} /\ pc'[t] \in Busy
    BY DEF IInv, TypeOK, Busy, Goto, Database, sem_wait, sem_post, append_block, Advance, Miss,
       WalkDone, AtEnd, AtEntry, Hit, add_file_present, get_file_found, get_tail,
       link_file, remove_found
  <1>3. TokensAreCurrent'
    BY <1>1, <1>2 DEF IInv, TypeOK, Cursor, NamesInv, TokensAreCurrent
  <1>4. NamesFade'
    BY <1>1, <1>2 DEF NamesInv, NamesFade, Busy
  <1> QED  BY <1>3, <1>4 DEF NamesInv

\* Every step of the server keeps them.
LEMMA NextNames ==
    ASSUME IInv, NamesInv, [Next]_vars
    PROVE  NamesInv'
  <1>1. CASE Halt \/ UNCHANGED vars
    BY <1>1 DEF Halt, bufs, vars, NamesInv, TokensAreCurrent, NamesFade
  <1>2. CASE ~Halt /\ Next
    BY <1>2, OutsideNames, DatabaseNames, FaultHalts DEF IInv, Next, Outside, close_server
  <1> QED  BY <1>1, <1>2

\* At all times strtok points into a request that is being parsed, and names
\* are those of requests that are being served.
THEOREM Names == Spec => []NamesInv
  <1>1. Init => NamesInv
    BY ConstantsAssumption DEF Init, NamesInv, TokensAreCurrent, NamesFade, Places
  <1>2. IInv /\ NamesInv /\ [Next]_vars => NamesInv'
    BY NextNames
  <1> QED  BY Inductive, <1>1, <1>2, PTL DEF Spec

\* A file name, or the argument behind it, that strtok has yet to give out is in a
\* request whose own thread has not asked for it.  (Nothing is said of what lies behind
\* the last token of a request: the position stays there while answers overwrite it.)
THEOREM TokensCurrent == Spec => []TokensAreCurrent
  <1>1. NamesInv => TokensAreCurrent
    BY DEF NamesInv
  <1> QED  BY Names, <1>1, PTL

\* A stored file is known by its name only while the thread whose buffer the
\* record points into is handling a request for that name.
THEOREM NamesDoFade == Spec => []NamesFade
  <1>1. NamesInv => NamesFade
    BY DEF NamesInv
  <1> QED  BY Names, <1>1, PTL

-------------------------------------------------------------------------------
\* Every step of a thread is a step of the file registry, or none.
LEMMA DatabaseRefines ==
    ASSUME IInv, up, NEW t \in Threads, Database(t), ~Halt
    PROVE  Registry!Operate \/ UNCHANGED Registry!registryVars
  <1> USE DEF Registry!registryVars, Goto, db
  <1>1. TypeOK' /\ DatabaseFramed(t) /\ TypeOK /\ MutualExclusion
    BY DatabaseStep DEF IInv
  <1>2. up' = up
    BY <1>1 DEF DatabaseFramed
  <1>3. ~PermitLost
    <2>1. sem > 0 \/ InCS(t)
      BY DEF InCS, Database, sem_wait, TakePermit, sem_post, append_block, Advance,
         Miss, WalkDone, AtEnd, AtEntry, Hit, add_file_present, get_file_found, get_tail,
         link_file, remove_found
    <2> QED  BY <1>1, <2>1 DEF PermitLost, TypeOK
  <1>0. ~PermitLost' => UNCHANGED PermitLost
    BY <1>3, Zenon DEF PermitLost
  <1>4. CASE InCS(t)'
    <2>1. ~PermitLost'
      BY <1>4 DEF PermitLost
    <2>2. UNCHANGED PermitLost
      BY <1>0, <2>1
    <2>3. CASE UNCHANGED files
      BY <1>2, <2>2, <2>3
    <2>4. ASSUME files' = Append(files, new_file(t)), new_file(t) \in Grid_File,
                 name[t] # Elsewhere => \A i \in 1..Len(files) : files[i].buf # name[t]
          PROVE  Registry!Operate
      <3>1. name[t] \in Threads \cup {Elsewhere} /\ req[t].file \in Files
        BY <2>4 DEF new_file, Grid_File, Places
      <3>2. Registry!Register(name[t], req[t].file)
        BY <2>2, <2>4 DEF Registry!Register, new_file
      <3> QED  BY <1>2, <1>3, <3>1, <3>2 DEF Registry!Operate
    <2>5. ASSUME cur[t] \in 1..Len(files), files' = [files EXCEPT ![cur[t]].freed = TRUE]
          PROVE  Registry!Operate
      <3>1. Registry!ReleaseBlocks(cur[t])
        BY <2>2, <2>5 DEF Registry!ReleaseBlocks
      <3> QED  BY <1>2, <1>3, <2>5, <3>1 DEF Registry!Operate
    <2> QED  BY <2>3, <2>4, <2>5, DatabaseFiles DEF FilesStep
  <1>5. CASE ~InCS(t)'
    <2>1. UNCHANGED files
      BY <1>1, <1>5 DEF TypeOK, InCS, Database, sem_wait, sem_post, append_block, Advance,
         WalkDone, add_file_present, get_file_found, get_tail, link_file, remove_found
    <2>2. CASE add_file_present(t)
      <3>1. files # << >>
        BY <1>1, <2>2 DEF add_file_present, Hit, AtEntry, TypeOK
      <3>2. CASE PermitLost'
        <4>1. Registry!Jam
          BY <2>1, <3>1, <3>2 DEF Registry!Jam
        <4> QED  BY <1>2, <1>3, <4>1 DEF Registry!Operate
      <3>3. CASE ~PermitLost'
        BY <1>0, <1>2, <2>1, <3>3
      <3> QED  BY <3>2, <3>3
    <2>3. CASE sem_post(t) \/ append_block(t)
      <3>1. sem \in Nat /\ sem' = sem + 1
        BY <1>1, <2>3 DEF sem_post, append_block, TypeOK
      <3>2. ~PermitLost'
        BY <3>1 DEF PermitLost
      <3> QED  BY <1>0, <1>2, <2>1, <3>2
    <2> QED
      BY <1>1, <1>5, <2>2, <2>3 DEF TypeOK, InCS, Database, sem_wait, Advance, Miss, AtEntry,
         WalkDone, get_file_found, get_tail, link_file, remove_found
  <1> QED  BY <1>4, <1>5

\* Every step of the server is a step of the file registry, or none.
LEMMA NextRefines ==
    ASSUME IInv, [Next]_vars
    PROVE  [Registry!RegistryNext]_(Registry!registryVars)
  <1> USE DEF Registry!registryVars
  <1>1. CASE Halt /\ up
    <2>1. UNCHANGED <<files, PermitLost>> /\ up' = FALSE
      BY <1>1 DEF Halt, db, PermitLost, InCS
    <2> QED  BY <1>1, <2>1 DEF Registry!RegistryNext, Registry!Stop
  <1>2. CASE UNCHANGED vars
    BY <1>2 DEF vars, PermitLost, InCS
  <1>3. ASSUME NEW t \in Threads, Outside(t)
        PROVE  UNCHANGED Registry!registryVars
    <2>1. Framed(t)
      BY <1>3, OutsideStep DEF IInv
    <2>2. \A u \in Threads : InCS(u)' <=> InCS(u)
      BY <2>1 DEF Framed, InCS
    <2> QED  BY <2>1, <2>2 DEF Framed, PermitLost
  <1>4. ASSUME up, NEW t \in Threads, Database(t), ~Halt
        PROVE  [Registry!RegistryNext]_(Registry!registryVars)
    BY <1>4, DatabaseRefines DEF Registry!RegistryNext
  <1> QED  BY <1>1, <1>2, <1>3, <1>4, FaultHalts DEF Next, Outside, close_server

\* The metadata server implements the abstract file registry.
THEOREM Refinement == Spec => RegistrySpec
  <1>1. Init => Registry!RegistryInit
    BY DEF Init, Registry!RegistryInit, PermitLost, CRITICAL_SECTION_SIZE
  <1>2. IInv /\ [Next]_vars => [Registry!RegistryNext]_(Registry!registryVars)
    BY NextRefines
  <1> QED  BY Inductive, <1>1, <1>2, PTL DEF Spec, RegistrySpec, Registry!RegistrySpec

-------------------------------------------------------------------------------
\* What BlocksBeforeRecord lacks to be inductive: nobody who is not at a
\* database call has appended a block, a PUT comes there only if there is a
\* repository, and it does not append more blocks than there are.
Asking == {Idle, Recv, Gone, Auth, Password, Parse, Size}

BlocksOf(t) ==
    /\ pc[t] \in Asking => appended[t] = 0
    /\ req[t].cmd = "put" /\ pc[t] \in {Wait, AppendB, Walk, Link, Post} =>
          Repos > 0 /\ appended[t] <= Repos
    /\ req[t].cmd = "put" /\ pc[t] = AppendB => appended[t] < Repos
    /\ req[t].cmd = "put" /\ pc[t] \in {Walk, Link, Post} => appended[t] = Repos

BlocksInv ==
    /\ \A t \in Threads : BlocksOf(t)
    /\ files # << >> => Repos > 0

\* No step appends a block to the list of another thread.
LEMMA BlocksFramed ==
    ASSUME TypeOK, NEW t \in Threads,
           Accept(t) \/ Handle(t) \/ SendAnswer(t) \/ (Database(t) /\ ~Halt)
    PROVE  \A u \in Threads : u # t =>
               pc'[u] = pc[u] /\ req'[u] = req[u] /\ appended'[u] = appended[u]
  <1> USE DEF TypeOK, Goto, locals, SendMessage
  <1>1. CASE Accept(t) \/ Handle(t)
    BY <1>1 DEF Accept, Handle, HandleGetDr, HandleUnknown, Answer, HandleQuit, HandleEof,
       HandleAuth, ReadUser, ReadPassword, HandleLs, HandlePut, HandleGet, HandleRemove, Begin,
       ParsePut, ParseSize, ParseGet, ParseRemove, ParseName
  <1>2. CASE SendAnswer(t)
    BY <1>2 DEF SendAnswer, ReplyPut, ReplyGetOrLs, AckRemove, ReplyRemove, EndRequest
  <1>3. CASE Database(t) /\ ~Halt
    BY <1>3 DEF Database, sem_wait, sem_post, append_block, Advance, WalkDone,
       add_file_present, get_tail, link_file, get_file_found, remove_found
  <1> QED  BY <1>1, <1>2, <1>3

\* A PUT gets to the database by ParseSize, and ends with no block of its own.
LEMMA OutsideBlocks ==
    ASSUME TypeOK, BlocksInv, NEW t \in Threads, Outside(t)
    PROVE  BlocksOf(t)'
  <1>1. BlocksOf(t) /\ Repos \in Nat
    BY ConstantsAssumption DEF BlocksInv
  <1> USE <1>1 DEF TypeOK, BlocksOf, Asking, Goto, locals, SendMessage
  <1>2. CASE Accept(t) \/ HandleGetDr(t) \/ HandleUnknown(t) \/ HandleQuit(t) \/ HandleEof(t)
    BY <1>2 DEF Accept, HandleGetDr, HandleUnknown, Answer, HandleQuit, HandleEof
  <1>3. CASE HandleAuth(t) \/ ReadUser(t) \/ ReadPassword(t)
    BY <1>3 DEF HandleAuth, ReadUser, ReadPassword
  <1>4. CASE HandleLs(t)
    <2>1. req'[t].cmd = "ls" /\ pc'[t] = Wait
      BY <1>4 DEF HandleLs
    <2> QED  BY <2>1
  <1>5. CASE HandlePut(t) \/ HandleGet(t) \/ HandleRemove(t)
    BY <1>5 DEF HandlePut, HandleGet, HandleRemove, Begin
  <1>6. CASE ParsePut(t) \/ ParseGet(t) \/ ParseRemove(t)
    BY <1>6 DEF ParsePut, ParseGet, ParseRemove, ParseName
  <1>7. CASE ParseSize(t)
    BY <1>7 DEF ParseSize
  <1>8. CASE ReplyPut(t) \/ ReplyGetOrLs(t) \/ ReplyRemove(t)
    BY <1>8 DEF ReplyPut, ReplyGetOrLs, ReplyRemove, EndRequest
  <1>9. CASE AckRemove(t)
    BY <1>9 DEF AckRemove
  <1> QED
    BY <1>2, <1>3, <1>4, <1>5, <1>6, <1>7, <1>8, <1>9 DEF Outside, Handle, SendAnswer

\* A PUT holds the semaphore for one block after the other, then for the record.
LEMMA DatabaseBlocks ==
    ASSUME TypeOK, ControlOK, BlocksInv, NEW t \in Threads, Database(t), ~Halt
    PROVE  BlocksOf(t)' /\ (files # << >> => Repos > 0)'
  <1>1. BlocksOf(t) /\ Repos \in Nat /\ (files # << >> => Repos > 0)
    BY ConstantsAssumption DEF BlocksInv
  <1> USE <1>1 DEF TypeOK, BlocksOf, Asking, Goto, db, bufs, locals
  <1>2. CASE sem_wait(t)
    BY <1>2 DEF sem_wait, Appending
  <1>3. CASE append_block(t)
    BY <1>3 DEF append_block, ControlOK
  <1>4. CASE sem_post(t) \/ Advance(t) \/ WalkDone(t)
    BY <1>4 DEF sem_post, Advance, Miss, AtEntry, WalkDone, AtEnd
  <1>5. CASE add_file_present(t) \/ get_tail(t) \/ get_file_found(t)
    BY <1>5 DEF add_file_present, get_tail, get_file_found, Hit, AtEntry, AtEnd
  <1>6. CASE link_file(t)
    BY <1>6 DEF link_file, ControlOK
  <1>7. CASE remove_found(t)
    <2>1. files # << >>
      BY <1>7 DEF remove_found, Hit, AtEntry
    <2> QED  BY <1>7, <2>1 DEF remove_found, Hit, AtEntry
  <1> QED  BY <1>2, <1>3, <1>4, <1>5, <1>6, <1>7 DEF Database

\* No record is visible without all its blocks, and none is ever made when no
\* repository is online.
THEOREM BlocksFirst == Spec => []BlocksBeforeRecord
  <1>1. Init => BlocksInv
    BY DEF Init, BlocksInv, BlocksOf, Asking, NoRequest
  <1>2. ASSUME IInv, BlocksInv, [Next]_vars
        PROVE  BlocksInv'
    <2>1. CASE Halt \/ UNCHANGED vars
      BY <1>2, <2>1 DEF Halt, db, vars, BlocksInv, BlocksOf
    <2>2. ASSUME NEW t \in Threads, Outside(t)
          PROVE  BlocksInv'
      <3>1. BlocksOf(t)' /\ UNCHANGED files
        BY <1>2, <2>2, OutsideBlocks, OutsideStep DEF IInv, Framed
      <3>2. \A u \in Threads : u # t => BlocksOf(u)'
        BY <1>2, <2>2, BlocksFramed DEF IInv, Outside, BlocksInv, BlocksOf
      <3> QED  BY <1>2, <3>1, <3>2 DEF BlocksInv
    <2>3. ASSUME NEW t \in Threads, Database(t), ~Halt
          PROVE  BlocksInv'
      <3>1. BlocksOf(t)' /\ (files # << >> => Repos > 0)'
        BY <1>2, <2>3, DatabaseBlocks DEF IInv
      <3>2. \A u \in Threads : u # t => BlocksOf(u)'
        BY <1>2, <2>3, BlocksFramed DEF IInv, BlocksInv, BlocksOf
      <3> QED  BY <3>1, <3>2 DEF BlocksInv
    <2> QED  BY <1>2, <2>1, <2>2, <2>3, FaultHalts DEF Next, Outside, close_server
  <1>3. BlocksInv => BlocksBeforeRecord
    BY DEF BlocksInv, BlocksOf, BlocksBeforeRecord
  <1> QED  BY Inductive, <1>1, <1>2, <1>3, PTL DEF Spec

-------------------------------------------------------------------------------
\* The key of a search that is in its thread's own buffer.  As long as nobody
\* has taken the name out of a GET, that GET's line is in its buffer; and from
\* when a PUT or a GET has taken its own name, to the end of the search, the
\* name is there.
Searching == {Size, Wait, AppendB, Walk}

OwnKey(t) == name[t] = t /\ req[t].cmd \notin {"ls", "remove"} /\ pc[t] \in Searching

KeysInv ==
    /\ saved.next = "name" /\ req[saved.of].cmd = "get" => at4[saved.of].kind = "line"
    /\ \A t \in Threads : OwnKey(t) => at4[t] # Other

\* strtok clears no name out of a buffer.
LEMMA TokenKeeps ==
    ASSUME TypeOK, NEW p \in Threads, at4[p] # Other
    PROVE  TokenText[p] # Other
  BY DEF TokenText, TypeOK, Places, Name, Other

\* The cut of a GET touches its own buffer or that of a request being parsed.
LEMMA CutKeeps ==
    ASSUME TypeOK, TokensAreCurrent, NEW t \in Threads, NEW a \in CutLast(TokenPlace(t)),
           NEW p \in Threads, pc[p] # Parse
    PROVE  a[p] = at4[p]
  <1>1. TokenPlace(t) # p
    BY ConstantsAssumption DEF TokenPlace, TokenOfName, TokensAreCurrent
  <1>2. CutLast(TokenPlace(t)) \subseteq
            {at4} \cup {[at4 EXCEPT ![TokenPlace(t)] = x] : x \in {Other, Name(at4[TokenPlace(t)].file)}}
    BY DEF CutLast
  <1> QED  BY <1>1, <1>2 DEF TypeOK, Places

\* The cut of a GET that took its own name leaves the name in its buffer.
LEMMA OwnCut ==
    ASSUME TypeOK, KeysInv, NEW t \in Threads, req[t].cmd = "get", TokenPlace(t) = t,
           NEW a \in CutLast(t)
    PROVE  a[t] # Other
  <1>1. saved.of = t /\ saved.next = "name"
    BY ConstantsAssumption DEF TokenPlace, TokenOfName
  <1>2. at4[t].kind = "line" /\ TokenText = at4
    BY <1>1 DEF KeysInv, TokenText, TokenOfPut
  <1>3. a = [at4 EXCEPT ![t] = Name(at4[t].file)] \/ a = at4
    BY <1>2 DEF CutLast
  <1> QED  BY <1>2, <1>3 DEF TypeOK, Places, Name, Other

\* Parsing, authenticating and answering keep the keys.
LEMMA OutsideKeys ==
    ASSUME TypeOK, NamesInv, KeysInv, NEW t \in Threads, Outside(t)
    PROVE  KeysInv'
  <1> USE DEF TypeOK, Goto, SendMessage, Cleared, StartTokens, locals, bufs
  <1>1. TokensAreCurrent /\ \A p \in Threads : p \in Places
    BY DEF NamesInv, Places
  <1>2. \A u \in Threads : u # t => pc'[u] = pc[u] /\ req'[u] = req[u] /\ name'[u] = name[u]
    BY OutsideStep DEF Framed
  <1>3. CASE \/ Accept(t) \/ HandleGetDr(t) \/ HandleUnknown(t) \/ HandleQuit(t) \/ HandleEof(t)
             \/ HandleAuth(t) \/ ReadUser(t) \/ AckRemove(t)
             \/ ReplyPut(t) \/ ReplyGetOrLs(t) \/ ReplyRemove(t)
    <2>1. /\ pc[t] # Parse /\ pc'[t] \notin Searching
          /\ saved' = saved \/ saved'.next = "arg"
          /\ at4' = at4 \/ at4' = Cleared(t)
      BY <1>3 DEF Accept, HandleGetDr, HandleUnknown, Answer, HandleQuit, HandleEof, HandleAuth,
         ReadUser, AckRemove, ReplyPut, ReplyGetOrLs, ReplyRemove, EndRequest, Searching
    <2>2. \A u \in Threads : u # t => at4'[u] = at4[u]
      BY <2>1, <1>1
    <2>3. saved'.next = "name" => saved' = saved /\ saved.of \in Threads /\ saved.of # t
      BY <2>1, <1>1 DEF TokensAreCurrent, Cursor
    <2>4. saved'.next = "name" /\ req'[saved'.of].cmd = "get" => at4'[saved'.of].kind = "line"
      BY ONLY <1>2, <2>2, <2>3, KeysInv DEF KeysInv
    <2>5. ~OwnKey(t)'
      BY ONLY <2>1 DEF OwnKey
    <2>6. \A u \in Threads : u # t /\ OwnKey(u)' => at4'[u] # Other
      BY ONLY <1>2, <2>2, KeysInv DEF KeysInv, OwnKey
    <2> QED  BY ONLY <2>4, <2>5, <2>6 DEF KeysInv
  <1>4. CASE HandleLs(t)
    <2>1. pc[t] # Parse /\ saved' = saved /\ at4' = Cleared(t) /\ req'[t].cmd = "ls"
      BY <1>4 DEF HandleLs
    <2>2. \A u \in Threads : u # t => at4'[u] = at4[u]
      BY <2>1, <1>1
    <2>3. saved'.next = "name" => saved.of \in Threads /\ saved.of # t
      BY <2>1, <1>1 DEF TokensAreCurrent, Cursor
    <2>4. saved'.next = "name" /\ req'[saved'.of].cmd = "get" => at4'[saved'.of].kind = "line"
      BY ONLY <1>2, <2>1, <2>2, <2>3, KeysInv DEF KeysInv
    <2>5. ~OwnKey(t)'
      BY ONLY <2>1 DEF OwnKey
    <2>6. \A u \in Threads : u # t /\ OwnKey(u)' => at4'[u] # Other
      BY ONLY <1>2, <2>2, KeysInv DEF KeysInv, OwnKey
    <2> QED  BY ONLY <2>4, <2>5, <2>6 DEF KeysInv
  <1>5. CASE HandlePut(t) \/ HandleGet(t) \/ HandleRemove(t)
    <2>1. PICK c \in {"put", "get", "remove"}, f \in Files :
              Begin(t, c, f, IF c = "get" THEN Line(f) ELSE Other)
      BY <1>5 DEF HandlePut, HandleGet, HandleRemove
    <2>2. /\ saved' = [of |-> t, next |-> "name"] /\ pc'[t] = Parse /\ req'[t].cmd = c
          /\ c = "get" => at4'[t].kind = "line"
          /\ \A u \in Threads : u # t => at4'[u] = at4[u]
      BY <2>1, <1>1 DEF Begin, Line
    <2> QED  BY <1>2, <2>2 DEF KeysInv, OwnKey, Searching
  <1>6. CASE ReadPassword(t) \/ ParsePut(t) \/ ParseSize(t) \/ ParseGet(t) \/ ParseRemove(t)
    <2>1. saved'.next # "name"
      <3>1. TakeToken
        BY <1>6 DEF ReadPassword, ParsePut, ParseSize, ParseGet, ParseRemove, ParseName
      <3> QED  BY <3>1 DEF TakeToken, TokenOfPut, Cursor
    <2>2. \A u \in Threads : u # t /\ OwnKey(u) => at4'[u] # Other
      <3> TAKE u \in Threads
      <3> HAVE u # t /\ OwnKey(u)
      <3>1. at4[u] # Other /\ pc[u] # Parse
        BY DEF KeysInv, OwnKey, Searching
      <3>2. CASE at4' = TokenText
        BY <3>1, <3>2, TokenKeeps
      <3>3. CASE at4' = [TokenText EXCEPT ![t] = Other]
        BY <1>1, <3>1, <3>3, TokenKeeps, TokenTextType
      <3>4. CASE at4' \in CutLast(TokenPlace(t))
        BY <1>1, <3>1, <3>4, CutKeeps
      <3> QED
        BY <1>6, <3>2, <3>3, <3>4 DEF ReadPassword, ParsePut, ParseSize, ParseGet, ParseRemove, ParseName
    <2>3. OwnKey(t)' => at4'[t] # Other
      <3>1. CASE ReadPassword(t)
        BY <3>1 DEF ReadPassword, OwnKey, Searching
      <3>2. CASE ParseRemove(t)
        BY <3>2 DEF ParseRemove, ParseName, OwnKey
      <3>3. CASE ParseSize(t)
        <4>1. OwnKey(t)' => OwnKey(t)
          BY <3>3 DEF ParseSize, OwnKey, Searching
        <4> QED  BY <3>3, <4>1, TokenKeeps DEF ParseSize, KeysInv
      <3>4. CASE ParsePut(t)
        <4>1. name'[t] = TokenPlace(t) /\ req[t].cmd = "put" /\ at4' = TokenText
          BY <3>4 DEF ParsePut, ParseName
        <4>2. TokenPlace(t) = t => TokenOfName /\ saved.of = t
          BY ConstantsAssumption DEF TokenPlace
        <4>3. TokenPlace(t) = t => at4'[t] = Name(req[t].file)
          BY <1>1, <4>1, <4>2 DEF TokenText, TokenOfPut
        <4> QED  BY <4>1, <4>3 DEF OwnKey, Name, Other
      <3>5. CASE ParseGet(t)
        <4>1. name'[t] = TokenPlace(t) /\ req[t].cmd = "get" /\ at4' \in CutLast(TokenPlace(t))
          BY <3>5 DEF ParseGet, ParseName
        <4> QED  BY <4>1, OwnCut DEF OwnKey
      <3> QED  BY <1>6, <3>1, <3>2, <3>3, <3>4, <3>5
    <2>4. \A u \in Threads : u # t /\ OwnKey(u)' => OwnKey(u)
      BY <1>2 DEF OwnKey
    <2> QED  BY <2>1, <2>2, <2>3, <2>4 DEF KeysInv
  <1> QED
    BY <1>3, <1>4, <1>5, <1>6 DEF Outside, Handle, SendAnswer

\* The operations on the list keep the keys.
LEMMA DatabaseKeys ==
    ASSUME IInv, KeysInv, NEW t \in Threads, Database(t), ~Halt
    PROVE  KeysInv'
  <1>1. DatabaseFramed(t)
    BY DatabaseStep DEF IInv
  <1>2. pc'[t] \in Searching => pc[t] \in Searching
    BY DEF IInv, TypeOK, Goto, db, bufs, locals, Searching, Database, sem_wait, sem_post,
       append_block, Advance, Miss, AtEntry, WalkDone, add_file_present, get_tail, link_file,
       get_file_found, remove_found
  <1> QED  BY <1>1, <1>2 DEF DatabaseFramed, KeysInv, OwnKey

\* At all times a key that its thread took itself is in its buffer.
THEOREM Keys == Spec => [](NamesInv /\ KeysInv)
  <1>1. Init => KeysInv
    BY DEF Init, KeysInv, OwnKey, Searching
  <1>2. ASSUME IInv, NamesInv, KeysInv, [Next]_vars
        PROVE  KeysInv'
    <2>1. CASE Halt \/ UNCHANGED vars
      BY <1>2, <2>1 DEF Halt, bufs, vars, KeysInv, OwnKey
    <2> QED
      BY <1>2, <2>1, OutsideKeys, DatabaseKeys, FaultHalts DEF IInv, Next, Outside, close_server
  <1> QED  BY Inductive, Names, <1>1, <1>2, PTL DEF Spec

\* A search that finds a record has one of the reasons named.
LEMMA HitReason ==
    ASSUME IInv, NamesInv, KeysInv, NEW t \in Threads, Hit(t)
    PROVE  MatchExplained(t)
  <1> DEFINE b == files[cur[t]].buf
             k == name[t]
  <1> SUFFICES ASSUME b # Elsewhere, k # Elsewhere
               PROVE  \/ b = k /\ (k = t => req[t].cmd # "remove")
                      \/ req[b].file = req[k].file /\ req[k].file \in Files
                      \/ k # t /\ at4[k] = Other /\ at4[b] = Other
    BY DEF MatchExplained
  <1>1. pc[t] = Walk /\ req[t].cmd # "ls" /\ at4[b] = Key(t)
    BY DEF Hit, AtEntry, CanMatch
  <1>2. b \in Threads /\ k \in Threads
    <2>1. files[cur[t]] \in Grid_File
      BY DEF Hit, AtEntry, IInv, TypeOK
    <2> QED  BY <2>1 DEF Grid_File, Places, IInv, TypeOK
  <1>3. \A u \in Threads : at4[u] # Other => at4[u].file = req[u].file /\ at4[u].file \in Files
    BY DEF NamesInv, NamesFade, IInv, TypeOK, Places, Text, Name, Line, Other
  <1>4. CASE req[t].cmd = "remove" /\ k = t
    <2>1. at4[b] = Line(req[t].file)
      BY <1>1, <1>4 DEF Key
    <2> QED  BY <1>2, <1>3, <1>4, <2>1 DEF Line, Other
  <1>5. CASE ~(req[t].cmd = "remove" /\ k = t)
    <2>1. at4[b] = at4[k]
      BY <1>1, <1>5 DEF Key
    <2>2. CASE at4[k] = Other
      <3>1. k # t
        BY <1>1, <1>5, <2>2 DEF KeysInv, OwnKey, Searching
      <3> QED  BY <2>1, <2>2, <3>1
    <2>3. CASE at4[k] # Other
      BY <1>2, <1>3, <2>1, <2>3
    <2> QED  BY <2>2, <2>3
  <1> QED  BY <1>4, <1>5

\* Whatever a search finds, for any number of threads and whatever strtok mixes
\* up, it finds for one of the reasons of MatchExplained.
THEOREM Hits == Spec => HitExplained
  <1> DEFINE Explained ==
        \A t \in Threads :
            up' /\ pc[t] = Walk /\ pc'[t] # Walk /\ cur[t] \in 1..Len(files)
                => MatchExplained(t)
  <1>1. ASSUME IInv, NamesInv, KeysInv, [Next]_vars
        PROVE  Explained
    <2> SUFFICES ASSUME NEW t \in Threads, up', pc[t] = Walk, pc'[t] # Walk,
                        cur[t] \in 1..Len(files)
                 PROVE  Hit(t)
      BY <1>1, HitReason
    <2>1. ~Halt /\ ~UNCHANGED vars
      BY DEF Halt, vars
    <2>2. ASSUME NEW u \in Threads, Outside(u)
          PROVE  FALSE
      <3>1. Framed(u)
        BY <1>1, <2>2, OutsideStep DEF IInv
      <3> QED  BY <3>1 DEF Framed, InCS
    <2>3. ASSUME NEW u \in Threads, Database(u)
          PROVE  Hit(t)
      <3>1. u = t
        BY <1>1, <2>1, <2>3, DatabaseStep DEF IInv, DatabaseFramed
      <3>2. cur[t] \in Nat /\ Len(files) \in Nat
        BY <1>1 DEF IInv, TypeOK
      <3>3. ~AtEnd(t)
        BY <3>2 DEF AtEnd
      <3> QED
        BY <2>3, <3>1, <3>3 DEF Database, sem_wait, sem_post, append_block, Advance, WalkDone,
           add_file_present, get_tail, link_file, get_file_found, remove_found
    <2> QED  BY <1>1, <2>1, <2>2, <2>3, FaultHalts DEF Next, Outside, close_server
  <1>2. IInv /\ NamesInv /\ KeysInv /\ [Next]_vars => [Explained]_vars
    BY <1>1
  <1> QED  BY Inductive, Keys, <1>2, PTL DEF Spec, HitExplained

===============================================================================
