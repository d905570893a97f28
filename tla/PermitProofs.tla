----------------------------- MODULE PermitProofs -----------------------------
(***************************************************************************)
(* Proofs about the permit of the file database's semaphore: who holds it  *)
(* goes on, one step after the other, and who loses it.                    *)
(***************************************************************************)
EXTENDS MetadataServerProofs

\* The labels are distinct and grouped as InCS says.
USE DEF Idle, Recv, Gone, Auth, Password, Parse, Size, Wait, AppendB, Walk, Link, Post, Reply, Tell

\* A walk is at a record or just behind the last one, and who is at the database,
\* or is a token away from it, has a request.
WalkOK ==
    \A t \in Threads :
        /\ pc[t] = Walk => cur[t] \in 1..(Len(files) + 1)
        /\ pc[t] \in {Size, Wait, AppendB, Walk, Link, Post} => req[t].cmd # "none"

-------------------------------------------------------------------------------
\* Parsing, authenticating and answering keep the walks where they are.
LEMMA OutsideWalk ==
    ASSUME TypeOK, WalkOK, NEW t \in Threads, Outside(t)
    PROVE  WalkOK'
  <1>1. Framed(t)
    BY OutsideStep
  <1>2. pc'[t] \in {Size, Wait} => req'[t].cmd # "none"
    <2> USE DEF TypeOK, Goto, SendMessage, locals
    <2>1. CASE HandleLs(t)
      BY <2>1 DEF HandleLs
    <2>2. CASE ParsePut(t) \/ ParseGet(t) \/ ParseRemove(t)
      BY <2>2 DEF ParsePut, ParseGet, ParseRemove, ParseName
    <2>3. CASE ParseSize(t)
      BY <2>3 DEF ParseSize, WalkOK
    <2>4. CASE Accept(t) \/ SendAnswer(t) \/ HandlePut(t) \/ HandleGet(t) \/ HandleRemove(t)
      BY <2>4 DEF Accept, SendAnswer, ReplyPut, ReplyGetOrLs, AckRemove, ReplyRemove, EndRequest,
                  HandlePut, HandleGet, HandleRemove, Begin
    <2>5. CASE HandleGetDr(t) \/ HandleUnknown(t) \/ HandleQuit(t) \/ HandleEof(t)
               \/ HandleAuth(t) \/ ReadUser(t) \/ ReadPassword(t)
      BY <2>5 DEF HandleGetDr, HandleUnknown, Answer, HandleQuit, HandleEof, HandleAuth, ReadUser,
                  ReadPassword
    <2> QED  BY <2>1, <2>2, <2>3, <2>4, <2>5 DEF Outside, Handle
  <1> QED  BY <1>1, <1>2 DEF Framed, WalkOK, InCS

\* So do the operations on the list.
LEMMA DatabaseWalk ==
    ASSUME IInv, WalkOK, NEW t \in Threads, Database(t), ~Halt
    PROVE  WalkOK'
  <1> USE DEF Goto, db, bufs, locals
  <1>1. DatabaseFramed(t) /\ TypeOK /\ Len(files) \in Nat
    BY DatabaseStep DEF IInv, TypeOK
  <1>2. pc'[t] \in {Size, Wait, AppendB, Walk, Link, Post}
          => pc[t] \in {Wait, AppendB, Walk, Link, Post}
    BY <1>1 DEF TypeOK, Database, sem_wait, sem_post, append_block, Advance, Miss, AtEntry, WalkDone,
                AtEnd, add_file_present, get_tail, link_file, get_file_found, remove_found, Hit
  <1>3. pc'[t] = Walk => files' = files /\ cur'[t] \in 1..(Len(files) + 1)
    <2>1. CASE sem_wait(t)
      BY <1>1, <2>1 DEF sem_wait, TypeOK
    <2>2. CASE Advance(t)
      BY <1>1, <2>2 DEF Advance, Miss, AtEntry, NextEntry, TypeOK
    <2> QED
      BY <1>1, <2>1, <2>2 DEF TypeOK, Database, sem_post, append_block, WalkDone, add_file_present,
         get_tail, link_file, get_file_found, remove_found
  <1> QED  BY <1>1, <1>2, <1>3 DEF DatabaseFramed, WalkOK, InCS

\* At all times every walk is within the list.
THEOREM Walks == Spec => []WalkOK
  <1>1. Init => WalkOK
    BY DEF Init, WalkOK
  <1>2. ASSUME IInv, WalkOK, [Next]_vars PROVE WalkOK'
    <2>1. CASE Halt \/ UNCHANGED vars
      BY <1>2, <2>1 DEF Halt, db, vars, WalkOK
    <2> QED
      BY <1>2, <2>1, OutsideWalk, DatabaseWalk, FaultHalts DEF IInv, Next, Outside, close_server
  <1> QED  BY Inductive, <1>1, <1>2, PTL DEF Spec

HolderCanOperate == \A t \in Threads : InCS(t) => CanOperate(t)

\* Who has the permit can go on, wherever it is: no list, no key and no request
\* blocks an operation of file_db.c between sem_wait and sem_post.
THEOREM HolderMoves == Spec => []HolderCanOperate
  <1>1. ASSUME IInv, WalkOK, NEW t \in Threads, InCS(t) PROVE CanOperate(t)
    <2>1. req[t].cmd # "none"
      BY <1>1 DEF WalkOK, InCS
    <2>2. CASE pc[t] = Walk /\ cur[t] \in 1..Len(files)
      <3>1. Hit(t) \/ Miss(t)
        BY <2>2 DEF Hit, Miss, AtEntry, CanMatch, CanDiffer
      <3> QED  BY <2>1, <3>1 DEF CanOperate
    <2>3. CASE pc[t] = Walk /\ cur[t] \notin 1..Len(files)
      <3>1. Len(files) \in Nat /\ cur[t] \in 1..(Len(files) + 1)
        BY <1>1, <2>3 DEF IInv, TypeOK, WalkOK
      <3>2. AtEnd(t)
        BY <2>3, <3>1 DEF AtEnd
      <3> QED  BY <2>1, <3>2 DEF CanOperate
    <2> QED  BY <1>1, <2>1, <2>2, <2>3 DEF InCS, CanOperate
  <1>2. IInv /\ WalkOK => HolderCanOperate
    BY <1>1 DEF HolderCanOperate
  <1> QED  BY Inductive, Walks, <1>2, PTL

-------------------------------------------------------------------------------
\* The steps that the holder of the permit has left, at most.
StepsLeft(t) ==
    CASE pc[t] = Walk -> Len(files) + 4 - cur[t]
      [] pc[t] = Link -> 2
      [] OTHER        -> 1

\* What a step of the holder does: it gives the permit back, keeps it for good, or
\* has fewer steps left.
LEMMA HolderStep ==
    ASSUME IInv, WalkOK, NEW t \in Threads, InCS(t), Database(t), ~Halt
    PROVE  \/ InCS(t)' /\ StepsLeft(t)' \in Nat /\ StepsLeft(t)' < StepsLeft(t)
           \/ ~InCS(t)' /\ sem' = 1
           \/ PermitLost' /\ pc[t] = Walk /\ Hit(t) /\ req[t].cmd = "put"
  <1> USE DEF Goto, db, bufs, locals
  <1>1. DatabaseFramed(t) /\ TypeOK /\ TypeOK' /\ Len(files) \in Nat /\ sem = 0
    BY DatabaseStep DEF IInv, TypeOK, MutualExclusion
  <1>2. pc[t] = Walk => cur[t] \in 1..(Len(files) + 1)
    BY DEF WalkOK
  <1>3. CASE sem_post(t) \/ append_block(t)
    BY <1>1, <1>3 DEF sem_post, append_block, TypeOK, InCS
  <1>4. CASE Advance(t)
    <2>1. pc[t] = Walk /\ pc'[t] = Walk /\ files' = files /\ cur'[t] = cur[t] + 1
          /\ cur[t] \in 1..Len(files)
      BY <1>1, <1>4 DEF Advance, Miss, AtEntry, NextEntry, TypeOK
    <2> QED  BY <1>1, <2>1 DEF StepsLeft, InCS
  <1>5. CASE get_tail(t) \/ WalkDone(t) \/ get_file_found(t) \/ remove_found(t)
    <2>1. pc[t] = Walk /\ pc'[t] \in {Link, Post}
      BY <1>1, <1>5 DEF get_tail, WalkDone, get_file_found, remove_found, AtEnd, Hit, AtEntry, TypeOK
    <2> QED  BY <1>1, <1>2, <2>1 DEF StepsLeft, InCS
  <1>6. CASE link_file(t)
    <2>1. pc[t] = Link /\ pc'[t] = Post
      BY <1>1, <1>6 DEF link_file, TypeOK
    <2> QED  BY <1>1, <2>1 DEF StepsLeft, InCS
  <1>7. CASE add_file_present(t)
    <2>1. pc[t] = Walk /\ pc'[t] = Reply /\ sem' = 0 /\ Hit(t) /\ req[t].cmd = "put"
      BY <1>1, <1>7 DEF add_file_present, Hit, AtEntry, TypeOK
    <2>2. \A u \in Threads : ~InCS(u)'
      BY <1>1, <2>1 DEF DatabaseFramed, InCS
    <2> QED  BY <2>1, <2>2 DEF PermitLost
  <1>8. ~sem_wait(t)
    BY DEF sem_wait, InCS
  <1> QED  BY <1>3, <1>4, <1>5, <1>6, <1>7, <1>8 DEF Database

\* A step that is not the holder's leaves its operation where it is.
LEMMA HolderStays ==
    ASSUME IInv, NEW t \in Threads, InCS(t), [Next]_vars, ~Halt, ~Database(t)
    PROVE  up' = up /\ sem' = sem /\ files' = files /\ pc'[t] = pc[t] /\ cur'[t] = cur[t]
  <1>1. CASE UNCHANGED vars
    BY <1>1 DEF vars
  <1>2. ASSUME NEW u \in Threads, Outside(u)
        PROVE  /\ up' = up /\ sem' = sem /\ files' = files
               /\ u # t => pc'[t] = pc[t] /\ cur'[t] = cur[t]
               /\ u # t
    <2>1. Framed(u)
      BY <1>2, OutsideStep DEF IInv
    <2> QED  BY <2>1 DEF Framed
  <1>3. ASSUME NEW u \in Threads, Database(u)
        PROVE  FALSE
    <2>1. DatabaseFramed(u)
      BY <1>3, DatabaseStep DEF IInv
    <2> QED  BY <1>3, <2>1 DEF DatabaseFramed
  <1> QED  BY <1>1, <1>2, <1>3, FaultHalts DEF Next, Outside, close_server

\* While a thread has the permit, nothing prolongs its operation: a step of another
\* thread does not touch the list it walks or its place in it, and each step of its
\* own leaves fewer to sem_post (file_db.c:36-45, 174-277, 384-388).
THEOREM HoldShrinks ==
    Spec => [][\A t \in Threads : InCS(t) /\ InCS(t)' =>
                  \/ StepsLeft(t)' \in Nat /\ StepsLeft(t)' < StepsLeft(t)
                  \/ StepsLeft(t)' = StepsLeft(t) /\ pc'[t] = pc[t] /\ cur'[t] = cur[t]]_vars
  <1> DEFINE Shrinks(t) ==
                  \/ StepsLeft(t)' \in Nat /\ StepsLeft(t)' < StepsLeft(t)
                  \/ StepsLeft(t)' = StepsLeft(t) /\ pc'[t] = pc[t] /\ cur'[t] = cur[t]
  <1>1. ASSUME IInv, WalkOK, [Next]_vars, NEW t \in Threads, InCS(t), InCS(t)'
        PROVE  Shrinks(t)
    <2>1. CASE Halt
      BY <2>1 DEF Halt, db, StepsLeft
    <2>2. CASE ~Halt /\ Database(t)
      <3>1. ~PermitLost'
        BY <1>1 DEF PermitLost
      <3> QED  BY <1>1, <2>2, <3>1, HolderStep
    <2>3. CASE ~Halt /\ ~Database(t)
      BY <1>1, <2>3, HolderStays DEF StepsLeft
    <2> QED  BY <2>1, <2>2, <2>3
  <1>2. IInv /\ WalkOK /\ [Next]_vars => [\A t \in Threads : InCS(t) /\ InCS(t)' => Shrinks(t)]_vars
    BY <1>1
  <1> QED  BY Inductive, Walks, <1>2, PTL DEF Spec

\* The permit comes nearer: a thread that has it and n steps left at most will have
\* fewer, unless the permit is given back, lost for good, or the process ends.
THEOREM HoldGoesOn ==
    ASSUME NEW t \in Threads, NEW n \in Nat, []GoesOn
    PROVE  Spec /\ Fairness =>
             (up /\ InCS(t) /\ StepsLeft(t) = n)
               ~> \/ up /\ InCS(t) /\ StepsLeft(t) \in Nat /\ StepsLeft(t) < n
                  \/ sem = 1 \/ PermitLost \/ ~up
  <1> DEFINE Holds == up /\ InCS(t) /\ StepsLeft(t) = n
             Nearer == \/ up /\ InCS(t) /\ StepsLeft(t) \in Nat /\ StepsLeft(t) < n
                       \/ sem = 1 \/ PermitLost \/ ~up
  <1>1. ASSUME IInv, WalkOK, Holds, [Next]_vars
        PROVE  (Holds' \/ Nearer') /\ (Database(t) => Nearer')
    <2>1. CASE Halt
      BY <2>1 DEF Halt
    <2>2. CASE ~Halt /\ Database(t)
      <3>1. up' = up
        BY <1>1, <2>2, DatabaseStep DEF IInv, DatabaseFramed
      <3> QED  BY <1>1, <2>2, <3>1, HolderStep
    <2>3. CASE ~Halt /\ ~Database(t)
      BY <1>1, <2>3, HolderStays DEF StepsLeft, InCS
    <2> QED  BY <2>1, <2>2, <2>3
  <1>2. IInv /\ WalkOK /\ Holds /\ [Next]_vars => Holds' \/ Nearer'
    BY <1>1
  <1>3. IInv /\ WalkOK /\ Holds /\ [Next]_vars /\ <<up /\ Database(t)>>_vars => Nearer'
    BY <1>1
  <1>4. HolderCanOperate /\ GoesOn /\ Holds => ENABLED <<up /\ Database(t)>>_vars
    BY DEF HolderCanOperate, GoesOn
  <1>5. Fairness => Fair(t)
    BY DEF Fairness
  <1> HIDE DEF Holds, Nearer
  <1>6. Spec /\ Fairness => (Holds ~> Nearer)
    BY Inductive, Walks, HolderMoves, <1>2, <1>3, <1>4, <1>5, PTL DEF Spec, Fair
  <1> QED  BY <1>6 DEF Holds, Nearer

-------------------------------------------------------------------------------
\* The permit is lost only by a PUT whose add_file finds its name present, and the
\* record it found is one that MatchExplained allows: in its own buffer, of a
\* thread that handles the same name, or mixed up by strtok.
PermitLossExplained ==
    [][~PermitLost /\ PermitLost' =>
          \E t \in Threads :
             /\ pc[t] = Walk /\ req[t].cmd = "put" /\ cur[t] \in 1..Len(files)
             /\ MatchExplained(t)]_vars

\* No other path loses it: not one of the database's operations, not the end of a
\* session or of the process while another thread has the permit (file_db.c:224-236).
THEOREM LossExplained == Spec => PermitLossExplained
  <1> DEFINE Explained ==
        \E t \in Threads :
             /\ pc[t] = Walk /\ req[t].cmd = "put" /\ cur[t] \in 1..Len(files)
             /\ MatchExplained(t)
  <1>1. ASSUME IInv, WalkOK, NamesInv, KeysInv, [Next]_vars, ~PermitLost, PermitLost'
        PROVE  Explained
    <2>1. ~Halt /\ ~UNCHANGED vars
      BY <1>1 DEF Halt, db, vars, PermitLost, InCS
    <2>2. ASSUME NEW u \in Threads, Outside(u) PROVE FALSE
      <3>1. Framed(u)
        BY <1>1, <2>2, OutsideStep DEF IInv
      <3> QED  BY <1>1, <3>1 DEF Framed, PermitLost, InCS
    <2>3. ASSUME NEW u \in Threads, Database(u) PROVE Explained
      <3>1. DatabaseFramed(u) /\ sem \in {0, 1}
        BY <1>1, <2>1, <2>3, DatabaseStep DEF IInv, MutualExclusion
      <3>2. CASE InCS(u)
        <4>1. pc[u] = Walk /\ Hit(u) /\ req[u].cmd = "put"
          BY <1>1, <2>1, <2>3, <3>2, HolderStep DEF PermitLost
        <4> QED  BY <1>1, <4>1, HitReason DEF Hit, AtEntry
      <3>3. CASE ~InCS(u)
        <4>1. sem_wait(u)
          BY <2>3, <3>3 DEF Database, sem_post, append_block, Advance, Miss, AtEntry, WalkDone, AtEnd,
                            add_file_present, get_tail, link_file, get_file_found, remove_found, Hit, InCS
        <4>2. InCS(u)'
          BY <1>1, <4>1 DEF sem_wait, Goto, InCS, IInv, TypeOK
        <4> QED  BY <1>1, <4>2 DEF PermitLost
      <3> QED  BY <3>2, <3>3
    <2> QED  BY <1>1, <2>1, <2>2, <2>3, FaultHalts DEF Next, Outside, close_server
  <1>2. IInv /\ WalkOK /\ NamesInv /\ KeysInv /\ [Next]_vars
          => [~PermitLost /\ PermitLost' => Explained]_vars
    BY <1>1
  <1> QED  BY Inductive, Walks, Keys, <1>2, PTL DEF Spec, PermitLossExplained

===============================================================================
