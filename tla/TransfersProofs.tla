---------------------------- MODULE TransfersProofs ----------------------------
(***************************************************************************)
(* Proofs about Transfers, for any number of threads and blocks and any    *)
(* size.                                                                   *)
(***************************************************************************)
EXTENDS Transfers, TLAPS

Up == Runs /\ repository = "up"

\* While both processes run: a request waits only as long as its thread does, and
\* a thread has ended only after it sent the whole block.
SessionsInv ==
    \A t \in Threads : Up =>
        /\ session[t] = "asked" => pc[t] = "asked"
        /\ session[t] = "recv" /\ pc[t] = "none" => sent[t] = Size

\* The main thread's connection never gets beyond its request.
MainWaits == session[Main] \in {"none", "asked"}

TransferInv == TypeOK /\ SessionsInv /\ MainWaits /\ TruncatedExplained

-------------------------------------------------------------------------------
\* No transfer is under way at first.
LEMMA TransferInit == Init => TransferInv
  <1> SUFFICES ASSUME Init PROVE TransferInv
    OBVIOUS
  <1> USE TransferAssumption DEF Init
  <1>1. 0 \in 0..Size /\ sem \in Nat
    OBVIOUS
  <1>2. of \in [Threads -> Blocks]
    OBVIOUS
  <1>3. TypeOK
    BY <1>1, <1>2 DEF TypeOK, PCs, Sessions
  <1>4. SessionsInv /\ MainWaits /\ TruncatedExplained
    BY DEF SessionsInv, MainWaits, TruncatedExplained, Conns
  <1> QED  BY <1>3, <1>4 DEF TransferInv

\* The steps of the main thread and the ends of the processes.
LEMMA MainStep ==
    ASSUME TransferInv, User \/ CreateNone \/ Joined \/ GetAnswered \/ GetUnknown
    PROVE  TransferInv'
  <1> USE TransferAssumption DEF TransferInv
  <1>1. CASE HandlePut
    <2> USE <1>1 DEF HandlePut, local, remote
    <2>1. sem' \in Nat
      BY DEF CRITICAL_SECTION_SIZE
    <2>2. TypeOK'
      BY <2>1 DEF TypeOK
    <2> QED  BY <2>2 DEF SessionsInv, MainWaits, TruncatedExplained, Up, Runs
  <1>2. CASE GetFile
    <2> USE <1>2 DEF GetFile, local
    <2>1. session' \in [Conns -> Sessions] /\ Main \in Conns /\ Main \notin Threads
      BY DEF TypeOK, Sessions, Conns
    <2>2. \A t \in Threads : session'[t] = session[t]
      BY <2>1 DEF TypeOK, Conns
    <2>3. TypeOK'
      BY <2>1 DEF TypeOK
    <2>4. MainWaits'
      BY <2>1 DEF MainWaits, TypeOK
    <2> QED  BY <2>2, <2>3, <2>4 DEF SessionsInv, TruncatedExplained, Up, Runs
  <1>3. CASE ClientEnds
    <2> USE <1>3 DEF ClientEnds, remote
    <2>1. TypeOK'
      BY DEF TypeOK, PCs
    <2> QED  BY <2>1 DEF SessionsInv, MainWaits, TruncatedExplained, Up, Runs
  <1>4. CASE RepositoryEnds \/ GetUnknown
    <2> USE <1>4 DEF RepositoryEnds, GetUnknown, local
    <2>1. TypeOK'
      BY DEF TypeOK
    <2> QED  BY <2>1 DEF SessionsInv, MainWaits, TruncatedExplained, Up, Runs
  <1>5. CASE CreateNone \/ Joined \/ GetAnswered
    <2> USE <1>5 DEF CreateNone, Joined, GetAnswered, local, remote
    <2>1. TypeOK'
      BY DEF TypeOK
    <2> QED  BY <2>1 DEF SessionsInv, MainWaits, TruncatedExplained, Up, Runs
  <1> QED  BY <1>1, <1>2, <1>3, <1>4, <1>5 DEF User

\* A new thread of a PUT begins with nothing sent and no session.
LEMMA CreateStep ==
    ASSUME TransferInv, NEW t \in Threads, NEW b \in Blocks, CreateThread(t, b)
    PROVE  TransferInv'
  <1> USE TransferAssumption DEF TransferInv, CreateThread, At, Goto
  <1>1. t \in Conns /\ t # Main /\ Main \in Conns /\ 0 \in 0..Size
    BY DEF Conns
  <1>2. TypeOK'
    BY <1>1 DEF TypeOK, PCs, Sessions
  <1>3. MainWaits'
    BY <1>1 DEF MainWaits, TypeOK
  <1>4. SessionsInv' /\ TruncatedExplained'
    <2>1. \A u \in Threads : u # t =>
             pc'[u] = pc[u] /\ session'[u] = session[u] /\ sent'[u] = sent[u] /\ got'[u] = got[u]
      BY DEF TypeOK, Conns
    <2>2. pc'[t] = "wait" /\ session'[t] = "none"
      BY <1>1 DEF TypeOK
    <2> QED  BY <2>1, <2>2 DEF SessionsInv, TruncatedExplained, Up, Runs
  <1> QED  BY <1>2, <1>3, <1>4

\* A step of a thread.
LEMMA PutStep ==
    ASSUME TransferInv, NEW t \in Threads, sem_wait(t) \/ Put(t)
    PROVE  TransferInv'
  <1> USE TransferAssumption DEF TransferInv, At, Goto
  <1>1. t \in Conns /\ t # Main /\ Main \in Conns /\ 0 \in 0..Size
    BY DEF Conns
  <1>2. CASE sem_wait(t)
    <2> USE <1>2 DEF sem_wait, Permits, remote
    <2>1. sem' \in Nat /\ part' \in [Blocks -> 0..Size]
      BY <1>1 DEF TypeOK
    <2>2. TypeOK'
      BY <2>1 DEF TypeOK, PCs
    <2> QED  BY <2>2 DEF TypeOK, SessionsInv, MainWaits, TruncatedExplained, Up, Runs
  <1>3. CASE split_file(t)
    <2> USE <1>3 DEF split_file, remote
    <2>1. wrote[t] \in 0..Size /\ wrote[t] + 1 \in 0..Size
      BY DEF TypeOK
    <2>2. wrote' \in [Threads -> 0..Size] /\ part' \in [Blocks -> 0..Size]
      BY <2>1 DEF TypeOK
    <2>3. TypeOK'
      BY <2>2 DEF TypeOK
    <2> QED  BY <2>3 DEF TypeOK, SessionsInv, MainWaits, TruncatedExplained, Up, Runs
  <1>4. CASE sem_post(t)
    <2> USE <1>4 DEF sem_post, Posted, remote
    <2>1. sem' \in Nat /\ wrote' \in [Threads -> 0..Size]
      BY <1>1 DEF TypeOK
    <2>2. TypeOK'
      BY <2>1 DEF TypeOK, PCs
    <2> QED  BY <2>2 DEF TypeOK, SessionsInv, MainWaits, TruncatedExplained, Up, Runs
  <1>5. CASE Connect(t)
    <2> USE <1>5 DEF Connect, local
    <2>1. session' \in [Conns -> Sessions]
      BY <1>1 DEF TypeOK, Sessions
    <2>2. TypeOK'
      BY <2>1 DEF TypeOK, PCs
    <2>3. MainWaits'
      BY <1>1 DEF TypeOK, MainWaits
    <2>4. pc'[t] = "asked" /\ session'[t] = "asked"
          /\ \A u \in Threads : u # t => pc'[u] = pc[u] /\ session'[u] = session[u]
      BY <1>1 DEF TypeOK, Conns
    <2> QED  BY <2>2, <2>3, <2>4 DEF SessionsInv, TruncatedExplained, Up, Runs
  <1>6. CASE Acked(t) \/ Nacked(t)
    <2> USE <1>6 DEF Acked, Nacked, local, remote
    <2>1. TypeOK'
      BY DEF TypeOK, PCs
    <2> QED  BY <2>1 DEF TypeOK, SessionsInv, MainWaits, TruncatedExplained, Up, Runs
  <1>7. CASE sendfile(t)
    <2> USE <1>7 DEF sendfile, remote
    <2>1. sent' \in [Threads -> 0..Size]
      BY DEF TypeOK
    <2>2. TypeOK'
      BY <2>1 DEF TypeOK
    <2> QED  BY <2>2 DEF TypeOK, SessionsInv, MainWaits, TruncatedExplained, Up, Runs
  <1>8. CASE close(t)
    <2> USE <1>8 DEF close, SentAll, local, remote
    <2>1. TypeOK'
      BY DEF TypeOK, PCs
    <2> QED  BY <2>1 DEF TypeOK, SessionsInv, MainWaits, TruncatedExplained, Up, Runs
  <1> QED  BY <1>2, <1>3, <1>4, <1>5, <1>6, <1>7, <1>8 DEF Put

\* A step of the repository on a connection.
LEMMA StoringStep ==
    ASSUME TransferInv, (\E c \in Conns : recv_message(c)) \/ (\E t \in Threads : Storing(t))
    PROVE  TransferInv'
  <1> USE TransferAssumption DEF TransferInv, local
  <1>1. ASSUME NEW c \in Conns, recv_message(c) PROVE TransferInv'
    <2> USE <1>1 DEF recv_message, Newline
    <2>1. c \in Threads /\ c # Main /\ Main \in Conns
      BY DEF Conns
    <2>2. TypeOK'
      BY DEF TypeOK, Sessions
    <2>3. MainWaits'
      BY <2>1 DEF MainWaits, TypeOK
    <2>4. session'[c] = "recv" /\ \A u \in Threads : u # c => session'[u] = session[u]
      BY DEF TypeOK, Conns
    <2> QED  BY <2>1, <2>2, <2>3, <2>4 DEF SessionsInv, TruncatedExplained, Up, Runs
  <1>2. ASSUME NEW t \in Threads, recv_file(t) PROVE TransferInv'
    <2> USE <1>2 DEF recv_file
    <2>1. got[t] \in 0..Size /\ sent[t] \in 0..Size /\ got[t] + 1 \in 0..Size
      BY DEF TypeOK
    <2>2. got' \in [Threads -> 0..Size]
      BY <2>1 DEF TypeOK
    <2>3. TypeOK'
      BY <2>2 DEF TypeOK
    <2> QED  BY <2>3 DEF TypeOK, SessionsInv, MainWaits, TruncatedExplained, Up, Runs
  <1>3. ASSUME NEW t \in Threads, Record(t) PROVE TransferInv'
    <2> USE <1>3 DEF Record, Closed
    <2>1. t \in Conns /\ t # Main /\ Main \in Conns
      BY DEF Conns
    <2>2. TypeOK'
      BY <2>1 DEF TypeOK, Sessions
    <2>3. MainWaits'
      BY <2>1 DEF MainWaits, TypeOK
    <2>4. session'[t] = "stored" /\ \A u \in Threads : u # t => session'[u] = session[u]
      BY <2>1 DEF TypeOK, Conns
    <2>5. got[t] < Size => client = "gone"
      <3>1. CASE got[t] = Size
        BY <3>1
      <3>2. CASE Closed(t) /\ got[t] = sent[t] /\ client = "runs"
        BY <3>2 DEF SessionsInv, Up, Runs
      <3> QED  BY <3>1, <3>2 DEF TypeOK
    <2> QED  BY <2>2, <2>3, <2>4, <2>5 DEF SessionsInv, TruncatedExplained, Up, Runs
  <1> QED  BY <1>1, <1>2, <1>3 DEF Storing

-------------------------------------------------------------------------------
\* TransferInv holds of every behaviour; SessionsInv is what TruncatedExplained
\* lacks: that a thread which has ended, in a client that runs, has sent all.
THEOREM TransferInductive == Spec => []TransferInv
  <1>1. TransferInv /\ [Next]_vars => TransferInv'
    <2> SUFFICES ASSUME TransferInv, [Next]_vars PROVE TransferInv'
      OBVIOUS
    <2>1. CASE UNCHANGED vars
      BY <2>1 DEF TransferInv, TypeOK, SessionsInv, MainWaits, TruncatedExplained,
                  Up, Runs, vars, local, remote
    <2>2. CASE Next
      BY <2>2, MainStep, CreateStep, PutStep, StoringStep DEF Next, Repository
    <2> QED  BY <2>1, <2>2
  <1> QED  BY TransferInit, <1>1, PTL DEF Spec

\* Type correctness: no count of bytes leaves its block, and the semaphore never
\* becomes negative, however often PUTs initialise it.
THEOREM TransferTyping == Spec => []TypeOK
  BY TransferInductive, PTL DEF TransferInv

\* A block is recorded in part only when the client's process ended.
THEOREM Truncation == Spec => []TruncatedExplained
  BY TransferInductive, PTL DEF TransferInv

\* The step in which a GET goes on is the end of the repository or the client.
THEOREM GetOnlyEnds ==
    Spec => [][main = "get" /\ main' # "get" => repository = "down" \/ client' = "gone"]_vars
  <1>1. TransferInv /\ [Next]_vars =>
          [main = "get" /\ main' # "get" => repository = "down" \/ client' = "gone"]_vars
    <2> SUFFICES ASSUME TransferInv, Next, main = "get", main' # "get"
                 PROVE  repository = "down" \/ client' = "gone"
      OBVIOUS
    <2> USE DEF TransferInv, MainWaits
    <2>1. CASE User
      BY <2>1 DEF User, HandlePut, GetFile, ClientEnds, RepositoryEnds
    <2>2. CASE CreateNone \/ Joined \/ GetAnswered
      BY <2>2 DEF CreateNone, Joined, GetAnswered
    <2>3. CASE Repository
      BY <2>3 DEF Repository, GetUnknown, recv_message
    <2>4. ASSUME NEW t \in Threads, NEW b \in Blocks, CreateThread(t, b) PROVE FALSE
      BY <2>4 DEF CreateThread
    <2>5. ASSUME NEW t \in Threads, sem_wait(t) \/ Put(t) \/ Storing(t) PROVE FALSE
      BY <2>5 DEF sem_wait, Put, split_file, sem_post, Connect, Acked, Nacked, sendfile, close,
                  Storing, recv_file, Record
    <2> QED  BY <2>1, <2>2, <2>3, <2>4, <2>5 DEF Next
  <1> QED  BY TransferInductive, <1>1, PTL DEF Spec

\* A GET of a block gets no answer while both processes run, and when the client
\* ends the repository does.  GoesOn is about ENABLED, and a hypothesis.
THEOREM GetNeverAnswered == ASSUME []GoesOn PROVE FairSpec => GetIsNeverAnswered
  <1> DEFINE Orphaned == client = "gone" /\ session[Main] = "asked"
             Down     == repository = "down"
  <1>1. TransferInv /\ Orphaned /\ [Next]_vars => Orphaned' \/ Down'
    <2> SUFFICES ASSUME TransferInv, Orphaned, [Next]_vars, ~Down'
                 PROVE  client' = "gone" /\ session'[Main] = "asked"
      OBVIOUS
    <2>1. Main \in Conns /\ Main \notin Threads /\ session \in [Conns -> Sessions] /\ ~Runs
          /\ \A t \in Threads : t \in Conns
      BY TransferAssumption DEF TransferInv, TypeOK, Conns, Runs
    <2>2. CASE User \/ CreateNone \/ Joined \/ GetAnswered \/ UNCHANGED vars
      BY <2>1, <2>2 DEF User, HandlePut, GetFile, ClientEnds, RepositoryEnds, CreateNone, Joined,
                        GetAnswered, vars, remote
    <2>3. CASE Repository
      BY <2>1, <2>3 DEF Repository, GetUnknown, recv_message, Newline
    <2>4. ASSUME NEW t \in Threads, Storing(t) PROVE client' = "gone" /\ session'[Main] = "asked"
      BY <2>1, <2>4 DEF Storing, recv_file, Record
    <2>5. ASSUME NEW t \in Threads,
                 sem_wait(t) \/ Put(t) \/ \E b \in Blocks : CreateThread(t, b)
          PROVE  FALSE
      BY <2>1, <2>5 DEF sem_wait, Put, split_file, sem_post, Connect, Acked, Nacked, sendfile, close,
                        CreateThread, At
    <2> QED  BY <2>2, <2>3, <2>4, <2>5 DEF Next
  <1>2. TransferInv /\ Orphaned /\ ~Down => repository = "up"
    BY DEF TransferInv, TypeOK
  <1>3. GoesOn /\ repository = "up" /\ Orphaned => ENABLED <<GetUnknown>>_vars
    BY DEF GoesOn
  <1>4. <<GetUnknown>>_vars => Down'
    BY DEF GetUnknown
  <1> HIDE DEF Orphaned, Down
  <1>5. FairSpec => (Orphaned ~> Down)
    BY TransferInductive, <1>1, <1>2, <1>3, <1>4, PTL DEF FairSpec, Spec
  <1>6. FairSpec => Spec
    BY PTL DEF FairSpec
  <1> QED  BY GetOnlyEnds, <1>5, <1>6, PTL DEF GetIsNeverAnswered, Orphaned, Down

-------------------------------------------------------------------------------
\* The semaphore of the PUTs has no deadlock of its own.
Awaited == Runs /\ (main = "create" \/ \E t \in Threads : pc[t] = "wait")
PermitIsSomewhere == Awaited /\ sem = 0 => \E t \in Threads : pc[t] = "split"

\* When a thread of a PUT waits in sem_wait, or is about to, there is a permit or
\* another thread has it and will post it, however often PUTs initialise it again
\* under the threads of earlier ones (client.c:183-185, 335): what can be lost is only
\* that the sleeper is told.
THEOREM SleeperHasPoster == Spec => []PermitIsSomewhere
  <1> DEFINE IInv == TransferInv /\ PermitIsSomewhere
  <1>1. Init => PermitIsSomewhere
    BY DEF Init, PermitIsSomewhere, Awaited
  <1>2. TransferInv /\ PermitIsSomewhere /\ [Next]_vars => PermitIsSomewhere'
    <2> SUFFICES ASSUME TransferInv, PermitIsSomewhere, [Next]_vars, Awaited', sem' = 0
                 PROVE  \E t \in Threads : pc'[t] = "split"
      BY DEF PermitIsSomewhere
    <2> USE DEF PermitIsSomewhere, Awaited
    <2>1. sem \in Nat /\ pc \in [Threads -> PCs]
      BY DEF TransferInv, TypeOK
    <2>2. CASE User \/ CreateNone \/ Joined \/ GetAnswered \/ Repository \/ UNCHANGED vars
      BY <2>1, <2>2 DEF User, HandlePut, CRITICAL_SECTION_SIZE, GetFile, ClientEnds, RepositoryEnds,
                        CreateNone, Joined, GetAnswered, Repository, GetUnknown, recv_message,
                        vars, Runs
    <2>3. ASSUME NEW t \in Threads, NEW b \in Blocks, CreateThread(t, b)
          PROVE  \E u \in Threads : pc'[u] = "split"
      BY <2>1, <2>3 DEF CreateThread, At, Goto, Runs
    <2>4. ASSUME NEW t \in Threads, sem_wait(t) PROVE \E u \in Threads : pc'[u] = "split"
      BY <2>1, <2>4 DEF sem_wait, At, Goto
    <2>5. ASSUME NEW t \in Threads, sem_post(t) PROVE FALSE
      BY <2>1, <2>5 DEF sem_post, Posted
    <2>6. ASSUME NEW t \in Threads, Put(t) PROVE \E u \in Threads : pc'[u] = "split"
      <3>1. sem' = sem /\ main' = main /\ client' = client
            /\ \A u \in Threads : (pc'[u] = "wait" => pc[u] = "wait")
                                  /\ (pc[u] = "split" => pc'[u] = "split")
        BY <2>1, <2>5, <2>6 DEF Put, split_file, Connect, Acked, Nacked, sendfile, close, At, Goto
      <3> QED  BY <3>1 DEF Runs
    <2>7. ASSUME NEW t \in Threads, Storing(t) PROVE \E u \in Threads : pc'[u] = "split"
      BY <2>7 DEF Storing, recv_file, Record, Runs
    <2> QED  BY <2>2, <2>3, <2>4, <2>6, <2>7 DEF Next
  <1> QED  BY TransferInductive, <1>1, <1>2, PTL DEF Spec

-------------------------------------------------------------------------------
\* The steps a transfer has left, the rounds of split_file and sendfile included.
Left(t) ==
    CASE pc[t] = "wait"    -> 2 * Size + 5
      [] pc[t] = "split"   -> 2 * Size + 4 - wrote[t]
      [] pc[t] = "connect" -> Size + 3
      [] pc[t] = "asked"   -> Size + 2
      [] pc[t] = "send"    -> Size + 1 - sent[t]
      [] OTHER             -> 0

\* A transfer never goes back: no step, of its thread, of the user, of another PUT
\* or of the repository, gives it a round of split_file or sendfile to do again, and
\* each step of its thread leaves one less (client.c:131-151, protocol.c:137-160).
THEOREM TransfersGoForward ==
    Spec => [][\A t \in Threads : Sending(t) =>
                  \/ Left(t)' \in Nat /\ Left(t)' < Left(t)
                  \/ Left(t)' = Left(t) /\ pc'[t] = pc[t]]_vars
  <1> DEFINE Forward(t) == \/ Left(t)' \in Nat /\ Left(t)' < Left(t)
                           \/ Left(t)' = Left(t) /\ pc'[t] = pc[t]
  <1>1. TransferInv /\ [Next]_vars => [\A t \in Threads : Sending(t) => Forward(t)]_vars
    <2> SUFFICES ASSUME TransferInv, Next, NEW t \in Threads, pc[t] # "none"
                 PROVE  Forward(t)
      BY DEF Sending
    <2>1. /\ Size \in Nat /\ pc \in [Threads -> PCs]
          /\ wrote \in [Threads -> 0..Size] /\ sent \in [Threads -> 0..Size]
          /\ wrote[t] \in 0..Size /\ sent[t] \in 0..Size /\ pc[t] \in PCs
      BY TransferAssumption DEF TransferInv, TypeOK
    <2>2. pc'[t] = pc[t] /\ wrote'[t] = wrote[t] /\ sent'[t] = sent[t] => Forward(t)
      BY DEF Left
    <2>3. pc'[t] = "none" => Forward(t)
      BY <2>1 DEF Left, PCs
    <2>4. CASE User \/ CreateNone \/ Joined \/ GetAnswered \/ Repository
      BY <2>1, <2>2, <2>3, <2>4
         DEF User, HandlePut, GetFile, ClientEnds, RepositoryEnds, CreateNone, Joined, GetAnswered,
             Repository, GetUnknown, recv_message, local
    <2>5. ASSUME NEW u \in Threads, NEW b \in Blocks, CreateThread(u, b) PROVE Forward(t)
      BY <2>1, <2>2, <2>5 DEF CreateThread, At, Goto
    <2>6. ASSUME NEW u \in Threads, Storing(u) PROVE Forward(t)
      BY <2>2, <2>6 DEF Storing, recv_file, Record, local
    <2>7. ASSUME NEW u \in Threads \ {t}, sem_wait(u) \/ Put(u) PROVE Forward(t)
      <3>1. pc'[t] = pc[t] /\ wrote'[t] = wrote[t] /\ sent'[t] = sent[t]
        BY <2>1, <2>7 DEF sem_wait, Put, split_file, sem_post, Connect, Acked, Nacked, sendfile, close,
                          At, Goto, local
      <3> QED  BY <2>2, <3>1
    <2>8. CASE sem_wait(t)
      <3>1. pc[t] = "wait" /\ pc'[t] = "split" /\ wrote'[t] = wrote[t]
        BY <2>1, <2>8 DEF sem_wait, At, Goto
      <3> QED  BY <2>1, <3>1 DEF Left
    <2>9. CASE split_file(t)
      <3>1. pc[t] = "split" /\ pc'[t] = "split" /\ wrote[t] < Size /\ wrote'[t] = wrote[t] + 1
        BY <2>1, <2>9 DEF split_file, At
      <3> QED  BY <2>1, <3>1 DEF Left
    <2>10. CASE sem_post(t)
      <3>1. pc[t] = "split" /\ pc'[t] = "connect"
        BY <2>1, <2>10 DEF sem_post, At, Goto
      <3> QED  BY <2>1, <3>1 DEF Left
    <2>11. CASE Connect(t)
      <3>1. pc[t] = "connect" /\ pc'[t] = "asked"
        BY <2>1, <2>11 DEF Connect, At, Goto
      <3> QED  BY <2>1, <3>1 DEF Left
    <2>12. CASE Acked(t)
      <3>1. pc[t] = "asked" /\ pc'[t] = "send" /\ sent'[t] = sent[t]
        BY <2>1, <2>12 DEF Acked, At, Goto, local
      <3> QED  BY <2>1, <3>1 DEF Left
    <2>13. CASE sendfile(t)
      <3>1. pc[t] = "send" /\ pc'[t] = "send" /\ sent[t] < Size /\ sent'[t] = sent[t] + 1
        BY <2>1, <2>13 DEF sendfile, At
      <3> QED  BY <2>1, <3>1 DEF Left
    <2>14. CASE Nacked(t) \/ close(t)
      BY <2>1, <2>3, <2>14 DEF Nacked, close, At, Goto
    <2> QED  BY <2>4, <2>5, <2>6, <2>7, <2>8, <2>9, <2>10, <2>11, <2>12, <2>13, <2>14 DEF Next, Put
  <1> QED  BY TransferInductive, <1>1, PTL DEF Spec

\* What FairSpec says of one thread and its connection.
LEMMA FairThread ==
    ASSUME NEW t \in Threads
    PROVE  FairSpec => FairPut(t) /\ FairRequest(t)
  <1>1. FairTransfers => FairTransfer(t)
    BY DEF FairTransfers
  <1>2. FairRequests => FairRequest(t)
    BY DEF FairRequests, Conns
  <1> QED  BY <1>1, <1>2, PTL DEF FairSpec, FairTransfer

\* The thread that has the permit goes on splitting its file: after n rounds it
\* comes to another, or it ends the loop and posts, or the client ends
\* (client.c:142-147).  With TransfersGoForward, Size + 1 times at most.
THEOREM SplitGoesOn ==
    ASSUME NEW t \in Threads, NEW n \in Nat, []GoesOn
    PROVE  FairSpec => (At(t, "split") /\ wrote[t] = n) ~> (~At(t, "split") \/ wrote[t] > n)
  <1> DEFINE Round == At(t, "split") /\ wrote[t] = n
             Beyond == ~At(t, "split") \/ wrote[t] > n
  <1>1. TransferInv /\ Round /\ [Next]_vars => Round' \/ Beyond'
    <2> SUFFICES ASSUME TransferInv, Round, [Next]_vars, Runs', pc'[t] = "split"
                 PROVE  wrote'[t] = n \/ wrote'[t] > n
      BY DEF At
    <2>1. wrote \in [Threads -> 0..Size] /\ pc \in [Threads -> PCs] /\ Size \in Nat
      BY TransferAssumption DEF TransferInv, TypeOK
    <2>2. CASE User \/ CreateNone \/ Joined \/ GetAnswered \/ Repository \/ UNCHANGED vars
      BY <2>2 DEF User, HandlePut, GetFile, ClientEnds, RepositoryEnds, CreateNone, Joined, GetAnswered,
                  Repository, GetUnknown, recv_message, local, vars
    <2>3. ASSUME NEW u \in Threads, Storing(u) PROVE wrote' = wrote
      BY <2>3 DEF Storing, recv_file, Record, local
    <2>4. ASSUME NEW u \in Threads, sem_wait(u) \/ \E b \in Blocks : CreateThread(u, b)
          PROVE  wrote' = wrote
      BY <2>4 DEF sem_wait, CreateThread
    <2>5. ASSUME NEW u \in Threads, Put(u) PROVE wrote'[t] = n \/ wrote'[t] > n
      BY <2>1, <2>5 DEF Put, split_file, sem_post, Connect, Acked, Nacked, sendfile, close, At, Goto, local
    <2> QED  BY <2>2, <2>3, <2>4, <2>5 DEF Next
  <1>2. TransferInv /\ Round /\ <<Put(t)>>_vars => Beyond'
    <2> SUFFICES ASSUME TransferInv, Round, Put(t) PROVE Beyond'
      OBVIOUS
    <2>1. wrote \in [Threads -> 0..Size] /\ pc \in [Threads -> PCs] /\ Size \in Nat
      BY TransferAssumption DEF TransferInv, TypeOK
    <2>2. split_file(t) \/ sem_post(t)
      BY DEF Put, Connect, Acked, Nacked, sendfile, close, At
    <2> QED  BY <2>1, <2>2 DEF split_file, sem_post, At, Goto
  <1>3. GoesOn /\ Round => ENABLED <<Put(t)>>_vars
    BY DEF GoesOn, CanPut
  <1>4. FairSpec => FairPut(t)
    BY FairThread
  <1> HIDE DEF Round, Beyond
  <1>5. FairSpec => (Round ~> Beyond)
    BY TransferInductive, <1>1, <1>2, <1>3, <1>4, PTL DEF FairSpec, Spec, FairPut
  <1> QED  BY <1>5 DEF Round, Beyond

-------------------------------------------------------------------------------
\* A thread that waits for its ack has a request on the connection.
AskedOK == \A t \in Threads : pc[t] = "asked" => session[t] \in {"asked", "recv", "stored"}

LEMMA Asked == Spec => []AskedOK
  <1>1. Init => AskedOK
    BY DEF Init, AskedOK
  <1>2. TransferInv /\ AskedOK /\ [Next]_vars => AskedOK'
    <2> SUFFICES ASSUME TransferInv, AskedOK, [Next]_vars, NEW t \in Threads, pc'[t] = "asked"
                 PROVE  session'[t] \in {"asked", "recv", "stored"}
      BY DEF AskedOK
    <2>1. /\ pc \in [Threads -> PCs] /\ session \in [Conns -> Sessions]
          /\ t \in Conns /\ t # Main /\ Main \in Conns
      BY TransferAssumption DEF TransferInv, TypeOK, Conns
    <2>2. pc[t] = "asked" => session[t] \in {"asked", "recv", "stored"}
      BY DEF AskedOK
    <2>3. CASE User \/ CreateNone \/ Joined \/ GetAnswered \/ Repository \/ UNCHANGED vars
      BY <2>1, <2>2, <2>3 DEF User, HandlePut, GetFile, ClientEnds, RepositoryEnds, CreateNone, Joined,
         GetAnswered, Repository, GetUnknown, recv_message, remote, vars
    <2>4. ASSUME NEW u \in Threads, NEW b \in Blocks, CreateThread(u, b)
          PROVE  session'[t] \in {"asked", "recv", "stored"}
      BY <2>1, <2>2, <2>4 DEF CreateThread, At, Goto
    <2>5. ASSUME NEW u \in Threads, sem_wait(u) \/ Put(u)
          PROVE  session'[t] \in {"asked", "recv", "stored"}
      BY <2>1, <2>2, <2>5 DEF sem_wait, Put, split_file, sem_post, Connect, Acked, Nacked, sendfile, close,
                              At, Goto, remote
    <2>6. ASSUME NEW u \in Threads, Storing(u)
          PROVE  session'[t] \in {"asked", "recv", "stored"}
      BY <2>1, <2>2, <2>6 DEF Storing, recv_file, Record, Conns
    <2> QED  BY <2>3, <2>4, <2>5, <2>6 DEF Next
  <1> QED  BY TransferInductive, <1>1, <1>2, PTL DEF Spec

\* The steps of others leave a thread where it is, and its file and bytes too, unless
\* the client ends; its request is only ever answered.
LEMMA OthersStep ==
    ASSUME TransferInv, NEW t \in Threads, pc[t] # "none", pc[t] # "wait", [Next]_vars, ~Put(t)
    PROVE  \/ pc'[t] = "none"
           \/ /\ client' = client /\ pc'[t] = pc[t] /\ of'[t] = of[t] /\ sent'[t] = sent[t]
              /\ repository' \in {repository, "down"}
              /\ session'[t] = session[t] \/ session'[t] \in {"recv", "stored"}
  <1> DEFINE Stays == \/ pc'[t] = "none"
                      \/ /\ client' = client /\ pc'[t] = pc[t] /\ of'[t] = of[t] /\ sent'[t] = sent[t]
                         /\ repository' \in {repository, "down"}
                         /\ session'[t] = session[t] \/ session'[t] \in {"recv", "stored"}
  <1>1. /\ pc \in [Threads -> PCs] /\ session \in [Conns -> Sessions]
        /\ of \in [Threads -> Blocks] /\ sent \in [Threads -> 0..Size]
        /\ t \in Conns /\ t # Main /\ Main \in Conns
    BY TransferAssumption DEF TransferInv, TypeOK, Conns
  <1>2. CASE User \/ CreateNone \/ Joined \/ GetAnswered \/ Repository \/ UNCHANGED vars
    BY <1>1, <1>2 DEF User, HandlePut, GetFile, ClientEnds, RepositoryEnds, CreateNone, Joined,
       GetAnswered, Repository, GetUnknown, recv_message, local, remote, vars
  <1>3. ASSUME NEW u \in Threads, NEW b \in Blocks, CreateThread(u, b) PROVE Stays
    BY <1>1, <1>3 DEF CreateThread, At, Goto
  <1>4. ASSUME NEW u \in Threads, u # t, sem_wait(u) \/ Put(u) PROVE Stays
    BY <1>1, <1>4 DEF sem_wait, Put, split_file, sem_post, Connect, Acked, Nacked, sendfile, close,
                      At, Goto, local, remote
  <1>5. ~sem_wait(t)
    BY DEF sem_wait, At
  <1>6. ASSUME NEW u \in Threads, Storing(u) PROVE Stays
    BY <1>1, <1>6 DEF Storing, recv_file, Record, Conns, local
  <1> QED  BY <1>2, <1>3, <1>4, <1>5, <1>6 DEF Next

\* Where a thread is, the client runs.
ThreadsRun == \A t \in Threads : pc[t] # "none" => Runs

LEMMA ThreadNeedsClient == Spec => []ThreadsRun
  <1>1. Init => ThreadsRun
    BY DEF Init, ThreadsRun, Runs
  <1>2. TransferInv /\ ThreadsRun /\ [Next]_vars => ThreadsRun'
    <2> SUFFICES ASSUME TransferInv, ThreadsRun, [Next]_vars, NEW t \in Threads, pc'[t] # "none"
                 PROVE  Runs'
      BY DEF ThreadsRun
    <2>1. pc \in [Threads -> PCs] /\ (pc[t] # "none" => Runs)
      BY DEF TransferInv, TypeOK, ThreadsRun
    <2>2. CASE User \/ CreateNone \/ Joined \/ GetAnswered \/ Repository \/ UNCHANGED vars
      BY <2>1, <2>2 DEF User, HandlePut, GetFile, ClientEnds, RepositoryEnds, CreateNone, Joined,
         GetAnswered, Repository, GetUnknown, recv_message, Runs, vars
    <2>3. ASSUME NEW u \in Threads, NEW b \in Blocks, CreateThread(u, b) PROVE Runs'
      BY <2>3 DEF CreateThread, At, Runs
    <2>4. ASSUME NEW u \in Threads, sem_wait(u) \/ Put(u) PROVE Runs'
      BY <2>4 DEF sem_wait, Put, split_file, sem_post, Connect, Acked, Nacked, sendfile, close, At, Runs
    <2>5. ASSUME NEW u \in Threads, Storing(u) PROVE Runs'
      BY <2>1, <2>5 DEF Storing, recv_file, Record, Runs
    <2> QED  BY <2>2, <2>3, <2>4, <2>5 DEF Next
  <1> QED  BY TransferInductive, <1>1, <1>2, PTL DEF Spec

\* A thread that has a block to store gets as far as sending it: it connects, the
\* repository answers the request, which ends with a newline, and the thread reads
\* the ack; or the repository or the client ends (client.c:152-176,
\* data_repository.c:270-280).
THEOREM RequestServed ==
    ASSUME NEW t \in Threads, []GoesOn
    PROVE  FairSpec => (pc[t] \in {"connect", "asked"}) ~> (pc[t] \in {"send", "none"} \/ repository = "down")
  <1> DEFINE Connecting == pc[t] = "connect" /\ repository = "up"
             Asking     == pc[t] = "asked" /\ repository = "up" /\ session[t] = "asked"
             Answered   == pc[t] = "asked" /\ repository = "up" /\ session[t] \in {"recv", "stored"}
             Under      == pc[t] \in {"connect", "asked"}
             Served     == pc[t] \in {"send", "none"} \/ repository = "down"
             Inv        == TransferInv /\ AskedOK /\ ThreadsRun
  <1>1. Inv /\ Under => Served \/ Connecting \/ Asking \/ Answered
    BY DEF AskedOK, TransferInv, TypeOK
  <1>2. /\ t \in Conns /\ t # Main
        /\ Inv => pc \in [Threads -> PCs] /\ session \in [Conns -> Sessions]
    BY TransferAssumption DEF TransferInv, TypeOK, Conns
  <1>3. ASSUME Inv, [Next]_vars, Connecting PROVE Connecting' \/ Asking' \/ Served'
    <2>1. CASE Put(t)
      BY <1>2, <1>3, <2>1
         DEF Put, split_file, sem_post, Connect, Acked, Nacked, sendfile, close, At, Goto, local
    <2> QED  BY <1>3, <2>1, OthersStep
  <1>4. ASSUME Inv, [Next]_vars, Asking PROVE Asking' \/ Answered' \/ Served'
    <2>1. CASE Put(t)
      BY <1>2, <1>4, <2>1
         DEF Put, split_file, sem_post, Connect, Acked, Nacked, sendfile, close, At, Goto, local
    <2> QED  BY <1>4, <2>1, OthersStep
  <1>5. ASSUME Inv, [Next]_vars, Answered PROVE Answered' \/ Served'
    <2>1. CASE Put(t)
      BY <1>2, <1>5, <2>1
         DEF Put, split_file, sem_post, Connect, Acked, Nacked, sendfile, close, At, Goto, local
    <2> QED  BY <1>5, <2>1, OthersStep
  <1>6. ASSUME Inv, <<Put(t)>>_vars, Connecting PROVE Asking' \/ Served'
    BY <1>2, <1>6
       DEF Put, split_file, sem_post, Connect, Acked, Nacked, sendfile, close, At, Goto, local
  <1>7. ASSUME Inv, <<recv_message(t)>>_vars, Asking PROVE Answered' \/ Served'
    BY <1>2, <1>7 DEF recv_message
  <1>8. ASSUME Inv, <<Put(t)>>_vars, Answered PROVE Served'
    BY <1>2, <1>8 DEF Put, split_file, sem_post, Connect, Acked, Nacked, sendfile, close, At, Goto, local
  <1>9. Inv /\ GoesOn => /\ Connecting \/ Answered => ENABLED <<Put(t)>>_vars
                         /\ Asking => ENABLED <<recv_message(t)>>_vars
    BY DEF ThreadsRun, GoesOn, CanPut, At
  <1>10. FairSpec => FairPut(t) /\ FairRequest(t)
    BY FairThread
  <1>11. FairSpec => []Inv
    BY TransferInductive, Asked, ThreadNeedsClient, PTL DEF FairSpec
  <1> HIDE DEF Connecting, Asking, Answered, Under, Served, Inv
  <1>12. FairSpec => [][Next]_vars
    BY PTL DEF FairSpec, Spec
  <1>13. Inv /\ [Next]_vars /\ Connecting => Connecting' \/ Asking' \/ Served'
    BY <1>3
  <1>14. Inv /\ [Next]_vars /\ Asking => Asking' \/ Answered' \/ Served'
    BY <1>4
  <1>15. Inv /\ [Next]_vars /\ Answered => Answered' \/ Served'
    BY <1>5
  <1>16. Inv /\ <<Put(t)>>_vars /\ Connecting => Asking' \/ Served'
    BY <1>6
  <1>17. Inv /\ <<recv_message(t)>>_vars /\ Asking => Answered' \/ Served'
    BY <1>7
  <1>18. Inv /\ <<Put(t)>>_vars /\ Answered => Served'
    BY <1>8
  <1>19. FairSpec => (Answered ~> Served)
    BY <1>9, <1>10, <1>11, <1>12, <1>15, <1>18, PTL DEF FairPut
  <1>20. FairSpec => (Asking ~> (Answered \/ Served))
    BY <1>9, <1>10, <1>11, <1>12, <1>14, <1>17, PTL DEF FairRequest
  <1>21. FairSpec => (Connecting ~> (Asking \/ Served))
    BY <1>9, <1>10, <1>11, <1>12, <1>13, <1>16, PTL DEF FairPut
  <1>22. FairSpec => (Under ~> Served)
    BY <1>1, <1>11, <1>19, <1>20, <1>21, PTL
  <1> QED  BY <1>22 DEF Under, Served

\* A thread that sends goes on: after n rounds of sendfile it comes to another, or to
\* the end of the block, or a process ends; or the local file has no more than what
\* was sent, cut by a later PUT of the same block (client.c:139, protocol.c:146-157).
\* With TransfersGoForward, Size + 1 times at most.
THEOREM SendGoesOn ==
    ASSUME NEW t \in Threads, NEW n \in Nat, []GoesOn
    PROVE  FairSpec =>
             (At(t, "send") /\ sent[t] = n)
                ~> (~At(t, "send") \/ sent[t] > n \/ repository = "down" \/ (part[of[t]] <= n /\ n < Size))
  <1> DEFINE Round  == At(t, "send") /\ sent[t] = n
             Beyond == ~At(t, "send") \/ sent[t] > n \/ repository = "down" \/ (part[of[t]] <= n /\ n < Size)
  <1>1. /\ Size \in Nat
        /\ TransferInv => /\ pc \in [Threads -> PCs] /\ sent[t] \in 0..Size /\ sent \in [Threads -> 0..Size]
                          /\ part[of[t]] \in 0..Size /\ repository \in {"up", "down"}
    BY TransferAssumption DEF TransferInv, TypeOK
  <1>2. ASSUME TransferInv, Round, Put(t) PROVE Beyond'
    <2>1. sendfile(t) \/ close(t)
      BY <1>2 DEF Put, split_file, sem_post, Connect, Acked, Nacked, At
    <2> QED  BY <1>1, <1>2, <2>1 DEF sendfile, close, At, Goto
  <1>3. ASSUME TransferInv, Round, [Next]_vars PROVE Round' \/ Beyond'
    BY <1>2, <1>3, OthersStep DEF At, Runs
  <1>4. TransferInv /\ GoesOn /\ Round => ENABLED <<Put(t)>>_vars \/ Beyond
    BY <1>1 DEF GoesOn, CanPut
  <1>5. FairSpec => FairPut(t)
    BY FairThread
  <1>6. TransferInv /\ Round /\ [Next]_vars => Round' \/ Beyond'
    BY <1>3
  <1>7. TransferInv /\ Round /\ <<Put(t)>>_vars => Beyond'
    BY <1>2
  <1> HIDE DEF Round, Beyond
  <1>8. FairSpec => (Round ~> Beyond)
    BY TransferInductive, <1>4, <1>5, <1>6, <1>7, PTL DEF FairSpec, Spec, FairPut
  <1> QED  BY <1>8 DEF Round, Beyond

===============================================================================
