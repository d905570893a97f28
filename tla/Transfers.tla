------------------------------ MODULE Transfers ------------------------------
(***************************************************************************)
(* The transfers between one client and one repository, both ends: the     *)
(* PUTs of client_routine and their threads (send_file_to_dr), its GETs    *)
(* (get_file_from_dr), and the repository's end of each connection.        *)
(*                                                                         *)
(* A PUT does not wait for its threads: they are detached, and it joins    *)
(* ids that are theirs or were never set.  So a transfer can still run     *)
(* when the next PUT initialises the semaphore again, cuts the local file  *)
(* of the same block to nothing, or when the user leaves.                  *)
(*                                                                         *)
(* With one repository a file is one block: a PUT starts one thread at     *)
(* most, and a GET asks for one block.                                     *)
(***************************************************************************)
EXTENDS Integers, FiniteSets

CONSTANTS Threads,  \* threads of PUTs that may run at a time
          Main,     \* the client's main thread
          Blocks,   \* names of blocks
          Size      \* bytes in a block, in buffers of sendfile

ASSUME TransferAssumption ==
    /\ Main \notin Threads
    /\ Size \in Nat
    /\ Blocks # {}

Conns == Threads \cup {Main}   \* a thread has one connection at a time

VARIABLES client,      \* "runs", "gone"
          main,        \* "prompt", "create", "join", "get"
          sem,         \* the client's semaphore
          lost,        \* threads that slept in sem_wait when sem was initialised
          pc,          \* where each thread is
          of,          \* the block it sends
          wrote,       \* bytes its split_file has written
          sent,        \* bytes its send_file has sent
          part,        \* bytes in the local file of each block
          repository,  \* "up", "down"
          session,     \* the repository's end of each connection
          got          \* bytes its recv_file has received

local  == <<of, wrote, sent, part>>
remote == <<repository, session, got>>
vars == <<client, main, sem, lost, pc, local, remote>>

-------------------------------------------------------------------------------
PCs == {"none", "wait", "split", "connect", "asked", "send"}

\* No session; before or in recv_message; in recv_file; the block is recorded.
Sessions == {"none", "asked", "recv", "stored"}

\* Type invariant of the client, the repository and the connections.
TypeOK ==
    /\ client \in {"runs", "gone"}
    /\ main \in {"prompt", "create", "join", "get"}
    /\ sem \in Nat
    /\ lost \in SUBSET Threads
    /\ pc \in [Threads -> PCs]
    /\ of \in [Threads -> Blocks]
    /\ wrote \in [Threads -> 0..Size]
    /\ sent \in [Threads -> 0..Size]
    /\ part \in [Blocks -> 0..Size]
    /\ repository \in {"up", "down"}
    /\ session \in [Conns -> Sessions]
    /\ got \in [Threads -> 0..Size]

Init ==
    /\ client = "runs" /\ main = "prompt" /\ sem = 0 /\ lost = {}
    /\ pc = [t \in Threads |-> "none"]
    /\ of \in {[t \in Threads |-> b] : b \in Blocks}
    /\ wrote = [t \in Threads |-> 0] /\ sent = wrote /\ got = wrote
    /\ part = [b \in Blocks |-> 0]
    /\ repository = "up" /\ session = [c \in Conns |-> "none"]

Runs  == client = "runs"
At(t, l) == Runs /\ pc[t] = l
Goto(t, l) == pc' = [pc EXCEPT ![t] = l]

-------------------------------------------------------------------------------
\* PUT in client_routine: the semaphore is initialised, whoever uses it.  The
\* new one does not know of threads that sleep in sem_wait.
CRITICAL_SECTION_SIZE == 1

HandlePut ==
    /\ Runs
    /\ main = "prompt"
    /\ main' = "create"
    /\ sem' = CRITICAL_SECTION_SIZE
    /\ lost' = lost \cup {t \in Threads : pc[t] = "wait" /\ sem = 0}
    /\ UNCHANGED <<client, pc, local, remote>>

\* A thread for the block in the answer, if there is one.  Its connection, and
\* that of an earlier thread, are not the same.
CreateThread(t, b) ==
    /\ main = "create"
    /\ At(t, "none")
    /\ session[t] \in {"none", "stored"}
    /\ main' = "join"
    /\ Goto(t, "wait")
    /\ of' = [of EXCEPT ![t] = b]
    /\ sent' = [sent EXCEPT ![t] = 0]
    /\ got' = [got EXCEPT ![t] = 0]
    /\ session' = [session EXCEPT ![t] = "none"]
    /\ UNCHANGED <<client, sem, lost, wrote, part, repository>>

CreateNone ==
    /\ Runs
    /\ main = "create"
    /\ main' = "join"
    /\ UNCHANGED <<client, sem, lost, pc, local, remote>>

\* pthread_join of a detached thread, or of no thread, a hundred times: each may
\* return, wait or crash (ClientEnds).
Joined ==
    /\ Runs
    /\ main = "join"
    /\ main' = "prompt"
    /\ UNCHANGED <<client, sem, lost, pc, local, remote>>

\* The process ends, with its memory and its connections: the user leaves,
\* SIGINT, a crash, a fatal error, SIGPIPE.
ClientEnds ==
    /\ Runs
    /\ client' = "gone"
    /\ main' = "prompt" /\ sem' = 0 /\ lost' = {}
    /\ pc' = [t \in Threads |-> "none"]
    /\ wrote' = [t \in Threads |-> 0]
    /\ UNCHANGED <<of, sent, part, remote>>

-------------------------------------------------------------------------------
\* send_file_to_dr.  fopen cuts the local file of the block to nothing.
Permits_any == TRUE   \* Variant: sem_wait returned early.
Permits == sem > 0

sem_wait(t) ==
    /\ At(t, "wait")
    /\ Permits
    /\ sem' = sem - 1
    /\ lost' = lost \ {t}
    /\ Goto(t, "split")
    /\ part' = [part EXCEPT ![of[t]] = 0]
    /\ UNCHANGED <<client, main, of, wrote, sent, remote>>

split_file(t) ==
    /\ At(t, "split")
    /\ wrote[t] < Size
    /\ wrote' = [wrote EXCEPT ![t] = @ + 1]
    /\ part' = [part EXCEPT ![of[t]] = IF @ > wrote[t] THEN @ ELSE wrote[t] + 1]
    /\ UNCHANGED <<client, main, sem, lost, pc, of, sent, remote>>

Posted_whole(t) == IF wrote[t] = Size THEN sem + 1 ELSE sem   \* Variant: not at EOF.
Posted(t) == sem + 1

\* All is written, or the source has got shorter: getc returns EOF.
sem_post(t) ==
    /\ At(t, "split")
    /\ sem' = Posted(t)
    /\ Goto(t, "connect")
    /\ wrote' = [wrote EXCEPT ![t] = 0]
    /\ UNCHANGED <<client, main, lost, of, sent, part, remote>>

Connect(t) ==
    /\ At(t, "connect")
    /\ repository = "up"
    /\ Goto(t, "asked")
    /\ session' = [session EXCEPT ![t] = "asked"]
    /\ UNCHANGED <<client, main, sem, lost, local, repository, got>>

\* An ack, sent before recv_file; or the end of the connection, which is no ack:
\* the thread ends.
Acked(t) ==
    /\ At(t, "asked")
    /\ session[t] \in {"recv", "stored"}
    /\ Goto(t, "send")
    /\ UNCHANGED <<client, main, sem, lost, local, remote>>

Nacked(t) ==
    /\ At(t, "asked")
    /\ repository = "down"
    /\ Goto(t, "none")
    /\ UNCHANGED <<client, main, sem, lost, local, remote>>

\* send_file: sendfile sends what the file has, now; when it has no more, it
\* returns 0 and is called again.
sendfile(t) ==
    /\ At(t, "send")
    /\ repository = "up"
    /\ sent[t] < Size
    /\ part[of[t]] > sent[t]
    /\ sent' = [sent EXCEPT ![t] = @ + 1]
    /\ UNCHANGED <<client, main, sem, lost, pc, of, wrote, part, remote>>

SentAll_eof(t) == sent[t] = Size \/ part[of[t]] <= sent[t]   \* Variant: ends on 0.
SentAll(t) == sent[t] = Size

close(t) ==
    /\ At(t, "send")
    /\ SentAll(t)
    /\ Goto(t, "none")
    /\ UNCHANGED <<client, main, sem, lost, local, remote>>

-------------------------------------------------------------------------------
\* get_file_from_dr: connect and the request, without a newline.
GetFile ==
    /\ Runs
    /\ main = "prompt"
    /\ repository = "up"
    /\ main' = "get"
    /\ session' = [session EXCEPT ![Main] = "asked"]
    /\ UNCHANGED <<client, sem, lost, pc, local, repository, got>>

\* The answer, if any; or the end of the connection: "Data repository refused".
GetAnswered ==
    /\ Runs
    /\ main = "get"
    /\ session[Main] = "recv" \/ repository = "down"
    /\ main' = "prompt"
    /\ UNCHANGED <<client, sem, lost, pc, local, remote>>

-------------------------------------------------------------------------------
\* The repository.  recv_message returns at a newline.
Newline_all(c) == TRUE   \* Variant: GET ends with a newline too.
Newline(c) == c # Main

recv_message(c) ==
    /\ repository = "up"
    /\ session[c] = "asked"
    /\ Newline(c)
    /\ session' = [session EXCEPT ![c] = "recv"]
    /\ UNCHANGED <<client, main, sem, lost, pc, local, repository, got>>

\* recv_message returns as well when the client is gone, and get_block finds no
\* block: NULL is used.
GetUnknown ==
    /\ repository = "up"
    /\ session[Main] = "asked"
    /\ client = "gone"
    /\ repository' = "down"
    /\ UNCHANGED <<client, main, sem, lost, pc, local, session, got>>

Closed(t) == pc[t] = "none"

recv_file(t) ==
    /\ repository = "up"
    /\ session[t] = "recv"
    /\ got[t] < sent[t]
    /\ got' = [got EXCEPT ![t] = @ + 1]
    /\ UNCHANGED <<client, main, sem, lost, pc, local, repository, session>>

\* recv_file returns, at the size or at the end of the connection; the block is
\* recorded.
Record(t) ==
    /\ repository = "up"
    /\ session[t] = "recv"
    /\ got[t] = Size \/ (Closed(t) /\ got[t] = sent[t])
    /\ session' = [session EXCEPT ![t] = "stored"]
    /\ UNCHANGED <<client, main, sem, lost, pc, local, repository, got>>

\* The repository's process ends: see DataRepository.
RepositoryEnds ==
    /\ repository = "up"
    /\ repository' = "down"
    /\ UNCHANGED <<client, main, sem, lost, pc, local, session, got>>

-------------------------------------------------------------------------------
User == HandlePut \/ GetFile \/ ClientEnds \/ RepositoryEnds

Put(t) ==
    \/ split_file(t) \/ sem_post(t) \/ Connect(t) \/ Acked(t) \/ Nacked(t)
    \/ sendfile(t) \/ close(t)

Repository == GetUnknown \/ \E c \in Conns : recv_message(c)
Storing(t) == recv_file(t) \/ Record(t)

Next ==
    \/ User \/ CreateNone \/ Joined \/ GetAnswered \/ Repository
    \/ \E t \in Threads :
          sem_wait(t) \/ Put(t) \/ Storing(t) \/ \E b \in Blocks : CreateThread(t, b)

Spec == Init /\ [][Next]_vars

\* Threads run, those of the repository too, one for each connection; but nobody
\* wakes those of the client that an initialisation has forgotten.
FairPut(t) == WF_vars(Put(t))
FairTransfer(t) == WF_vars(t \notin lost /\ sem_wait(t)) /\ FairPut(t) /\ WF_vars(Storing(t))
FairTransfers   == \A t \in Threads : FairTransfer(t)
FairRequest(c)  == WF_vars(recv_message(c))
FairRequests    == \A c \in Conns : FairRequest(c)
FairSpec ==
    /\ Spec
    /\ WF_vars(GetUnknown)
    /\ FairRequests
    /\ FairTransfers

\* When a thread that keeps running is sure to go on: the repository's with a GET
\* that will not be completed, and with a request that is; the client's everywhere but
\* in sem_wait, before a repository that is down, in recv_message without an answer,
\* and in sendfile when the file has no more to send.
CanPut(t) ==
    \/ At(t, "split")
    \/ At(t, "connect") /\ repository = "up"
    \/ At(t, "asked") /\ (session[t] \in {"recv", "stored"} \/ repository = "down")
    \/ At(t, "send") /\ (sent[t] = Size \/ (repository = "up" /\ part[of[t]] > sent[t]))

GoesOn ==
    /\ (repository = "up" /\ session[Main] = "asked" /\ client = "gone")
          <=> ENABLED <<GetUnknown>>_vars
    /\ \A t \in Threads :
          /\ CanPut(t) <=> ENABLED <<Put(t)>>_vars
          /\ (repository = "up" /\ session[t] = "asked") <=> ENABLED <<recv_message(t)>>_vars

-------------------------------------------------------------------------------
\* A block that has come in part is recorded like any other (protocol.c:120-125,
\* data_repository.c:280-292), but only when the client's process ended during
\* the transfer: not because a later PUT cut the local file that is being sent.
TruncatedExplained ==
    \A t \in Threads : session[t] = "stored" /\ got[t] < Size => client = "gone"

\* A GET of a block never gets an answer (client.c:251-261): the client waits for
\* the repository's process to end, and when the client ends instead, the
\* repository does too.
GetIsNeverAnswered ==
    /\ [][main = "get" /\ main' # "get" => repository = "down" \/ client' = "gone"]_vars
    /\ (client = "gone" /\ session[Main] = "asked") ~> repository = "down"

\* When the user has started the last PUT, every transfer ends, unless a process
\* did, a PUT initialised the semaphore while the transfer slept in sem_wait, or
\* the file has fewer bytes than was said.
Sending(t) == pc[t] # "none"
TransferEnds ==
    <>[](main # "create") =>
        \A t \in Threads :
            \/ Sending(t) ~> (~Sending(t) \/ client = "gone" \/ repository = "down" \/ t \in lost)
            \/ <>[](part[of[t]] < Size)

===============================================================================
