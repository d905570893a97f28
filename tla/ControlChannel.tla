---------------------------- MODULE ControlChannel ----------------------------
(***************************************************************************)
(* One client, from login to the end of its program (client/client.c), and *)
(* the thread of the metadata server that serves its connection.  Between  *)
(* them are the lines that the server has not read and the lines of        *)
(* answers that the client has not.                                        *)
(*                                                                         *)
(* The client sends a request and takes the next line for the answer to    *)
(* it.  GET and REMOVE end with two newlines, the user's and the           *)
(* protocol's: the server reads two lines and answers both.  And an answer *)
(* that prints names of the database can be more than one line: a record's *)
(* name points into the buffer of the session that put it, and ends there  *)
(* with whatever that session's last message or answer ends with.          *)
(*                                                                         *)
(* What the server's threads do to its database is in MetadataServer: here *)
(* a request is answered, or waits for ever for a lost permit, or the      *)
(* process ends for a reason that is not this connection's.                *)
(***************************************************************************)
EXTENDS Integers, Sequences, FiniteSets

CONSTANT MaxBehind   \* bound on the lines a client leaves unread: see behind

ASSUME BoundAssumption == MaxBehind \in Nat

VARIABLES client,    \* "login", "list", "prompt", "wait", "left", "died"
          request,   \* the request whose answer it waits for
          toServer,  \* lines, oldest first
          toClient,  \* lines of answers, oldest first
          session,   \* "open", "closed", "jammed", "lost", "ended"
          reset,     \* the client's end has refused bytes: sends will fail
          behind     \* lines the client reads too late: one for each GET and
                     \* REMOVE, and those behind the first of each answer

vars == <<client, request, toServer, toClient, session, reset, behind>>

-------------------------------------------------------------------------------
Prompted == {"ls", "put", "get", "remove"}
Request  == Prompted \cup {"auth", "get_dr"}
Line     == Request \cup {"empty", "quit"}

\* A line of an answer: the first of the answer to a line, or one that follows, and
\* whether it begins with "ack".
Answer == [to : Line \cup {"rest"}, ack : BOOLEAN]

\* The session: served; left by a QUIT; waiting for a permit; the process has
\* ended because of this connection; for another reason.
Sessions == {"open", "closed", "jammed", "lost", "ended"}
Clients  == {"login", "list", "prompt", "wait", "left", "died"}

\* Type invariant of both ends and of the connection.
TypeOK ==
    /\ client \in Clients
    /\ request \in (IF client = "login" THEN {"auth"}
                   ELSE IF client = "list" THEN {"get_dr"} ELSE Request)
    /\ toServer \in Seq(Line)
    /\ toClient \in Seq(Answer)
    /\ session \in Sessions
    /\ reset \in BOOLEAN
    /\ behind \in 0..MaxBehind

\* client_init has connected, and authentication has sent its request.
Init ==
    /\ client = "login" /\ request = "auth"
    /\ toServer = <<"auth">> /\ toClient = << >>
    /\ session = "open" /\ reset = FALSE /\ behind = 0

Disconnected == session \in {"closed", "lost", "ended"}
Gone    == client \in {"left", "died"}
Waiting == client \in {"login", "list", "wait"}

-------------------------------------------------------------------------------
\* The client.
Lines_single(r) == <<r>>   \* Variant: the user's newline is cut off.
Lines(r) == IF r \in {"get", "remove"} THEN <<r, "empty">> ELSE <<r>>

Send(r) ==
    /\ client = "prompt"
    /\ r \in {"get", "remove"} => behind < MaxBehind
    /\ client' = "wait"
    /\ request' = r
    /\ toServer' = IF Disconnected THEN toServer ELSE toServer \o Lines(r)
    /\ behind' = IF r \in {"get", "remove"} THEN behind + 1 ELSE behind
    /\ UNCHANGED <<toClient, session, reset>>

\* quit_command: EXIT, a refused login, a PUT that was not acknowledged.  When
\* there are answers nobody will read, close tells the server with a reset.
quit_command_silent(rest) ==   \* Variant: it closes and says nothing.
    /\ client' = "left"
    /\ toClient' = << >>
    /\ reset' = (rest # << >>)
    /\ UNCHANGED <<request, toServer, session, behind>>

quit_command(rest) ==
    /\ client' = "left"
    /\ toServer' = Append(toServer, "quit")
    /\ toClient' = << >>
    /\ reset' = (rest # << >>)
    /\ UNCHANGED <<request, session, behind>>

\* What the client does with an answer, or with the end of the connection.
Acked_again(rest) ==   \* Variants: authentication is repeated;
    /\ client' = IF client = "login" THEN "list" ELSE "prompt"
    /\ toServer' = IF client = "login" THEN Append(toServer, "auth") ELSE toServer
    /\ toClient' = rest
    /\ UNCHANGED <<request, session, reset, behind>>
Acked_unread(rest) ==   \* the list is asked for, and not waited for.
    /\ client' = "prompt"
    /\ toServer' = IF client = "login" THEN Append(toServer, "get_dr") ELSE toServer
    /\ toClient' = rest
    /\ UNCHANGED <<request, session, reset, behind>>

Acked(rest) ==
    /\ IF client = "login"
       THEN /\ client' = "list" /\ request' = "get_dr"
            /\ toServer' = Append(toServer, "get_dr")
       ELSE /\ client' = "prompt"
            /\ UNCHANGED <<request, toServer>>
    /\ toClient' = rest
    /\ UNCHANGED <<session, reset, behind>>

Refused(rest) ==
    IF client \in {"login", "list"} \/ request = "put"
    THEN quit_command(rest)
    ELSE /\ client' = "prompt"
         /\ toClient' = rest
         /\ UNCHANGED <<request, toServer, session, reset, behind>>

Receive ==
    /\ Waiting
    /\ toClient # << >>
    /\ IF Head(toClient).ack THEN Acked(Tail(toClient)) ELSE Refused(Tail(toClient))

ReceiveEof ==
    /\ Waiting
    /\ toClient = << >>
    /\ Disconnected
    /\ Refused(<< >>)

Exit == client = "prompt" /\ quit_command(toClient)

\* The end of the input, SIGINT, a crash in PUT or GET, SIGPIPE.
Die ==
    /\ ~Gone
    /\ client' = "died"
    /\ toClient' = << >>
    /\ reset' = (toClient # << >>)
    /\ UNCHANGED <<request, toServer, session, behind>>

-------------------------------------------------------------------------------
\* The server's thread.  A line that is no command is answered with a nack.
Acks(l) ==
    CASE l \in {"auth", "get"}                   -> {TRUE, FALSE}
      [] l \in {"ls", "put", "remove", "get_dr"} -> {TRUE}
      [] OTHER                                   -> {FALSE}

\* file_db_to_string, and block_to_string for PUT and GET, print names as they find
\* them: one with a newline begins another line.  What that line begins with is what
\* is left in a buffer.
PrintsNames == {"ls", "put", "get"}
More(l, ok) ==
    IF ok /\ l \in PrintsNames
    THEN UNION {[1..k -> [to : {"rest"}, ack : BOOLEAN]] : k \in 0..(MaxBehind - behind)}
    ELSE {<< >>}

\* send_message, with the first line of the answer and what follows it: from a client
\* that is gone, bytes are refused the first time, and with the next it is an error
\* that ends the process.
Delivered(a, more) ==
    /\ toClient' = Append(toClient, a) \o more
    /\ behind' = behind + Len(more)
    /\ UNCHANGED <<session, reset>>

send_message_quiet(a, more) ==   \* Variants: the error ends the session only;
    \/ ~Gone /\ Delivered(a, more)
    \/ Gone /\ ~reset /\ reset' = TRUE /\ UNCHANGED <<toClient, session, behind>>
    \/ Gone /\ reset /\ session' = "closed" /\ UNCHANGED <<toClient, reset, behind>>
send_message_acks(a, more) ==    \* no nack is sent.
    IF ~Gone /\ a.ack THEN Delivered(a, more) ELSE UNCHANGED <<toClient, session, reset, behind>>
send_message(a, more) ==
    \/ ~Gone /\ Delivered(a, more)
    \/ Gone /\ ~reset /\ reset' = TRUE /\ UNCHANGED <<toClient, session, behind>>
    \/ Gone /\ reset /\ session' = "lost" /\ UNCHANGED <<toClient, reset, behind>>

Take(l) ==
    /\ session = "open"
    /\ toServer # << >>
    /\ l = Head(toServer)
    /\ toServer' = Tail(toServer)

Handle(l) ==
    /\ l # "quit"
    /\ Take(l)
    /\ \E ok \in Acks(l) : \E more \in More(l, ok) : send_message([to |-> l, ack |-> ok], more)
    /\ UNCHANGED <<client, request>>

HandleQuit(l) ==
    /\ l = "quit"
    /\ Take(l)
    /\ session' = "closed"
    /\ UNCHANGED <<client, request, toClient, reset, behind>>

\* The peer has closed and nothing is left to read: recv_message returns, the
\* last answer is still in buf, and it is no command.
HandleEof ==
    /\ session = "open"
    /\ toServer = << >>
    /\ Gone
    /\ send_message([to |-> "empty", ack |-> FALSE], << >>)
    /\ UNCHANGED <<client, request, toServer>>

\* After a reset, what was not read may be lost: recv returns -1.
ReceiveFails ==
    /\ session = "open"
    /\ reset
    /\ session' = "lost"
    /\ UNCHANGED <<client, request, toServer, toClient, reset, behind>>

\* A request for the database waits for a permit that is lost.
Jam ==
    /\ session = "open"
    /\ toServer # << >>
    /\ Head(toServer) \in Prompted
    /\ session' = "jammed"
    /\ UNCHANGED <<client, request, toServer, toClient, reset, behind>>

\* The process ends for another session's reason, or its own request's.
EndOfProcess ==
    /\ session \in {"open", "jammed"}
    /\ session' = "ended"
    /\ UNCHANGED <<client, request, toServer, toClient, reset, behind>>

-------------------------------------------------------------------------------
User    == Exit \/ Die \/ \E r \in Prompted : Send(r)
Reads   == Receive \/ ReceiveEof
Session == HandleEof \/ ReceiveFails \/ \E l \in Line : Handle(l) \/ HandleQuit(l)

Next == User \/ Reads \/ Session \/ Jam \/ EndOfProcess

Spec == Init /\ [][Next]_vars

\* Both programs run; the user may type nothing.
FairSpec == Spec /\ WF_vars(Reads) /\ WF_vars(Session)

\* When a program that keeps running is sure to go on: the client has an answer
\* to read or sees the end of the connection, the server a line or the client's end.
CanRead  == Waiting /\ (toClient # << >> \/ Disconnected)
CanServe == session = "open" /\ (toServer # << >> \/ Gone)
GoesOn ==
    /\ CanRead  <=> ENABLED <<Reads>>_vars
    /\ CanServe <=> ENABLED <<Session>>_vars

-------------------------------------------------------------------------------
\* While both ends are there, the lines under way are that of the request that waits,
\* one more for every GET and REMOVE so far (client.c:393, 427) and all but the first
\* of every answer (server.c:180-184): the client never catches up.
Backlog ==
    session = "open" /\ ~Gone =>
        Len(toServer) + Len(toClient) = behind + (IF Waiting THEN 1 ELSE 0)

\* While no answer has had a second line, and up to the first GET or REMOVE and that
\* one included, the client reads the answer to its own request.  So a PUT, which the
\* server always acknowledges, makes the client leave (client.c:380-382) only after
\* one of these, or when the server is gone.
InStep ==
    Waiting /\ toClient # << >> /\ behind = (IF request \in {"get", "remove"} THEN 1 ELSE 0)
        => Head(toClient).to = request

\* The session of a client that leaves with QUIT, has sent no GET or REMOVE and has
\* got no answer of more than one line, never ends the server's process
\* (protocol.c:60, 94).
OrderlyLeavesServer == session = "lost" => client = "died" \/ behind > 0

\* Every request gets an answer, unless the permit is lost.
AnswerComes == Waiting ~> (~Waiting \/ session = "jammed")

\* A client that ends without QUIT takes the server's process with it: the thread
\* answers what it has in buf until send fails (server.c:265-268).
DeathEndsServer == client = "died" ~> session \in {"lost", "ended", "jammed"}

===============================================================================
