------------------------- MODULE ControlChannelProofs -------------------------
(***************************************************************************)
(* Proofs about ControlChannel, for any number of requests, and of lines   *)
(* that answers have.                                                      *)
(***************************************************************************)
EXTENDS ControlChannel, SequenceTheorems, TLAPS

\* What waits for an answer, and the lines that a request has beyond its first.
Ahead == IF Waiting THEN 1 ELSE 0
Doubled(r) == IF r \in {"get", "remove"} THEN 1 ELSE 0

\* Whatever the session's end, the client has no more answers than requests.
AnswersBound == ~Gone => Len(toClient) <= behind + Ahead

\* The first request's line or answer is next in line.
FirstInLine ==
    Waiting /\ behind = Doubled(request) =>
        IF toClient # << >> THEN Head(toClient).to = request
        ELSE session = "open" => toServer # << >> /\ Head(toServer) = request

\* A login and the list come before any GET and any name, and what waits is counted;
\* bytes are refused only when the client has gone, and by one that left in step only
\* after its QUIT was read.
Orderly ==
    /\ client \in {"login", "list"} => behind = 0
    /\ Waiting => Doubled(request) <= behind
    /\ reset \/ session = "lost" => Gone
    /\ client = "left" /\ behind = 0 =>
          /\ ~reset
          /\ session # "lost"
          /\ session = "open" => toServer = <<"quit">>

ChannelInv == TypeOK /\ Backlog /\ AnswersBound /\ FirstInLine /\ Orderly

-------------------------------------------------------------------------------
\* The lengths and heads of the queues that steps make.
LEMMA Queues ==
    ASSUME NEW S, NEW s \in Seq(S), NEW e \in S
    PROVE  /\ Append(s, e) \in Seq(S) /\ Len(Append(s, e)) = Len(s) + 1
           /\ Append(s, e) # << >>
           /\ Head(Append(s, e)) = IF s = << >> THEN e ELSE Head(s)
           /\ Len(s) \in Nat /\ (s = << >> <=> Len(s) = 0)
           /\ s # << >> => Tail(s) \in Seq(S) /\ Len(Tail(s)) = Len(s) - 1 /\ Head(s) \in S
           /\ Append(<< >>, e) = <<e>>
  <1>1. Append(s, e) \in Seq(S) /\ Len(Append(s, e)) = Len(s) + 1
    OBVIOUS
  <1>2. Len(s) \in Nat /\ (s = << >> <=> Len(s) = 0)
    OBVIOUS
  <1>3. Append(s, e) # << >>
    BY <1>1, <1>2
  <1>4. s # << >> => Tail(s) \in Seq(S) /\ Len(Tail(s)) = Len(s) - 1 /\ Head(s) \in S
    OBVIOUS
  <1>5. Append(<< >>, e) = <<e>>
    OBVIOUS
  <1>6. Head(Append(s, e)) = IF s = << >> THEN e ELSE Head(s)
    BY <1>2, <1>4
  <1> QED  BY <1>1, <1>2, <1>3, <1>4, <1>5, <1>6

\* An answer of any number of lines at the end of the queue.
LEMMA AnswerQueued ==
    ASSUME NEW S, NEW s \in Seq(S), NEW e \in S, NEW more \in Seq(S)
    PROVE  /\ Append(s, e) \o more \in Seq(S)
           /\ Len(Append(s, e) \o more) = Len(s) + 1 + Len(more)
           /\ Append(s, e) \o more # << >>
           /\ Head(Append(s, e) \o more) = IF s = << >> THEN e ELSE Head(s)
           /\ Len(more) \in Nat /\ (more = << >> <=> Len(more) = 0)
  <1> DEFINE q == Append(s, e)
  <1>1. /\ q \in Seq(S) /\ Len(q) = Len(s) + 1 /\ q # << >> /\ Len(s) \in Nat
        /\ Head(q) = IF s = << >> THEN e ELSE Head(s)
    BY Queues
  <1>2. Len(more) \in Nat /\ (more = << >> <=> Len(more) = 0)
    OBVIOUS
  <1> HIDE DEF q
  <1>3. q \o more \in Seq(S) /\ Len(q \o more) = Len(q) + Len(more)
    BY <1>1
  <1>4. q \o more # << >> /\ Head(q \o more) = Head(q)
    <2>1. 1 <= Len(q) /\ 1 <= Len(q \o more)
      BY <1>1, <1>2, <1>3
    <2>2. (q \o more)[1] = q[1]
      BY <1>1, <2>1
    <2> QED  BY <1>1, <1>3, <2>1, <2>2
  <1> QED  BY <1>1, <1>2, <1>3, <1>4 DEF q

\* What follows the first line of an answer: as many lines as the bound leaves room
\* for, and none but for a request that prints names.
LEMMA MoreLines ==
    ASSUME TypeOK, NEW l, NEW ok, NEW more \in More(l, ok)
    PROVE  /\ more \in Seq(Answer)
           /\ behind + Len(more) \in 0..MaxBehind
           /\ l \notin PrintsNames => more = << >>
  <1> USE BoundAssumption DEF TypeOK
  <1>1. CASE ok /\ l \in PrintsNames
    <2>1. PICK k \in 0..(MaxBehind - behind) : more \in [1..k -> [to : {"rest"}, ack : BOOLEAN]]
      BY <1>1 DEF More
    <2>2. [to : {"rest"}, ack : BOOLEAN] \subseteq Answer
      BY DEF Answer
    <2>3. k \in Nat /\ more \in [1..k -> Answer]
      BY <2>1, <2>2
    <2>4. more \in Seq(Answer) /\ Len(more) = k
      BY <2>3
    <2> QED  BY <1>1, <2>1, <2>4
  <1>2. CASE ~(ok /\ l \in PrintsNames)
    <2>1. more = << >>
      BY <1>2 DEF More
    <2> QED  BY <2>1
  <1> QED  BY <1>1, <1>2

\* The lines of a request.
LEMMA RequestLines ==
    ASSUME NEW r \in Prompted, NEW s \in Seq(Line)
    PROVE  /\ s \o Lines(r) \in Seq(Line)
           /\ Len(s \o Lines(r)) = Len(s) + 1 + Doubled(r)
           /\ s = << >> => s \o Lines(r) # << >> /\ Head(s \o Lines(r)) = r
  <1>1. r \in Line /\ "empty" \in Line
    BY DEF Prompted, Line, Request
  <1>2. CASE r \in {"get", "remove"}
    <2>1. Lines(r) = <<r, "empty">> /\ Doubled(r) = 1
      BY <1>2 DEF Lines, Doubled
    <2>2. Lines(r) \in Seq(Line) /\ Len(Lines(r)) = 2 /\ Head(Lines(r)) = r
      BY <1>1, <2>1
    <2> QED  BY <2>1, <2>2
  <1>3. CASE r \notin {"get", "remove"}
    <2>1. Lines(r) = <<r>> /\ Doubled(r) = 0
      BY <1>3 DEF Lines, Doubled
    <2>2. Lines(r) \in Seq(Line) /\ Len(Lines(r)) = 1 /\ Head(Lines(r)) = r
      BY <1>1, <2>1
    <2> QED  BY <2>1, <2>2
  <1> QED  BY <1>2, <1>3

-------------------------------------------------------------------------------
\* The first step of a behaviour: the login is under way.
LEMMA ChannelInit == Init => ChannelInv
  <1> SUFFICES ASSUME Init PROVE ChannelInv
    OBVIOUS
  <1> USE BoundAssumption DEF Init
  <1>1. "auth" \in Line /\ "auth" \in Request
    BY DEF Line, Request
  <1>2. TypeOK
    <2>1. toServer \in Seq(Line) /\ toClient \in Seq(Answer)
      BY <1>1
    <2>2. behind \in 0..MaxBehind /\ client = "login" /\ request = "auth"
      OBVIOUS
    <2>3. client \in Clients /\ session \in Sessions /\ reset \in BOOLEAN
      BY DEF Clients, Sessions
    <2> QED  BY <2>1, <2>2, <2>3 DEF TypeOK
  <1>3. Backlog /\ AnswersBound
    BY DEF Backlog, AnswersBound, Waiting, Gone, Ahead
  <1>4. FirstInLine
    BY DEF FirstInLine, Doubled
  <1>5. Orderly
    BY DEF Orderly, Gone, Doubled
  <1> QED  BY <1>2, <1>3, <1>4, <1>5 DEF ChannelInv

\* A client that leaves in step leaves nothing unread, and QUIT is all there is
\* for the server to read.
LEMMA QuitStep ==
    ASSUME ChannelInv, ~Gone, NEW rest \in Seq(Answer), quit_command(rest),
           behind = 0 => rest = << >> /\ (session = "open" => toServer = << >>)
    PROVE  ChannelInv'
  <1> USE DEF ChannelInv, TypeOK, quit_command, Clients, Gone, Waiting
  <1>1. "quit" \in Line
    BY DEF Line
  <1>2. toServer' \in Seq(Line)
    BY <1>1
  <1>3. TypeOK'
    <2>1. request' \in Request
      BY DEF Request
    <2>2. toClient' \in Seq(Answer)
      OBVIOUS
    <2> QED  BY <1>2, <2>1, <2>2
  <1>4. Backlog' /\ AnswersBound' /\ FirstInLine'
    BY DEF Backlog, AnswersBound, FirstInLine
  <1>5. Orderly'
    <2>1. session # "lost"
      BY DEF Orderly
    <2>2. behind = 0 /\ session = "open" => toServer' = <<"quit">>
      BY <1>1, Queues
    <2> QED  BY <2>1, <2>2 DEF Orderly
  <1> QED  BY <1>3, <1>4, <1>5

\* The user's steps.
LEMMA UserStep ==
    ASSUME ChannelInv, User
    PROVE  ChannelInv'
  <1> USE DEF ChannelInv
  <1>1. ASSUME NEW r \in Prompted, Send(r) PROVE ChannelInv'
    <2> USE <1>1 DEF Send
    <2>1. r \in Request /\ ~Gone /\ ~Waiting /\ Waiting' /\ ~Gone' /\ Ahead = 0 /\ Ahead' = 1
      BY DEF Request, Gone, Waiting, Ahead
    <2>2. behind' = behind + Doubled(r) /\ behind \in Nat
      BY DEF Doubled, TypeOK
    <2>3. TypeOK'
      <3>1. toServer' \in Seq(Line)
        BY RequestLines DEF TypeOK
      <3>2. behind' \in 0..MaxBehind
        BY BoundAssumption DEF TypeOK
      <3> QED  BY <2>1, <3>1, <3>2 DEF TypeOK, Clients
    <2>4. Backlog'
      <3>1. session = "open" => toServer' = toServer \o Lines(r) /\ Len(toServer) + Len(toClient) = behind
        <4>1. session = "open" => toServer' = toServer \o Lines(r)
          BY DEF Disconnected
        <4>2. session = "open" => Len(toServer) + Len(toClient) = behind + 0
          BY <2>1 DEF Backlog
        <4> QED  BY <2>2, <4>1, <4>2
      <3>2. session = "open" => Len(toServer') = Len(toServer) + 1 + Doubled(r)
        BY <3>1, RequestLines DEF TypeOK
      <3>3. Len(toServer) \in Nat /\ Len(toClient) \in Nat /\ Doubled(r) \in Nat
        BY DEF TypeOK, Doubled
      <3> QED  BY <2>1, <2>2, <3>1, <3>2, <3>3 DEF Backlog
    <2>5. AnswersBound'
      <3>1. Len(toClient) \in Nat /\ Doubled(r) \in Nat
        BY DEF TypeOK, Doubled
      <3> QED  BY <2>1, <2>2, <3>1 DEF AnswersBound
    <2>6. FirstInLine'
      <3>1. CASE behind # 0
        BY <2>2, <3>1 DEF FirstInLine, Doubled
      <3>2. CASE behind = 0
        <4>1. toClient = << >>
          BY <2>1, <3>2 DEF AnswersBound, TypeOK
        <4>2. session = "open" => toServer = << >>
          BY <2>1, <3>2, <4>1 DEF Backlog, TypeOK
        <4>3. session = "open" => toServer' # << >> /\ Head(toServer') = r
          BY <4>2, RequestLines DEF TypeOK, Disconnected
        <4> QED  BY <4>1, <4>3 DEF FirstInLine
      <3> QED  BY <3>1, <3>2
    <2>7. Orderly'
      <3>1. Doubled(r)' <= behind'
        BY <2>2 DEF Doubled
      <3> QED  BY <2>1, <3>1 DEF Orderly, Gone
    <2> QED  BY <2>3, <2>4, <2>5, <2>6, <2>7
  <1>2. CASE Exit
    <2>1. ~Gone /\ Ahead = 0
      BY <1>2 DEF Exit, Gone, Waiting, Ahead
    <2>2. behind = 0 => toClient = << >> /\ (session = "open" => toServer = << >>)
      <3>1. Len(toClient) \in Nat /\ Len(toServer) \in Nat
        BY DEF TypeOK
      <3>2. behind = 0 => Len(toClient) = 0
        BY <2>1, <3>1 DEF AnswersBound
      <3>3. session = "open" => Len(toServer) + Len(toClient) = behind + Ahead
        BY <2>1 DEF Backlog, Ahead
      <3>4. behind = 0 /\ session = "open" => Len(toServer) = 0
        BY <2>1, <3>1, <3>2, <3>3
      <3> QED  BY <3>2, <3>4 DEF TypeOK
    <2> QED  BY <1>2, <2>1, <2>2, QuitStep DEF Exit, TypeOK
  <1>3. CASE Die
    <2> USE <1>3 DEF Die
    <2>1. Gone' /\ ~Waiting' /\ ~Gone
      BY DEF Gone, Waiting
    <2>2. TypeOK'
      <3>1. request \in Request
        BY DEF TypeOK, Request
      <3>2. toClient' \in Seq(Answer)
        OBVIOUS
      <3> QED  BY <3>1, <3>2 DEF TypeOK, Clients
    <2>3. Backlog' /\ AnswersBound' /\ FirstInLine'
      BY <2>1 DEF Backlog, AnswersBound, FirstInLine
    <2>4. Orderly'
      BY <2>1 DEF Orderly
    <2> QED  BY <2>2, <2>3, <2>4
  <1> QED  BY <1>1, <1>2, <1>3 DEF User

\* An answer that is no ack leaves in step, too.
LEMMA RefusedStep ==
    ASSUME ChannelInv, Waiting, NEW rest \in Seq(Answer), Refused(rest),
           behind = 0 => rest = << >> /\ (session = "open" => toServer = << >>),
           Len(rest) <= behind,
           session = "open" => Len(toServer) + Len(rest) = behind
    PROVE  ChannelInv'
  <1>1. ~Gone
    BY DEF Waiting, Gone
  <1>2. CASE client \in {"login", "list"} \/ request = "put"
    BY <1>1, <1>2, QuitStep DEF Refused
  <1>3. CASE ~(client \in {"login", "list"} \/ request = "put")
    <2> USE <1>3 DEF ChannelInv, Refused
    <2>1. ~Waiting' /\ ~Gone' /\ client' = "prompt"
      BY DEF Waiting, Gone
    <2>2. request \in Request
      BY DEF TypeOK, Request
    <2>3. TypeOK'
      BY <2>1, <2>2 DEF TypeOK, Clients
    <2>4. Backlog' /\ AnswersBound'
      <3>1. behind \in Nat /\ Len(toServer) \in Nat /\ Len(rest) \in Nat /\ Ahead' = 0
        BY <2>1 DEF TypeOK, Ahead
      <3>2. AnswersBound'
        BY <3>1 DEF AnswersBound
      <3>3. Backlog'
        BY <2>1, <3>1 DEF Backlog
      <3> QED  BY <3>2, <3>3
    <2>5. FirstInLine' /\ Orderly'
      BY <1>1, <2>1 DEF FirstInLine, Orderly
    <2> QED  BY <2>3, <2>4, <2>5
  <1> QED  BY <1>2, <1>3

\* The client's steps on an answer, or on the end of the connection.
LEMMA ReadStep ==
    ASSUME ChannelInv, Reads
    PROVE  ChannelInv'
  <1> USE DEF ChannelInv
  <1>0. Waiting /\ ~Gone /\ Ahead = 1 /\ behind \in Nat /\ Len(toClient) \in Nat /\ Len(toServer) \in Nat
    BY DEF Reads, Receive, ReceiveEof, Waiting, Gone, Ahead, TypeOK
  <1>1. session = "open" => Len(toServer) + Len(toClient) = behind + 1
    BY <1>0 DEF Backlog
  <1>2. Len(toClient) <= behind + 1
    BY <1>0 DEF AnswersBound
  <1>3. CASE Receive
    <2> DEFINE rest == Tail(toClient)
    <2>1. rest \in Seq(Answer) /\ Len(rest) = Len(toClient) - 1 /\ toClient # << >>
      BY <1>3 DEF Receive, TypeOK
    <2>2. Len(rest) <= behind /\ (session = "open" => Len(toServer) + Len(rest) = behind)
      BY <1>0, <1>1, <1>2, <2>1
    <2>3. behind = 0 => rest = << >> /\ (session = "open" => toServer = << >>)
      <3> SUFFICES ASSUME behind = 0
                   PROVE  rest = << >> /\ (session = "open" => toServer = << >>)
        OBVIOUS
      <3>1. Len(rest) \in Nat
        BY <2>1
      <3>2. Len(rest) = 0
        <4>1. Len(rest) <= 0
          BY <2>2
        <4> HIDE DEF rest
        <4> QED  BY <3>1, <4>1
      <3>3. rest = << >>
        BY <2>1, <3>2, EmptySeq
      <3>4. CASE session = "open"
        <4>1. Len(toServer) = 0
          BY <1>0, <2>2, <3>1, <3>4
        <4>2. toServer = << >>
          BY <4>1, EmptySeq DEF TypeOK
        <4> QED  BY <3>3, <4>2
      <3> QED  BY <3>3, <3>4
    <2>4. CASE Refused(rest)
      BY <1>0, <2>1, <2>2, <2>3, <2>4, RefusedStep
    <2>5. CASE Acked(rest) /\ client = "login"
      <3> USE <2>5 DEF Acked
      <3>1. Waiting' /\ ~Gone' /\ Ahead' = 1 /\ behind = 0 /\ client' = "list" /\ request' = "get_dr"
        BY DEF Waiting, Gone, Orderly, Ahead
      <3>2. "get_dr" \in Line /\ toServer \in Seq(Line)
        BY DEF Line, Request, TypeOK
      <3>3. toServer' = Append(toServer, "get_dr") /\ toServer' \in Seq(Line) /\ Len(toServer') = Len(toServer) + 1
        BY <3>2
      <3>4. session = "open" => toServer' # << >> /\ Head(toServer') = "get_dr"
        BY <2>3, <3>1, <3>2, <3>3, Queues
      <3>5. TypeOK'
        BY <2>1, <3>1, <3>3 DEF TypeOK, Clients
      <3>6. Backlog'
        BY <1>0, <2>1, <2>2, <3>1, <3>3 DEF Backlog
      <3>7. AnswersBound'
        BY <1>0, <2>1, <2>2, <3>1 DEF AnswersBound
      <3>8. FirstInLine'
        BY <2>3, <3>1, <3>4 DEF FirstInLine
      <3>9. Orderly'
        BY <1>0, <3>1 DEF Orderly, Doubled
      <3> QED  BY <3>5, <3>6, <3>7, <3>8, <3>9
    <2>6. CASE Acked(rest) /\ client # "login"
      <3> USE <2>6 DEF Acked
      <3>1. ~Waiting' /\ ~Gone' /\ Ahead' = 0 /\ client' = "prompt" /\ request \in Request
        BY DEF Waiting, Gone, Ahead, TypeOK, Request
      <3>2. TypeOK'
        BY <2>1, <3>1 DEF TypeOK, Clients
      <3>3. Backlog'
        BY <1>0, <2>1, <2>2, <3>1 DEF Backlog
      <3>4. AnswersBound'
        BY <1>0, <2>1, <2>2, <3>1 DEF AnswersBound
      <3>5. FirstInLine' /\ Orderly'
        BY <1>0, <3>1 DEF FirstInLine, Orderly
      <3> QED  BY <3>2, <3>3, <3>4, <3>5
    <2> QED  BY <1>3, <2>4, <2>5, <2>6 DEF Receive
  <1>4. CASE ReceiveEof
    <2>1. session # "open"
      BY <1>4 DEF ReceiveEof, Disconnected
    <2>2. << >> \in Seq(Answer) /\ Len(<< >>) = 0
      OBVIOUS
    <2>3. Refused(<< >>)
      BY <1>4 DEF ReceiveEof
    <2>4. 0 <= behind
      BY <1>0
    <2> QED  BY <1>0, <2>1, <2>2, <2>3, <2>4, RefusedStep
  <1> QED  BY <1>3, <1>4 DEF Reads

\* An answer that the client is there for goes to the end of the queue; one that
\* it is not there for changes nothing but the fate of later ones.
LEMMA SendStep ==
    ASSUME ChannelInv, session = "open", NEW a \in Answer, NEW more \in Seq(Answer),
           send_message(a, more), behind + Len(more) \in 0..MaxBehind,
           UNCHANGED <<client, request>>, toServer' \in Seq(Line),
           ~Gone => /\ toServer # << >> /\ a.to = Head(toServer)
                    /\ Len(toServer') = Len(toServer) - 1,
           client \in {"login", "list"} => more = << >>,
           ~(client = "left" /\ behind = 0)
    PROVE  ChannelInv'
  <1> USE DEF ChannelInv
  <1>0. /\ Waiting' = Waiting /\ Gone' = Gone /\ Ahead' = Ahead /\ Doubled(request)' = Doubled(request)
        /\ Len(toClient) \in Nat /\ Len(toServer) \in Nat /\ Ahead \in Nat /\ behind \in Nat
        /\ Len(more) \in Nat /\ (more = << >> <=> Len(more) = 0) /\ Doubled(request) \in 0..1
    BY DEF Waiting, Gone, Ahead, Doubled, TypeOK
  <1>1. CASE ~Gone
    <2>1. /\ toClient' = Append(toClient, a) \o more /\ behind' = behind + Len(more)
          /\ session' = session /\ reset' = reset
      BY <1>1 DEF send_message, Delivered
    <2>2. toClient' \in Seq(Answer) /\ Len(toClient') = Len(toClient) + 1 + Len(more)
      BY <2>1, AnswerQueued DEF TypeOK
    <2>3. TypeOK'
      BY <2>1, <2>2 DEF TypeOK
    <2>4. Len(toServer) + Len(toClient) = behind + Ahead
      BY <1>1 DEF Backlog, Ahead
    <2>5. Len(toServer) # 0
      BY <1>1 DEF TypeOK
    <2>6. Backlog'
      <3> DEFINE u == Len(toServer)
                 v == Len(toClient)
                 m == Len(more)
      <3>1. Len(toServer') = u - 1 /\ Len(toClient') = v + 1 + m /\ behind' = behind + m /\ Ahead' = Ahead
        BY <1>0, <1>1, <2>1, <2>2
      <3>2. u + v = behind + Ahead /\ u \in Nat /\ v \in Nat /\ m \in Nat /\ behind \in Nat /\ Ahead \in Nat
        BY <1>0, <2>4
      <3> HIDE DEF u, v, m
      <3>3. Len(toServer') + Len(toClient') = behind' + Ahead'
        BY <3>1, <3>2
      <3> QED  BY <3>3 DEF Backlog, Ahead
    <2>7. AnswersBound'
      BY <1>0, <2>1, <2>2, <2>4, <2>5 DEF AnswersBound
    <2>8. FirstInLine'
      <3>1. Head(toClient') = (IF toClient = << >> THEN a ELSE Head(toClient)) /\ toClient' # << >>
        BY <2>1, AnswerQueued DEF TypeOK
      <3>2. CASE more = << >>
        <4>1. behind' = behind
          BY <1>0, <2>1, <3>2
        <4> QED  BY <1>0, <1>1, <3>1, <4>1 DEF FirstInLine
      <3>3. CASE more # << >>
        <4>1. Waiting => behind' > Doubled(request)
          BY <1>0, <2>1, <3>3 DEF Orderly
        <4> QED  BY <1>0, <4>1 DEF FirstInLine
      <3> QED  BY <3>2, <3>3
    <2>9. Orderly'
      <3>1. client' \in {"login", "list"} => behind' = 0
        BY <1>0, <2>1 DEF Orderly
      <3>2. Waiting' => Doubled(request)' <= behind'
        BY <1>0, <2>1 DEF Orderly
      <3> QED  BY <1>0, <1>1, <2>1, <3>1, <3>2 DEF Orderly, Gone
    <2> QED  BY <2>3, <2>6, <2>7, <2>8, <2>9
  <1>2. CASE Gone
    <2>1. toClient' = toClient /\ behind' = behind /\ session' \in {"open", "lost"} /\ reset' \in BOOLEAN
      BY <1>2 DEF send_message, TypeOK
    <2>2. TypeOK'
      BY <2>1 DEF TypeOK, Sessions
    <2>3. ~Waiting
      BY <1>2 DEF Waiting, Gone
    <2>4. Backlog' /\ AnswersBound' /\ FirstInLine'
      BY <1>0, <1>2, <2>3 DEF Backlog, AnswersBound, FirstInLine
    <2>5. Orderly'
      BY <1>0, <1>2, <2>1, <2>3 DEF Orderly
    <2> QED  BY <2>2, <2>4, <2>5
  <1> QED  BY <1>1, <1>2

\* The end of the session, for whatever reason, where the client may be told
\* nothing more.
LEMMA EndStep ==
    ASSUME ChannelInv, session' \in {"closed", "jammed", "ended", "lost"}, session' = "lost" => reset,
           UNCHANGED <<client, request, toClient, reset, behind>>, toServer' \in Seq(Line)
    PROVE  ChannelInv'
  <1> USE DEF ChannelInv
  <1>1. TypeOK'
    BY DEF TypeOK, Sessions
  <1>2. Backlog' /\ AnswersBound'
    BY DEF Backlog, AnswersBound, Gone, Ahead, Waiting
  <1>3. FirstInLine'
    <2>1. Waiting' = Waiting /\ Doubled(request)' = Doubled(request)
      BY DEF Waiting, Doubled
    <2> QED  BY <2>1 DEF FirstInLine
  <1>4. Orderly'
    <2>1. Waiting' = Waiting /\ Doubled(request)' = Doubled(request)
      BY DEF Waiting, Doubled
    <2> QED  BY <2>1 DEF Orderly, Gone
  <1> QED  BY <1>1, <1>2, <1>3, <1>4

\* The steps of the server's thread, and its ends.
LEMMA SessionStep ==
    ASSUME ChannelInv, Session \/ Jam \/ EndOfProcess
    PROVE  ChannelInv'
  <1> USE DEF ChannelInv
  <1>1. ASSUME NEW l \in Line, Handle(l) PROVE ChannelInv'
    <2> USE <1>1 DEF Handle, Take
    <2>0. PICK ok \in Acks(l) : \E more \in More(l, ok) : send_message([to |-> l, ack |-> ok], more)
      OBVIOUS
    <2>1. PICK more \in More(l, ok) : send_message([to |-> l, ack |-> ok], more)
      BY <2>0
    <2>2. [to |-> l, ack |-> ok] \in Answer
      BY DEF Answer, Acks
    <2>3. toServer' \in Seq(Line) /\ Len(toServer') = Len(toServer) - 1
      BY DEF TypeOK
    <2>4. ~(client = "left" /\ behind = 0)
      BY DEF Orderly
    <2>5. /\ more \in Seq(Answer) /\ behind + Len(more) \in 0..MaxBehind
          /\ l \notin PrintsNames => more = << >>
      BY MoreLines
    <2>6. client \in {"login", "list"} => more = << >>
      <3> SUFFICES ASSUME client \in {"login", "list"} PROVE l \notin PrintsNames
        BY <2>5
      <3>1. Waiting /\ ~Gone /\ behind = 0 /\ request \in {"auth", "get_dr"}
        BY DEF Waiting, Gone, Orderly, TypeOK
      <3>2. toClient = << >>
        <4>1. Len(toServer) + Len(toClient) = 1
          BY <3>1 DEF Backlog
        <4>2. Len(toClient) \in Nat /\ Len(toServer) \in Nat \ {0}
          BY DEF TypeOK
        <4>3. Len(toClient) = 0
          BY <4>1, <4>2
        <4> QED  BY <4>3 DEF TypeOK
      <3>3. l = request
        BY <3>1, <3>2 DEF FirstInLine, Doubled
      <3> QED  BY <3>1, <3>3 DEF PrintsNames
    <2> QED  BY <2>1, <2>2, <2>3, <2>4, <2>5, <2>6, SendStep
  <1>2. ASSUME NEW l \in Line, HandleQuit(l) PROVE ChannelInv'
    <2>1. toServer' \in Seq(Line)
      BY <1>2 DEF HandleQuit, Take, TypeOK
    <2> QED  BY <1>2, <2>1, EndStep DEF HandleQuit
  <1>3. CASE HandleEof
    <2>1. [to |-> "empty", ack |-> FALSE] \in Answer /\ toServer' \in Seq(Line)
      BY <1>3 DEF HandleEof, Answer, Line, TypeOK
    <2>2. ~(client = "left" /\ behind = 0)
      <3>1. << >> # <<"quit">>
        OBVIOUS
      <3> QED  BY <1>3, <3>1 DEF HandleEof, Orderly
    <2>3. << >> \in Seq(Answer) /\ behind + Len(<< >>) \in 0..MaxBehind
      BY DEF TypeOK
    <2> QED  BY <1>3, <2>1, <2>2, <2>3, SendStep DEF HandleEof
  <1>4. CASE ReceiveFails \/ Jam \/ EndOfProcess
    BY <1>4, EndStep DEF ReceiveFails, Jam, EndOfProcess, TypeOK
  <1> QED  BY <1>1, <1>2, <1>3, <1>4 DEF Session

\* A step that changes nothing.
LEMMA StutterStep == ChannelInv /\ UNCHANGED vars => ChannelInv'
  BY DEF ChannelInv, TypeOK, Backlog, AnswersBound, FirstInLine, Orderly,
         Waiting, Gone, Ahead, Doubled, vars

-------------------------------------------------------------------------------
\* ChannelInv holds of every behaviour: beside the invariants it has the bound on
\* answers after the session's end, and what is next in line while the client is
\* in step.
THEOREM ChannelInductive == Spec => []ChannelInv
  <1>1. ChannelInv /\ [Next]_vars => ChannelInv'
    BY UserStep, ReadStep, SessionStep, StutterStep DEF Next
  <1> QED  BY ChannelInit, <1>1, PTL DEF Spec

\* Type correctness of both ends, whatever the bound on the lines left unread.
THEOREM ChannelTyping == Spec => []TypeOK
  BY ChannelInductive, PTL DEF ChannelInv

\* What is under way is what waits, one more for every GET and REMOVE, and the lines
\* behind the first of every answer.
THEOREM BacklogGrows == Spec => []Backlog
  BY ChannelInductive, PTL DEF ChannelInv

\* Before any GET, REMOVE and answer of more than one line, the line that is read is
\* the answer to the request that waits.
THEOREM AnswersInStep == Spec => []InStep
  <1>1. ChannelInv => InStep
    BY DEF ChannelInv, FirstInLine, InStep, Doubled
  <1> QED  BY ChannelInductive, <1>1, PTL

\* A client that leaves in step, with QUIT and nothing unread, does not end the
\* server's process.
THEOREM OrderlyEnds == Spec => []OrderlyLeavesServer
  <1>1. ChannelInv => OrderlyLeavesServer
    BY DEF ChannelInv, Orderly, OrderlyLeavesServer, TypeOK, Gone
  <1> QED  BY ChannelInductive, <1>1, PTL

-------------------------------------------------------------------------------
\* Liveness.  GoesOn, when each of the two programs can take a step, is a
\* hypothesis of these theorems: it is about ENABLED.

\* The client waits for what can still come.
Answerable == Waiting /\ session # "jammed"

\* A client that waits and has nothing to read has a line with the server.
LEMMA LineIsThere ==
    ASSUME ChannelInv, Answerable, ~CanRead
    PROVE  CanServe
  <1>1. session = "open" /\ toClient = << >> /\ ~Gone
    BY DEF ChannelInv, TypeOK, Sessions, Answerable, CanRead, Disconnected, Waiting, Gone
  <1>2. Len(toServer) + 0 = behind + 1 /\ behind \in Nat
    BY <1>1 DEF ChannelInv, Backlog, Answerable, TypeOK
  <1>3. toServer # << >>
    BY <1>2
  <1> QED  BY <1>1, <1>3 DEF CanServe

\* What the server's thread does with a line gives the client something to read.
LEMMA ServedIsRead ==
    ASSUME ChannelInv, Answerable, Session
    PROVE  CanRead'
  <1> USE DEF Answerable, ChannelInv
  <1>1. ~Gone /\ client \in {"login", "list", "wait"} /\ ~reset
    BY DEF Waiting, Gone, Orderly
  <1>2. ASSUME NEW l \in Line, Handle(l) PROVE CanRead'
    <2>0. PICK ok \in Acks(l) : \E more \in More(l, ok) : send_message([to |-> l, ack |-> ok], more)
      BY <1>2 DEF Handle
    <2>1. PICK more \in More(l, ok) : send_message([to |-> l, ack |-> ok], more)
      BY <2>0
    <2>2. [to |-> l, ack |-> ok] \in Answer /\ more \in Seq(Answer)
      BY MoreLines DEF Answer, Acks
    <2>3. toClient' = Append(toClient, [to |-> l, ack |-> ok]) \o more
      BY <1>1, <2>1 DEF send_message, Delivered
    <2>4. toClient' # << >>
      BY <2>2, <2>3, AnswerQueued DEF TypeOK
    <2> QED  BY <1>2, <2>4 DEF Handle, CanRead, Waiting
  <1>3. ASSUME NEW l \in Line, HandleQuit(l) PROVE CanRead'
    BY <1>3 DEF HandleQuit, CanRead, Waiting, Disconnected
  <1> QED  BY <1>1, <1>2, <1>3 DEF Session, HandleEof, ReceiveFails

\* An answer, or the end of the connection, stays until the client has read it.
LEMMA UnreadStays ==
    ASSUME ChannelInv, CanRead, [Next]_vars
    PROVE  CanRead' \/ ~Answerable' \/ Reads
  <1> USE DEF CanRead, Waiting
  <1>1. CASE User
    BY <1>1 DEF User, Exit, Die, Send, Answerable
  <1>2. ASSUME NEW l \in Line, Handle(l) PROVE CanRead'
    <2>0. PICK ok \in Acks(l) : \E more \in More(l, ok) : send_message([to |-> l, ack |-> ok], more)
      BY <1>2 DEF Handle
    <2>1. PICK more \in More(l, ok) : send_message([to |-> l, ack |-> ok], more)
      BY <2>0
    <2>2. [to |-> l, ack |-> ok] \in Answer /\ more \in Seq(Answer) /\ session = "open" /\ ~Gone
      BY <1>2, MoreLines DEF Answer, Acks, Handle, Take, Gone, ChannelInv
    <2>3. toClient' = Append(toClient, [to |-> l, ack |-> ok]) \o more
      BY <2>1, <2>2 DEF send_message, Delivered
    <2>4. toClient' # << >>
      BY <2>2, <2>3, AnswerQueued DEF ChannelInv, TypeOK
    <2> QED  BY <1>2, <2>4 DEF Handle
  <1>3. CASE \/ \E l \in Line : HandleQuit(l)
             \/ ReceiveFails \/ Jam \/ EndOfProcess
    BY <1>3 DEF HandleQuit, ReceiveFails, Jam, EndOfProcess, Disconnected, Answerable
  <1>4. ~HandleEof
    BY DEF HandleEof, Gone
  <1>5. CASE UNCHANGED vars
    BY <1>5 DEF vars, Disconnected
  <1> QED  BY <1>1, <1>2, <1>3, <1>4, <1>5 DEF Next, Session

\* After the login a client that has read does not wait; a login is read once.
LEMMA ReadEnds ==
    ASSUME Reads
    PROVE  ~Answerable' \/ (client = "login" /\ client' # "login")
  BY DEF Reads, Receive, ReceiveEof, Acked, Refused, quit_command, Answerable, Waiting

\* Every request gets an answer unless the permit is lost: the client finds what
\* it waits for, or the end of the connection, and a login is followed by one more
\* request that does.
THEOREM RequestsAreAnswered == ASSUME []GoesOn PROVE FairSpec => AnswerComes
  <1> DEFINE Login == client = "login"
  <1>1. ChannelInv /\ Answerable /\ ~CanRead => CanServe
    BY LineIsThere
  <1>2. ChannelInv /\ Answerable /\ <<Session>>_vars => CanRead'
    BY ServedIsRead
  <1>3. ChannelInv /\ CanRead /\ [Next]_vars => CanRead' \/ ~Answerable' \/ Reads
    BY UnreadStays
  <1>4. Reads => ~Answerable' \/ (Login /\ ~Login')
    BY ReadEnds
  <1>5. ~Login /\ [Next]_vars => ~Login'
    BY DEF Next, User, Exit, Die, Send, Reads, Receive, ReceiveEof, Acked, Refused, quit_command,
           Session, Handle, HandleQuit, HandleEof, ReceiveFails, Jam, EndOfProcess, vars
  <1>6. /\ GoesOn => (CanRead => ENABLED <<Reads>>_vars)
        /\ GoesOn => (CanServe => ENABLED <<Session>>_vars)
    BY DEF GoesOn
  <1>7. Answerable <=> ~(~Waiting \/ session = "jammed")
    BY DEF Answerable
  <1> HIDE DEF Login
  <1> QED
    BY ChannelInductive, <1>1, <1>2, <1>3, <1>4, <1>5, <1>6, <1>7, PTL DEF FairSpec, Spec, AnswerComes

-------------------------------------------------------------------------------
\* Nobody but a client that leaves says QUIT.
NoQuit ==
    client # "left" => toServer \in Seq(Request \cup {"empty"}) /\ session # "closed"

LEMMA NoQuitStep ==
    ASSUME ChannelInv, NoQuit, [Next]_vars
    PROVE  NoQuit'
  <1> DEFINE Said == Request \cup {"empty"}
  <1> SUFFICES ASSUME client' # "left"
               PROVE  toServer' \in Seq(Said) /\ session' # "closed"
    BY DEF NoQuit
  <1> USE DEF ChannelInv
  <1>1. client # "left"
    BY DEF TypeOK, Next, User, Exit, Die, Send, Reads, Receive, ReceiveEof, Acked, Refused, quit_command,
           Session, Handle, HandleQuit, HandleEof, ReceiveFails, Jam, EndOfProcess, vars, Waiting, Gone
  <1>2. toServer \in Seq(Said) /\ session # "closed"
    BY <1>1 DEF NoQuit
  <1> HIDE DEF Said
  <1>3. CASE User
    <2>1. ASSUME NEW r \in Prompted, Send(r) PROVE toServer' \in Seq(Said)
      <3>1. r \in Said /\ "empty" \in Said
        BY DEF Said, Request
      <3>2. Lines(r) \in Seq(Said)
        BY <3>1 DEF Lines
      <3> QED  BY <1>2, <2>1, <3>2 DEF Send
    <2> QED  BY <1>2, <1>3, <2>1 DEF User, Exit, Die, Send, quit_command
  <1>4. CASE Reads
    <2>1. ASSUME NEW rest, Acked(rest) PROVE toServer' \in Seq(Said) /\ session' = session
      <3>1. "get_dr" \in Said
        BY DEF Said, Request
      <3> QED  BY <1>2, <2>1, <3>1 DEF Acked
    <2>2. ASSUME NEW rest, Refused(rest) PROVE toServer' = toServer /\ session' = session
      BY <2>2 DEF Refused, quit_command
    <2> QED  BY <1>2, <1>4, <2>1, <2>2 DEF Reads, Receive, ReceiveEof
  <1>5. CASE Session
    <2>1. ASSUME NEW l, Take(l) PROVE l # "quit" /\ toServer' \in Seq(Said)
      <3>1. Head(toServer) \in Said
        BY <1>2, <2>1 DEF Take
      <3> QED  BY <1>2, <2>1, <3>1 DEF Take, Said, Request, Prompted
    <2>2. ASSUME NEW l \in Line, Handle(l) PROVE toServer' \in Seq(Said) /\ session' # "closed"
      <3>0. PICK ok \in Acks(l) : \E more \in More(l, ok) : send_message([to |-> l, ack |-> ok], more)
        BY <2>2 DEF Handle
      <3>1. PICK more \in More(l, ok) : send_message([to |-> l, ack |-> ok], more)
        BY <3>0
      <3> QED  BY <1>2, <2>1, <2>2, <3>1 DEF Handle, send_message, Delivered
    <2>3. ASSUME NEW l \in Line, HandleQuit(l) PROVE FALSE
      BY <2>1, <2>3 DEF HandleQuit
    <2>4. CASE HandleEof
      BY <1>2, <2>4 DEF HandleEof, send_message, Delivered
    <2> QED  BY <1>2, <1>5, <2>2, <2>3, <2>4 DEF Session, ReceiveFails
  <1>6. CASE Jam \/ EndOfProcess \/ UNCHANGED vars
    BY <1>2, <1>6 DEF Jam, EndOfProcess, vars
  <1> QED  BY <1>3, <1>4, <1>5, <1>6 DEF Next

\* A server that serves a client which died has lines that are no QUIT, or the
\* end of the connection, to answer.
Orphaned == client = "died" /\ session = "open"

\* The first answer is refused, and the next one ends the process.
LEMMA OrphanStep ==
    ASSUME NoQuit, Orphaned, Session
    PROVE  (~reset /\ reset' /\ session' = "open") \/ session' = "lost"
  <1> USE DEF Orphaned
  <1>1. Gone
    BY DEF Gone
  <1>2. ASSUME NEW a, NEW more, send_message(a, more) PROVE (~reset /\ reset' /\ session' = "open") \/ session' = "lost"
    BY <1>1, <1>2 DEF send_message
  <1>3. ASSUME NEW l \in Line, HandleQuit(l) PROVE FALSE
    <2>1. Head(toServer) \in Request \cup {"empty"}
      BY <1>3 DEF NoQuit, HandleQuit, Take
    <2> QED  BY <1>3, <2>1 DEF HandleQuit, Take, Request, Prompted
  <1> QED  BY <1>2, <1>3 DEF Session, Handle, HandleEof, ReceiveFails

\* A client that ends without QUIT ends the server, or was jammed: at most two
\* answers later, whatever it had sent before.
THEOREM DeathIsFatal == ASSUME []GoesOn PROVE FairSpec => DeathEndsServer
  <1> DEFINE Refusing == reset
             Over     == session \in {"lost", "ended", "jammed"}
  <1>1. Init => NoQuit
    <2>1. <<"auth">> \in Seq(Request \cup {"empty"})
      BY DEF Request
    <2> QED  BY <2>1 DEF Init, NoQuit
  <1>2. ChannelInv /\ NoQuit /\ [Next]_vars => NoQuit'
    BY NoQuitStep
  <1>3. ChannelInv /\ NoQuit /\ client = "died" => Orphaned \/ Over
    BY DEF NoQuit, Orphaned, ChannelInv, TypeOK, Sessions
  <1>4. NoQuit /\ Orphaned /\ <<Session>>_vars => (~Refusing /\ (Orphaned /\ Refusing)') \/ Over'
    BY OrphanStep DEF Orphaned, Session, Handle, HandleQuit, HandleEof, ReceiveFails
  <1>5. ChannelInv /\ NoQuit /\ Orphaned /\ [Next]_vars =>
            (Orphaned' /\ (Refusing => Refusing')) \/ Over'
    <2> SUFFICES ASSUME ChannelInv, NoQuit, Orphaned, [Next]_vars
                 PROVE  (Orphaned' /\ (reset => reset')) \/ Over'
      OBVIOUS
    <2>1. CASE Session
      BY <2>1, OrphanStep DEF Orphaned, Session, Handle, HandleQuit, HandleEof, ReceiveFails
    <2> QED
      BY <2>1 DEF Orphaned, Next, User, Exit, Die, Send, Reads, Receive, ReceiveEof, Jam, EndOfProcess,
                  vars, Gone, Waiting
  <1>6. GoesOn /\ Orphaned => ENABLED <<Session>>_vars
    BY DEF GoesOn, CanServe, Orphaned, Gone
  <1> HIDE DEF Refusing, Over
  <1>7. FairSpec => (client = "died" ~> Over)
    BY ChannelInductive, <1>1, <1>2, <1>3, <1>4, <1>5, <1>6, PTL DEF FairSpec, Spec
  <1> QED  BY <1>7 DEF Over, DeathEndsServer

===============================================================================
