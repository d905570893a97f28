------------------------------- MODULE Startup -------------------------------
(***************************************************************************)
(* The metadata server from main to server_routine: it reads rep.conf into *)
(* a linked list, connects to every repository in it, drops those that are *)
(* offline, and enters into its database what the others report; then it   *)
(* tells clients the list (GET_DR).                                        *)
(*                                                                         *)
(* The loop over the list goes on from a node that start_connection_with_dr *)
(* may have freed.  free overwrites the head of a node but not its next    *)
(* pointer, and nothing allocates before the pointer is read: what is read *)
(* is what the node held when it left the list (freed_next).               *)
(*                                                                         *)
(* The name of a file record is a pointer into the buffer of the           *)
(* connection that reported it, a local of start_connection_with_dr: each  *)
(* call has the same stack frame, so it is a place in the next             *)
(* connection's answer too.                                                *)
(***************************************************************************)
EXTENDS Integers, Sequences, FiniteSets

CONSTANTS Conf,     \* the repositories in rep.conf, in order
          Files,    \* names of files in the repositories' answers
          Answers,  \* the answers a repository can give, see Token
          Null      \* no node

Repos == {Conf[i] : i \in 1..Len(Conf)}

\* Tokens of an answer with those that go with them: "F", a name and a size, or
\* "B", a block name, id, start and end.  A block is known by the file its name
\* begins with.
Token == [kind : {"F", "B"}, file : Files]

ASSUME ConfAssumption ==
    /\ Conf \in Seq(Repos)
    /\ \A i, j \in 1..Len(Conf) : Conf[i] = Conf[j] => i = j
    /\ Null \notin Repos \cup Files
    /\ \A a \in Answers :
          /\ a \in Seq(Token)
          /\ a # << >> => Len(a) >= 2 /\ a[1].kind = "F" /\ a[2].kind = "B"

VARIABLES phase,       \* where main is, see Phases
          line,        \* lines of rep.conf read so far
          list, size,  \* DR_List: its nodes, and list->size
          node,        \* the loop's pointer
          freed_next,  \* next of the node that was freed last
          tried,       \* what connect returned for each repository
          reply, tok,  \* the answer in buf; how many of its tokens strtok has returned
          inside,      \* strtok is in the copy of a block name, not in buf
          reported,    \* the repositories that have reported a file
          database,    \* the file records of the server
          client       \* a client that has asked for the list

nodes   == <<list, size, node, freed_next, tried>>
answer  == <<reply, tok, inside, reported, database>>
vars == <<phase, line, nodes, answer, client>>

-------------------------------------------------------------------------------
\* Reading rep.conf; before connect, in recv_message, in update_file_db_from_string
\* for the loop's node; before node->next is read; server_routine; no process.
Phases == {"read", "connect", "ask", "update", "next", "serve", "down"}

\* A record: the place of its name in buf, by token, and its blocks.
Grid_File == [place : Nat, blocks : Seq(Files)]

\* A client: whether it runs, and the repositories whose id, address and port
\* each of its nodes has.
Client_Node == [id : Repos, ip : Repos, port : Repos]
Client      == [runs : BOOLEAN, list : Seq(Client_Node)]

\* Type invariant of the list, the answer and the database.
TypeOK ==
    /\ phase \in Phases
    /\ line \in 0..Len(Conf)
    /\ list \in Seq(Repos)
    /\ size \in Nat
    /\ node \in Repos \cup {Null}
    /\ freed_next \in Repos \cup {Null}
    /\ tried \in [Repos -> {"no", "online", "offline"}]
    /\ reply \in Answers \cup {<< >>}
    /\ tok \in 0..Len(reply)
    /\ inside \in BOOLEAN
    /\ reported \in SUBSET Repos
    /\ database \in Seq(Grid_File)
    /\ client \in Client

Init ==
    /\ phase = "read" /\ line = 0
    /\ list = << >> /\ size = 0
    /\ node = Null /\ freed_next = Null
    /\ tried = [r \in Repos |-> "no"]
    /\ reply = << >> /\ tok = 0 /\ inside = FALSE
    /\ reported = {} /\ database = << >>
    /\ client = [runs |-> TRUE, list |-> << >>]

-------------------------------------------------------------------------------
\* get_data_repositories_info: a line of rep.conf, and append_to_list.
ReadLine ==
    /\ phase = "read"
    /\ line < Len(Conf)
    /\ line' = line + 1
    /\ list' = Append(list, Conf[line + 1])
    /\ size' = size + 1
    /\ UNCHANGED <<phase, node, freed_next, tried, answer, client>>

Head_of(l)  == IF l = << >> THEN Null ELSE l[1]
After(l, i) == IF i < Len(l) THEN l[i + 1] ELSE Null

\* The loop of main goes to a node: start_connection_with_dr, or server_routine.
GoOn(n) ==
    /\ node' = n
    /\ phase' = IF n = Null THEN "serve" ELSE "connect"

EndOfConf ==
    /\ phase = "read"
    /\ line = Len(Conf)
    /\ GoOn(Head_of(list))
    /\ UNCHANGED <<line, list, size, freed_next, tried, answer, client>>

\* node->next, of a node in the list or of the one that was freed.
freed_pointer_clear == Null            \* Variants: free has cleared the node;
freed_pointer_self  == node            \* the node is tried again.
freed_pointer == freed_next

NextNode ==
    /\ phase = "next"
    /\ \/ \E i \in 1..Len(list) : list[i] = node /\ GoOn(After(list, i))
       \/ (\A i \in 1..Len(list) : list[i] # node) /\ GoOn(freed_pointer)
    /\ UNCHANGED <<line, list, size, freed_next, tried, answer, client>>

-------------------------------------------------------------------------------
\* start_connection_with_dr.  connect fails: delete_node takes the node out of
\* the list and frees it.
Without(l, i) == [k \in 1..Len(l) - 1 |-> IF k < i THEN l[k] ELSE l[k + 1]]

delete_node_twice(i) ==   \* Variant: size-- before the search and after it.
    /\ list' = Without(list, i)
    /\ size' = size - 2
    /\ freed_next' = After(list, i)
delete_node(i) ==
    /\ list' = Without(list, i)
    /\ size' = size - 1
    /\ freed_next' = After(list, i)

Offline ==
    /\ phase = "connect"
    /\ \E i \in 1..Len(list) : list[i] = node /\ delete_node(i)
    /\ tried' = [tried EXCEPT ![node] = "offline"]
    /\ phase' = "next"
    /\ UNCHANGED <<line, node, answer, client>>

\* connect succeeds, update_map is sent.
Online ==
    /\ phase = "connect"
    /\ tried' = [tried EXCEPT ![node] = "online"]
    /\ phase' = "ask"
    /\ UNCHANGED <<line, list, size, node, freed_next, answer, client>>

\* An answer; a nack, or the end of the connection, which leaves the request in
\* buf and is unexpected.  A repository may also never answer.
Answered ==
    /\ phase = "ask"
    /\ reply' \in Answers
    /\ tok' = 0 /\ inside' = FALSE
    /\ reported' = IF reply' = << >> THEN reported ELSE reported \cup {node}
    /\ phase' = "update"
    /\ UNCHANGED <<line, nodes, database, client>>

NotAnswered ==
    /\ phase = "ask"
    /\ phase' = "next"
    /\ UNCHANGED <<line, nodes, answer, client>>

-------------------------------------------------------------------------------
\* update_file_db_from_string, one round of its loop at a time.
Round(k) ==
    /\ phase = "update"
    /\ ~inside /\ tok < Len(reply)
    /\ reply[tok + 1].kind = k
    /\ tok' = tok + 1

\* What the name of a record reads as: the token at its place, if strtok has
\* come to it.  So all that get_file can find is the file of that token.
Reads(file, f) ==
    /\ file.place \in 1..tok + 1
    /\ reply[file.place] = [kind |-> "F", file |-> f]
Found(f) == {i \in 1..Len(database) : Reads(database[i], f)}

RoundFile ==
    /\ Round("F")
    /\ database' = IF Found(reply[tok + 1].file) # {} THEN database
                   ELSE Append(database, [place |-> tok + 1, blocks |-> << >>])
    /\ UNCHANGED <<phase, line, nodes, reply, inside, reported, client>>

\* append_block returns the block as the new head of an empty list: the record
\* is as it was.  get_file_name_from_block_name has taken strtok into a copy of
\* the block's name.
append_block(i, f) == database' = database

strtok_stays == FALSE   \* Variant: strtok_r in get_file_name_from_block_name.
strtok_moves == TRUE

RoundBlock ==
    /\ Round("B")
    /\ \E i \in Found(reply[tok + 1].file) : append_block(i, reply[tok + 1].file)
    /\ inside' = strtok_moves
    /\ UNCHANGED <<phase, line, nodes, reply, reported, client>>

\* get_file finds nothing, and file->head is read.
RoundNoFile ==
    /\ Round("B")
    /\ Found(reply[tok + 1].file) = {}
    /\ phase' = "down"
    /\ UNCHANGED <<line, nodes, reply, inside, reported, database, client>>

\* No token is left but the rest of a block's name, which is ignored.  Then
\* file_db_to_string prints into buf, over all names.
EndOfAnswer ==
    /\ phase = "update"
    /\ inside \/ tok = Len(reply)
    /\ phase' = "next"
    /\ reply' = << >> /\ tok' = 0 /\ inside' = FALSE
    /\ UNCHANGED <<line, nodes, reported, database, client>>

-------------------------------------------------------------------------------
\* list_to_string: three tokens for each node, known by the node, and a comma
\* between nodes.  What follows is the newline: a token of its own after a comma.
list_to_string(l) ==
    IF l = << >> THEN <<Null>> ELSE [k \in 1..3 * Len(l) |-> l[(k + 2) \div 3]]

\* The client's get_data_repositories takes three tokens a round.  It ends with
\* a NULL token (strtol) if the last round has fewer.
get_data_repositories(s) ==
    IF Len(s) % 3 # 0 THEN [runs |-> FALSE, list |-> << >>]
    ELSE [runs |-> TRUE,
          list |-> [i \in 1..Len(s) \div 3 |->
                       [id |-> s[3 * i - 2], ip |-> s[3 * i - 1], port |-> s[3 * i]]]]

GetDr ==
    /\ phase = "serve"
    /\ client' = get_data_repositories(list_to_string(list))
    /\ UNCHANGED <<phase, line, nodes, answer>>

\* send, recv or an unreadable rep.conf fails, or SIGINT.
Halt ==
    /\ phase # "down"
    /\ phase' = "down"
    /\ UNCHANGED <<line, nodes, answer, client>>

-------------------------------------------------------------------------------
\* The steps of main that wait for nobody; connect always returns.
Main ==
    \/ ReadLine \/ EndOfConf \/ NextNode \/ Offline \/ Online
    \/ RoundFile \/ RoundBlock \/ RoundNoFile \/ EndOfAnswer

Next == Main \/ Answered \/ NotAnswered \/ GetDr \/ Halt

Spec     == Init /\ [][Next]_vars
FairSpec == Spec /\ WF_vars(Main)

\* When main, if it keeps running, is sure to go on: everywhere but in recv_message.
GoesOn == phase \in {"read", "connect", "update", "next"} <=> ENABLED <<Main>>_vars

-------------------------------------------------------------------------------
InList == {list[i] : i \in 1..Len(list)}

\* What a client made of the list: each address and port goes with the id it is
\* for, and only an empty list ends the client (client.c:474-479).
ClientKnowsList ==
    IF client.runs
    THEN client.list # << >> =>
            /\ Len(client.list) = Len(list)
            /\ \A i \in 1..Len(list) :
                  client.list[i] = [id |-> list[i], ip |-> list[i], port |-> list[i]]
    ELSE list = << >>

\* "return a list representing all the known and active dr" (server.c:59): when
\* the server starts to serve, the loop has tried every repository of rep.conf,
\* though it read next out of freed nodes (server.c:373), and the list has those
\* that are online, in order, and as many as list->size says.  Clients get that list.
ListIsOnline ==
    phase = "serve" =>
        /\ \A r \in Repos : tried[r] # "no"
        /\ InList = {r \in Repos : tried[r] = "online"}
        /\ size = Len(list)
        /\ \A i, j \in 1..Len(list) : i < j =>
              \E a, b \in 1..Len(Conf) : a < b /\ list[i] = Conf[a] /\ list[j] = Conf[b]
        /\ ClientKnowsList

\* Of all the files that the repositories report, the server registers one, and
\* none of its blocks (file_db.c:86-107): strtok stays in the copy of the first
\* block's name; append_block's result is dropped; and the first file of a later
\* answer is at the place in buf that the name of the record points to.
OneFileKnown ==
    phase \in {"connect", "ask", "next", "serve"} =>
        database = IF reported = {} THEN << >> ELSE <<[place |-> 1, blocks |-> << >>]>>

\* The server gets to serve, or ends, unless a repository that accepted its
\* connection never answers (server.c:341).
StartProceeds == <>(phase \in {"serve", "down"}) \/ <>[](phase = "ask")

===============================================================================
