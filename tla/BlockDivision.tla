---------------------------- MODULE BlockDivision -----------------------------
(***************************************************************************)
(* How a file becomes blocks.  data_block_division (server.c) gives every  *)
(* repository one block of the file; the client reads the answer and, for  *)
(* a PUT, starts one transfer for each block it finds there (client.c),    *)
(* which cuts the block with split_file and sends it with send_file, or,   *)
(* for a GET, asks the repository of each block for it.                    *)
(***************************************************************************)
EXTENDS Integers, Sequences, FiniteSets, SequencesExt

CONSTANTS Word,   \* 2^64: unsigned long counts modulo this
          Byte,   \* 2^8: so does u_int8_t, the type of a repository's id
          Lists,  \* the repository lists considered: sequences of ids
          Sizes   \* the file sizes considered: strtol gives a long

ASSUME BlockAssumption ==
    /\ Word \in Nat \ {0} /\ Byte \in Nat \ {0} /\ Byte <= Word
    /\ Lists \subseteq Seq(0..Byte-1) \ {<< >>}
    /\ Sizes \subseteq 0..(Word \div 2)-1

VARIABLES size,         \* of the file
          list,         \* the ids in the DR_List of server and client
          blocks,       \* the blocks made so far: the list "head"
          start_block,  \* where the next block starts and ends
          end_block,
          pc,           \* what is going on: see PCs
          tokens,       \* the part of the answer that strtok has not taken yet
          asked         \* the transfers the client has begun

vars == <<size, list, blocks, start_block, end_block, pc, tokens, asked>>

Unsigned == 0..Word-1
Block    == [id : 0..Byte-1, start : Unsigned, end : Unsigned]
PCs      == {"divide", "put", "get", "put done", "get done"}

-------------------------------------------------------------------------------
\* The server: data_block_division.
block_size == size \div Len(list)
remaining  == size % Len(list)

Init ==
    /\ size \in Sizes
    /\ list \in Lists
    /\ blocks = << >>
    /\ start_block = 0
    /\ end_block = block_size
    /\ pc = "divide"
    /\ tokens = << >>
    /\ asked = << >>

\* Variants of the next line.
next_start_before == end_block - 1
next_start_far    == (end_block + 2) % Word
next_start        == (end_block + 1) % Word

\* The remainder is added when the last block has been made already.
next_end ==
    LET last == Len(blocks) + 1 = Len(list)
    IN  (end_block + block_size + (IF last THEN remaining ELSE 0)) % Word

DivideRound ==
    /\ pc = "divide"
    /\ Len(blocks) < Len(list)
    /\ blocks' = Append(blocks, [id    |-> list[Len(blocks) + 1],
                                 start |-> start_block,
                                 end   |-> end_block])
    /\ start_block' = next_start
    /\ end_block' = next_end
    /\ UNCHANGED <<size, list, pc, tokens, asked>>

\* The answer lists, for each block, "B", its name, its repository, its start
\* and its end.  strtol makes 0 of a mark, and of a name (but of one that begins
\* with a digit, which is left out here).
Mark      == [is |-> "B", value |-> 0]
BlockName == [is |-> "name", value |-> 0]
Ack       == [is |-> "ack", value |-> 0]
Number(n) == [is |-> "number", value |-> n]

block_to_string(b) == <<Mark, BlockName, Number(b.id), Number(b.start), Number(b.end)>>

Answer == [k \in 1..(5 * Len(blocks)) |->
              block_to_string(blocks[(k - 1) \div 5 + 1])[((k - 1) % 5) + 1]]

\* The answer to the PUT that made the blocks, or to a GET of the file; the
\* client's code for a GET skips the "ack" before its loop.
AnswerSent ==
    /\ pc = "divide"
    /\ Len(blocks) = Len(list)
    /\ \/ pc' = "put" /\ tokens' = <<Ack>> \o Answer
       \/ pc' = "get" /\ tokens' = Answer
    /\ UNCHANGED <<size, list, blocks, start_block, end_block, asked>>

-------------------------------------------------------------------------------
\* The client begins a transfer.  Variant: the id is not narrowed to u_int8_t.
Ask_wide(id, start, end) ==
    asked' = Append(asked, [id |-> id.value, start |-> start.value, end |-> end.value])
Ask(id, start, end) ==
    asked' = Append(asked, [id |-> id.value % Byte, start |-> start.value, end |-> end.value])

\* PUT: "part", two tokens that are skipped, and three that must be there for a
\* transfer to begin.  Variant: the end and the start are read in that order.
PutRound_swapped ==
    /\ pc = "put" /\ tokens # << >>
    /\ IF Len(tokens) >= 6 THEN Ask(tokens[4], tokens[6], tokens[5]) ELSE UNCHANGED asked
    /\ tokens' = SubSeq(tokens, 7, Len(tokens))
    /\ UNCHANGED <<size, list, blocks, start_block, end_block, pc>>

PutRound ==
    /\ pc = "put" /\ tokens # << >>
    /\ IF Len(tokens) >= 6 THEN Ask(tokens[4], tokens[5], tokens[6]) ELSE UNCHANGED asked
    /\ tokens' = SubSeq(tokens, 7, Len(tokens))
    /\ UNCHANGED <<size, list, blocks, start_block, end_block, pc>>

AtMark == tokens # << >> /\ tokens[1] = Mark

\* GET: as long as there is a mark, the four tokens behind it.  Variant: the
\* loop takes a token more, as that of a PUT does.
GetRound_shifted ==
    /\ pc = "get" /\ AtMark
    /\ Ask(tokens[3], tokens[4], tokens[5])
    /\ tokens' = SubSeq(tokens, 7, Len(tokens))
    /\ UNCHANGED <<size, list, blocks, start_block, end_block, pc>>

GetRound ==
    /\ pc = "get" /\ AtMark
    /\ Ask(tokens[3], tokens[4], tokens[5])
    /\ tokens' = SubSeq(tokens, 6, Len(tokens))
    /\ UNCHANGED <<size, list, blocks, start_block, end_block, pc>>

AnswerRead ==
    /\ \/ pc = "put" /\ tokens = << >> /\ pc' = "put done"
       \/ pc = "get" /\ ~AtMark /\ pc' = "get done"
    /\ UNCHANGED <<size, list, blocks, start_block, end_block, tokens, asked>>

Next == DivideRound \/ AnswerSent \/ PutRound \/ GetRound \/ AnswerRead

Spec == Init /\ [][Next]_vars

-------------------------------------------------------------------------------
\* split_file copies the bytes from start to end, as far as the file has them;
\* send_file is told to send end - start bytes, and goes on until it has.
split_file(b) == {x \in 0..size-1 : b.start <= x /\ x < b.end}
file_size(b)  == (b.end - b.start) % Word

\* The bytes of the file that are in some block.
Stored == UNION {split_file(blocks[k]) : k \in 1..Len(blocks)}

-------------------------------------------------------------------------------
\* Type invariant: in particular, offsets are unsigned long and ids u_int8_t.
TypeOK ==
    /\ size \in Unsigned
    /\ list \in Seq(0..Byte-1) /\ list # << >>
    /\ blocks \in Seq(Block)
    /\ start_block \in Unsigned /\ end_block \in Unsigned
    /\ pc \in PCs
    /\ tokens \in Seq([is : {"ack", "B", "name", "number"}, value : Unsigned])
    /\ asked \in Seq(Block)

\* No byte of the file is in two blocks, and no block reaches beyond the end of
\* the file (data_block_division, server.c:137-150).
NoOverlap ==
    \A k, l \in 1..Len(blocks) :
        /\ blocks[k].end <= size
        /\ k < l => blocks[k].end <= blocks[l].start

\* Which bytes the division loses, when there is a byte for each repository:
\* one between any two blocks, and those of the remainder (server.c:144-150).
LostBytes ==
    block_size > 0 /\ Len(blocks) = Len(list) =>
        (0..size-1) \ Stored =
            {k * block_size : k \in 1..Len(list)-1}
                \cup (Len(list) * block_size .. size-1)

\* The size that send_file is told is more than split_file has copied, so that
\* its loop never ends (protocol.c:147), exactly for the blocks after the first
\* of a file with fewer bytes than there are repositories.
EndlessTransfers ==
    \A k \in 1..Len(blocks) :
        file_size(blocks[k]) > Cardinality(split_file(blocks[k])) <=> block_size = 0 /\ k > 1

\* The client's loop after a PUT (client.c:344-371) takes six tokens a round
\* where a block has five: of all the blocks, it sends the first, the seventh
\* and so on, and begins other transfers that no block asks for.
PutAsks ==
    /\ pc \in {"put", "put done"} =>
          \A k \in 1..Len(asked) : k % 5 = 1 => asked[k] = blocks[(6 * k - 1) \div 5]
    /\ pc = "put done" => Len(asked) = (5 * Len(list) + 1) \div 6

\* The loop after a GET (client.c:404-413) asks for exactly the blocks of the
\* file, in their order.
GetAsks ==
    /\ pc = "get" => IsPrefix(asked, blocks)
    /\ pc = "get done" => asked = blocks

===============================================================================
