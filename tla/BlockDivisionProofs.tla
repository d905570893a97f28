-------------------------- MODULE BlockDivisionProofs --------------------------
(***************************************************************************)
(* Proofs about BlockDivision, for a file of any size and any list of      *)
(* repositories.                                                           *)
(***************************************************************************)
EXTENDS BlockDivision, FiniteSetTheorems, TLAPS

\* Where block i starts and ends, by the rounds of data_block_division.
StartOf(i) == IF i = 1 THEN 0 ELSE (i - 1) * block_size + 1
EndOf(i)   == i * block_size

\* The blocks made so far are where they should be, and the next one will be.
DivisionInv ==
    /\ size \in Nat /\ size < Word \div 2
    /\ list \in Seq(0..Byte-1) /\ list # << >>
    /\ blocks \in Seq(Block)
    /\ Len(blocks) <= Len(list)
    /\ Len(blocks) < Len(list) =>
          start_block = StartOf(Len(blocks) + 1) /\ end_block = EndOf(Len(blocks) + 1)
    /\ \A i \in 1..Len(blocks) :
          blocks[i].start = StartOf(i) /\ blocks[i].end = EndOf(i)

-------------------------------------------------------------------------------
\* The quotient of a division is a number, and no more than fits.
LEMMA Quotient ==
    ASSUME NEW s \in Nat, NEW n \in Nat \ {0}
    PROVE  s \div n \in Nat /\ n * (s \div n) <= s
  OBVIOUS

\* A number that fits is its own remainder.
LEMMA Remainder ==
    ASSUME NEW w \in Nat \ {0}, NEW a \in Nat, a < w
    PROVE  a % w = a
  OBVIOUS

\* Multiplication is monotonic.
LEMMA Monotonic ==
    ASSUME NEW a \in Nat, NEW b \in Nat, NEW c \in Nat, a <= b
    PROVE  a * c \in Nat /\ b * c \in Nat /\ a * c <= b * c
  <1>1. b * c = a * c + (b - a) * c
    OBVIOUS
  <1>2. (b - a) * c \in Nat
    OBVIOUS
  <1> QED  BY <1>1, <1>2

\* The ends of the blocks: numbers, in order, and within the file.
LEMMA Ends ==
    ASSUME size \in Nat, list \in Seq(0..Byte-1), list # << >>
    PROVE  /\ Len(list) \in Nat \ {0} /\ block_size \in Nat
           /\ \A i \in 0..Len(list) : EndOf(i) \in Nat /\ EndOf(i) <= size
           /\ \A i, j \in 0..Len(list) : i <= j => EndOf(i) <= EndOf(j)
           /\ \A i \in 1..Len(list) : StartOf(i) \in Nat /\ StartOf(i) <= EndOf(i - 1) + 1
           /\ \A i \in Nat : EndOf(i + 1) = EndOf(i) + block_size
  <1>1. Len(list) \in Nat \ {0}
    OBVIOUS
  <1>2. block_size \in Nat /\ Len(list) * block_size <= size
    BY <1>1, Quotient DEF block_size
  <1>3. ASSUME NEW i \in 0..Len(list), NEW j \in 0..Len(list), i <= j
        PROVE  EndOf(i) \in Nat /\ EndOf(j) \in Nat /\ EndOf(i) <= EndOf(j)
    BY <1>1, <1>2, <1>3, Monotonic DEF EndOf
  <1>4. EndOf(Len(list)) <= size
    BY <1>2 DEF EndOf
  <1>5. \A i \in 0..Len(list) : EndOf(i) \in Nat /\ EndOf(i) <= size
    BY <1>1, <1>3, <1>4
  <1>6. \A i \in 1..Len(list) : StartOf(i) \in Nat /\ StartOf(i) <= EndOf(i - 1) + 1
    <2> TAKE i \in 1..Len(list)
    <2>1. EndOf(i - 1) \in Nat
      BY <1>1, <1>5
    <2> QED  BY <2>1 DEF StartOf, EndOf
  <1>7. \A i \in Nat : EndOf(i + 1) = EndOf(i) + block_size
    BY <1>2 DEF EndOf
  <1> QED  BY <1>1, <1>2, <1>3, <1>5, <1>6, <1>7

\* Nothing has been divided yet.
LEMMA InitDivision == Init => DivisionInv
  <1> SUFFICES ASSUME Init PROVE DivisionInv
    OBVIOUS
  <1>1. size \in Nat /\ size < Word \div 2
    BY BlockAssumption DEF Init
  <1>2. list \in Seq(0..Byte-1) /\ list # << >>
    BY BlockAssumption DEF Init
  <1>3. end_block = EndOf(1) /\ start_block = StartOf(1)
    BY <1>1, <1>2, Ends DEF Init, EndOf, StartOf
  <1> QED  BY <1>1, <1>2, <1>3 DEF Init, DivisionInv

\* A round of the division: no sum exceeds an unsigned long before the last
\* block is made, so each block starts one byte after the end of the one before.
LEMMA RoundDivides ==
    ASSUME DivisionInv, DivideRound
    PROVE  DivisionInv'
  <1> DEFINE k == Len(blocks)
             b == [id |-> list[k + 1], start |-> start_block, end |-> end_block]
  <1>1. /\ k \in Nat /\ k < Len(list) /\ Len(list) \in Nat
        /\ start_block = StartOf(k + 1) /\ end_block = EndOf(k + 1)
    BY DEF DivisionInv, DivideRound
  <1>2. UNCHANGED <<size, list, block_size>>
    BY DEF DivideRound, block_size
  <1>3. b \in Block
    <2>1. start_block \in Nat /\ start_block <= size + 1 /\ end_block \in Nat /\ end_block <= size
      <3>1. k + 1 \in 1..Len(list) /\ k \in 0..Len(list) /\ k + 1 \in 0..Len(list)
        BY <1>1
      <3>2. EndOf(k) <= size /\ EndOf(k) \in Nat
        BY <3>1, Ends DEF DivisionInv
      <3>3. StartOf(k + 1) \in Nat /\ StartOf(k + 1) <= EndOf((k + 1) - 1) + 1
        BY <3>1, Ends DEF DivisionInv
      <3>4. EndOf(k + 1) \in Nat /\ EndOf(k + 1) <= size
        BY <3>1, Ends DEF DivisionInv
      <3>5. (k + 1) - 1 = k
        BY <1>1
      <3> HIDE DEF k
      <3> QED  BY <1>1, <3>2, <3>3, <3>4, <3>5 DEF DivisionInv
    <2>2. size + 1 < Word
      BY BlockAssumption DEF DivisionInv
    <2>3. start_block \in Unsigned /\ end_block \in Unsigned
      BY <2>1, <2>2, BlockAssumption DEF Unsigned, DivisionInv
    <2>4. list[k + 1] \in 0..Byte-1
      <3>1. k + 1 \in 1..Len(list) /\ list \in Seq(0..Byte-1)
        BY <1>1 DEF DivisionInv
      <3> DEFINE Ids == 0..Byte-1
      <3>2. list \in Seq(Ids)
        BY <3>1
      <3> HIDE DEF k, Ids
      <3>3. list[k + 1] \in Ids
        BY <3>1, <3>2
      <3> QED  BY <3>3 DEF Ids
    <2> QED  BY <2>3, <2>4 DEF Block
  <1>4. blocks' = Append(blocks, b)
    BY DEF DivideRound
  <1>5. blocks' \in Seq(Block) /\ Len(blocks') = k + 1 /\ Len(blocks') <= Len(list')
    BY <1>1, <1>2, <1>3, <1>4 DEF DivisionInv
  <1>6. \A i \in 1..Len(blocks') : blocks'[i].start = StartOf(i)' /\ blocks'[i].end = EndOf(i)'
    <2> TAKE i \in 1..Len(blocks')
    <2>1. StartOf(i)' = StartOf(i) /\ EndOf(i)' = EndOf(i)
      BY <1>2 DEF StartOf, EndOf
    <2>2. CASE i = k + 1
      <3>1. blocks'[i] = b
        BY <1>1, <1>4, <2>2 DEF DivisionInv
      <3> QED  BY <1>1, <2>1, <2>2, <3>1
    <2>3. CASE i # k + 1
      <3>1. i \in 1..k
        BY <1>1, <1>5, <2>3
      <3>2. blocks'[i] = blocks[i]
        BY <3>1, <1>4 DEF DivisionInv
      <3> QED  BY <2>1, <3>1, <3>2 DEF DivisionInv
    <2> QED  BY <2>2, <2>3
  <1>7. ASSUME k + 1 < Len(list)
        PROVE  start_block' = StartOf(k + 2) /\ end_block' = EndOf(k + 2)
    <2>1. k + 2 \in 0..Len(list) /\ k + 1 \in 0..Len(list) /\ k + 1 \in Nat
      BY <1>1, <1>7
    <2>2. EndOf(k + 1) \in Nat /\ EndOf(k + 1) <= size /\ EndOf(k + 2) \in Nat /\ EndOf(k + 2) <= size
      BY <2>1, Ends DEF DivisionInv
    <2>3. EndOf((k + 1) + 1) = EndOf(k + 1) + block_size /\ block_size \in Nat
      BY <2>1, Ends DEF DivisionInv
    <2>4. EndOf(k + 2) = EndOf(k + 1) + block_size
      <3>1. (k + 1) + 1 = k + 2
        BY <1>1
      <3> HIDE DEF k
      <3> QED  BY <2>3, <3>1
    <2>5. end_block' = (EndOf(k + 1) + block_size + 0) % Word
      BY <1>1, <1>7 DEF DivideRound, next_end
    <2>6. start_block' = (EndOf(k + 1) + 1) % Word
      BY <1>1 DEF DivideRound, next_start
    <2>7. StartOf(k + 2) = EndOf(k + 1) + 1
      BY <1>1 DEF StartOf, EndOf
    <2>8. Word \in Nat \ {0} /\ size + 1 < Word
      BY BlockAssumption DEF DivisionInv
    <2> HIDE DEF k
    <2>9. EndOf(k + 2) % Word = EndOf(k + 2) /\ (EndOf(k + 1) + 1) % Word = EndOf(k + 1) + 1
      <3>1. size \in Nat
        BY DEF DivisionInv
      <3>2. EndOf(k + 2) < Word /\ EndOf(k + 1) + 1 \in Nat /\ EndOf(k + 1) + 1 < Word
        BY <2>2, <2>8, <3>1
      <3>3. EndOf(k + 2) % Word = EndOf(k + 2)
        BY <2>2, <2>8, <3>2, Remainder
      <3>4. (EndOf(k + 1) + 1) % Word = EndOf(k + 1) + 1
        BY <2>8, <3>2, Remainder
      <3> QED  BY <3>3, <3>4
    <2> QED  BY <2>2, <2>3, <2>4, <2>5, <2>6, <2>7, <2>9
  <1>8. k + 1 < Len(list) =>
          start_block' = StartOf(Len(blocks') + 1) /\ end_block' = EndOf(Len(blocks') + 1)
    <2>1. Len(blocks') + 1 = k + 2
      BY <1>1, <1>5
    <2> HIDE DEF k
    <2> QED  BY <1>7, <2>1
  <1>9. /\ size' \in Nat /\ size' < Word \div 2
        /\ list' \in Seq(0..Byte-1) /\ list' # << >>
    BY <1>2 DEF DivisionInv
  <1> QED  BY <1>2, <1>5, <1>6, <1>8, <1>9 DEF DivisionInv, StartOf, EndOf

\* Everything else leaves the blocks as they are.
LEMMA OthersKeep ==
    ASSUME DivisionInv, UNCHANGED <<size, list, blocks, start_block, end_block>>
    PROVE  DivisionInv'
  BY DEF DivisionInv, StartOf, EndOf, block_size

\* At all times the blocks are where StartOf and EndOf say.
THEOREM Division == Spec => []DivisionInv
  <1>1. ASSUME DivisionInv, [Next]_vars PROVE DivisionInv'
    <2>1. CASE DivideRound
      BY <1>1, <2>1, RoundDivides
    <2>2. CASE ~DivideRound
      <3>1. UNCHANGED <<size, list, blocks, start_block, end_block>>
        BY <1>1, <2>2 DEF Next, AnswerSent, PutRound, GetRound, AnswerRead, vars
      <3> QED  BY <1>1, <3>1, OthersKeep
    <2> QED  BY <2>1, <2>2
  <1> QED  BY <1>1, InitDivision, PTL DEF Spec

\* No byte goes to two repositories, and no block reaches beyond the end of the
\* file, whatever its size and however many repositories there are.
THEOREM NoOverlaps == Spec => []NoOverlap
  <1>1. ASSUME DivisionInv PROVE NoOverlap
    <2> SUFFICES ASSUME NEW k \in 1..Len(blocks), NEW l \in 1..Len(blocks)
                 PROVE  /\ blocks[k].end <= size
                        /\ k < l => blocks[k].end <= blocks[l].start
      BY DEF NoOverlap
    <2>0. Len(blocks) \in Nat /\ Len(list) \in Nat /\ Len(blocks) <= Len(list)
      BY <1>1 DEF DivisionInv
    <2>1. blocks[k].end = EndOf(k) /\ blocks[l].start = StartOf(l)
      BY <1>1 DEF DivisionInv
    <2>2. k \in 0..Len(list) /\ l - 1 \in 0..Len(list)
      BY <2>0
    <2>3. EndOf(k) \in Nat /\ EndOf(k) <= size /\ EndOf(l - 1) \in Nat
      BY <1>1, <2>2, Ends DEF DivisionInv
    <2>4. ASSUME k < l PROVE EndOf(k) <= StartOf(l)
      <3>1. EndOf(k) <= EndOf(l - 1)
        BY <1>1, <2>0, <2>2, <2>4, Ends DEF DivisionInv
      <3>2. StartOf(l) = EndOf(l - 1) + 1
        BY <2>0, <2>4 DEF StartOf, EndOf
      <3> QED  BY <2>3, <3>1, <3>2
    <2> QED  BY <2>1, <2>3, <2>4
  <1> QED  BY <1>1, Division, PTL

-------------------------------------------------------------------------------
\* The tokens of an answer.
Token == [is : {"ack", "B", "name", "number"}, value : Unsigned]

\* Marks, names and the numbers of a block are tokens.
LEMMA Tokens ==
    /\ Mark \in Token /\ BlockName \in Token /\ Ack \in Token
    /\ \A n \in Unsigned : Number(n) \in Token
  BY BlockAssumption DEF Mark, BlockName, Ack, Number, Token, Unsigned

\* The five tokens of block k are where the client's loops look for them.
LEMMA AnswerAt ==
    ASSUME blocks \in Seq(Block)
    PROVE  /\ Len(blocks) \in Nat
           /\ DOMAIN Answer = 1..(5 * Len(blocks))
           /\ \A k \in 1..Len(blocks) :
                 /\ Answer[5 * k - 4] = Mark
                 /\ Answer[5 * k - 3] = BlockName
                 /\ Answer[5 * k - 2] = Number(blocks[k].id)
                 /\ Answer[5 * k - 1] = Number(blocks[k].start)
                 /\ Answer[5 * k] = Number(blocks[k].end)
  <1>1. Len(blocks) \in Nat
    OBVIOUS
  <1>2. DOMAIN Answer = 1..(5 * Len(blocks))
    BY DEF Answer
  <1>3. ASSUME NEW k \in 1..Len(blocks), NEW f \in 1..5
        PROVE  Answer[5 * (k - 1) + f] = block_to_string(blocks[k])[f]
    <2> DEFINE j == 5 * (k - 1) + f
    <2>1. j \in 1..(5 * Len(blocks))
      BY <1>1
    <2>2. (j - 1) \div 5 + 1 = k /\ ((j - 1) % 5) + 1 = f
      BY <1>1
    <2> HIDE DEF j
    <2>3. Answer[j] = block_to_string(blocks[(j - 1) \div 5 + 1])[((j - 1) % 5) + 1]
      BY <2>1 DEF Answer
    <2>4. Answer[j] = block_to_string(blocks[k])[f]
      BY <2>2, <2>3
    <2> QED  BY <2>4 DEF j
  <1>4. ASSUME NEW k \in 1..Len(blocks)
        PROVE  /\ Answer[5 * k - 4] = Mark
               /\ Answer[5 * k - 3] = BlockName
               /\ Answer[5 * k - 2] = Number(blocks[k].id)
               /\ Answer[5 * k - 1] = Number(blocks[k].start)
               /\ Answer[5 * k] = Number(blocks[k].end)
    <2>1. /\ 5 * (k - 1) + 1 = 5 * k - 4 /\ 5 * (k - 1) + 2 = 5 * k - 3
          /\ 5 * (k - 1) + 3 = 5 * k - 2 /\ 5 * (k - 1) + 4 = 5 * k - 1
          /\ 5 * (k - 1) + 5 = 5 * k
      BY <1>1
    <2>2. /\ Answer[5 * (k - 1) + 1] = Mark
          /\ Answer[5 * (k - 1) + 2] = BlockName
          /\ Answer[5 * (k - 1) + 3] = Number(blocks[k].id)
          /\ Answer[5 * (k - 1) + 4] = Number(blocks[k].start)
          /\ Answer[5 * (k - 1) + 5] = Number(blocks[k].end)
      BY <1>3 DEF block_to_string
    <2> QED  BY <2>1, <2>2
  <1> QED  BY <1>1, <1>2, <1>4

\* The answer is a sequence of tokens.
LEMMA AnswerType ==
    ASSUME blocks \in Seq(Block)
    PROVE  Answer \in Seq(Token) /\ Len(Answer) = 5 * Len(blocks)
  <1>1. Len(blocks) \in Nat /\ DOMAIN Answer = 1..(5 * Len(blocks))
    BY AnswerAt
  <1>2. ASSUME NEW j \in 1..(5 * Len(blocks))
        PROVE  Answer[j] \in Token
    <2>1. PICK k \in 1..Len(blocks) :
              j = 5 * k - 4 \/ j = 5 * k - 3 \/ j = 5 * k - 2 \/ j = 5 * k - 1 \/ j = 5 * k
      <3>1. (j + 4) \div 5 \in 1..Len(blocks)
        BY <1>1
      <3>2. \/ j = 5 * ((j + 4) \div 5) - 4 \/ j = 5 * ((j + 4) \div 5) - 3
            \/ j = 5 * ((j + 4) \div 5) - 2 \/ j = 5 * ((j + 4) \div 5) - 1
            \/ j = 5 * ((j + 4) \div 5)
        BY <1>1
      <3> QED  BY <3>1, <3>2
    <2>2. blocks[k] \in Block
      OBVIOUS
    <2>3. Number(blocks[k].start) \in Token /\ Number(blocks[k].end) \in Token
      BY <2>2, Tokens DEF Block
    <2>4. Number(blocks[k].id) \in Token
      <3>1. blocks[k].id \in 0..Byte-1 /\ Byte \in Nat /\ Word \in Nat /\ Byte <= Word
        BY <2>2, BlockAssumption DEF Block
      <3>2. blocks[k].id \in Unsigned
        BY <3>1 DEF Unsigned
      <3> QED  BY <3>2, Tokens
    <2> QED  BY <2>1, <2>3, <2>4, AnswerAt, Tokens
  <1>3. Answer \in [1..(5 * Len(blocks)) -> Token]
    BY <1>1, <1>2 DEF Answer
  <1> QED  BY <1>1, <1>3, 5 * Len(blocks) \in Nat

\* What a round of the client's loops asks for, if its tokens are those of a
\* block, is that block.
LEMMA AskBlock ==
    ASSUME NEW b \in Block, asked \in Seq(Block),
           Ask(Number(b.id), Number(b.start), Number(b.end))
    PROVE  asked' = Append(asked, b)
  <1>1. b.id \in Nat /\ b.id < Byte /\ Byte \in Nat \ {0}
    BY BlockAssumption DEF Block
  <1>2. b.id % Byte = b.id
    BY <1>1, Remainder
  <1>3. asked' = Append(asked, [id |-> b.id, start |-> b.start, end |-> b.end])
    BY <1>2 DEF Ask, Number
  <1>4. b = [id |-> b.id, start |-> b.start, end |-> b.end]
    BY DEF Block
  <1> QED  BY <1>3, <1>4

\* Whatever three tokens a round takes, what it asks for has a block's types.
LEMMA AskType ==
    ASSUME asked \in Seq(Block), NEW x \in Token, NEW y \in Token, NEW z \in Token, Ask(x, y, z)
    PROVE  asked' \in Seq(Block)
  <1>1. x.value \in Nat /\ Byte \in Nat \ {0} /\ y.value \in Unsigned /\ z.value \in Unsigned
    BY BlockAssumption DEF Token, Unsigned
  <1>2. x.value % Byte \in 0..Byte-1
    BY <1>1
  <1> DEFINE b == [id |-> x.value % Byte, start |-> y.value, end |-> z.value]
  <1>3. b \in Block
    BY <1>1, <1>2 DEF Block
  <1>4. asked' = Append(asked, b)
    BY DEF Ask
  <1> QED  BY <1>3, <1>4

\* Before the answer nothing is asked; after it every repository has its block.
PhaseInv ==
    /\ pc = "divide" => asked = << >>
    /\ pc # "divide" => Len(blocks) = Len(list)

\* The tokens that are left are the end of the answer, from where the rounds so
\* far have left off: that of a GET takes a block's tokens, that of a PUT one more
\* than that (until there are not enough for it).
GetInv ==
    /\ pc = "get" =>
          /\ Len(asked) <= Len(blocks)
          /\ \A i \in 1..Len(asked) : asked[i] = blocks[i]
          /\ Len(tokens) = 5 * Len(blocks) - 5 * Len(asked)
          /\ \A k \in 1..Len(tokens) : tokens[k] = Answer[5 * Len(asked) + k]
    /\ pc = "get done" => asked = blocks

PutInv ==
    /\ pc \in {"put", "put done"} =>
          /\ \A k \in 1..Len(asked) : k % 5 = 1 => asked[k] = blocks[(6 * k - 1) \div 5]
          /\ tokens = << >> => Len(asked) = (5 * Len(blocks) + 1) \div 6
          /\ tokens # << >> =>
                /\ Len(tokens) = 5 * Len(blocks) + 1 - 6 * Len(asked)
                /\ \A k \in 2..Len(tokens) : tokens[k] = Answer[6 * Len(asked) + k - 1]
    /\ pc = "put done" => tokens = << >>

AnswerInv == DivisionInv /\ TypeOK /\ PhaseInv /\ GetInv /\ PutInv

\* A round of a GET asks for the next block.
LEMMA GetRoundAsks ==
    ASSUME AnswerInv, GetRound
    PROVE  /\ Len(asked) < Len(blocks)
           /\ asked' = Append(asked, blocks[Len(asked) + 1])
           /\ tokens' = SubSeq(tokens, 6, Len(tokens)) /\ Len(tokens) >= 5
  <1> DEFINE a == Len(asked)
             n == Len(blocks)
  <1>1. /\ pc = "get" /\ tokens # << >> /\ Ask(tokens[3], tokens[4], tokens[5])
        /\ tokens' = SubSeq(tokens, 6, Len(tokens))
    BY DEF GetRound, AtMark
  <1>2. /\ blocks \in Seq(Block) /\ asked \in Seq(Block) /\ tokens \in Seq(Token)
        /\ a \in Nat /\ n \in Nat /\ Len(tokens) \in Nat /\ Len(tokens) # 0
    BY <1>1 DEF AnswerInv, TypeOK, Token
  <1>3. /\ a <= n /\ Len(tokens) = 5 * n - 5 * a
        /\ \A k \in 1..Len(tokens) : tokens[k] = Answer[5 * a + k]
    BY <1>1 DEF AnswerInv, GetInv
  <1> HIDE DEF a, n
  <1>4. a < n /\ Len(tokens) >= 5
    BY <1>2, <1>3
  <1>5. a + 1 \in 1..n /\ 3 \in 1..Len(tokens) /\ 4 \in 1..Len(tokens) /\ 5 \in 1..Len(tokens)
    BY <1>2, <1>4
  <1>6. /\ 5 * (a + 1) - 2 = 5 * a + 3 /\ 5 * (a + 1) - 1 = 5 * a + 4
        /\ 5 * (a + 1) = 5 * a + 5
    BY <1>2
  <1>7. blocks[a + 1] \in Block
    BY <1>2, <1>5 DEF n
  <1>8. /\ Answer[5 * (a + 1) - 2] = Number(blocks[a + 1].id)
        /\ Answer[5 * (a + 1) - 1] = Number(blocks[a + 1].start)
        /\ Answer[5 * (a + 1)] = Number(blocks[a + 1].end)
    BY <1>2, <1>5, AnswerAt DEF n
  <1>9. /\ tokens[3] = Number(blocks[a + 1].id) /\ tokens[4] = Number(blocks[a + 1].start)
        /\ tokens[5] = Number(blocks[a + 1].end)
    BY <1>3, <1>5, <1>6, <1>8
  <1>10. asked' = Append(asked, blocks[a + 1])
    BY <1>1, <1>2, <1>7, <1>9, AskBlock
  <1> QED  BY <1>1, <1>4, <1>10 DEF a, n

\* Every step keeps the types.
LEMMA AnswerStep ==
    ASSUME AnswerInv, [Next]_vars
    PROVE  TypeOK' /\ PhaseInv'
  <1>0. DivisionInv'
    BY RoundDivides, OthersKeep DEF AnswerInv, Next, AnswerSent, PutRound, GetRound, AnswerRead, vars
  <1>1. /\ size \in Unsigned /\ list \in Seq(0..Byte-1) /\ list # << >>
        /\ blocks \in Seq(Block) /\ start_block \in Unsigned /\ end_block \in Unsigned
        /\ pc \in PCs /\ tokens \in Seq(Token) /\ asked \in Seq(Block) /\ PhaseInv
    BY DEF AnswerInv, TypeOK, Token
  <1>2. CASE DivideRound
    <2>1. block_size \in Nat /\ remaining \in Nat
      BY <1>1, Quotient DEF AnswerInv, DivisionInv, block_size, remaining
    <2>2. next_start \in Unsigned /\ next_end \in Unsigned
      <3>1. Word \in Nat \ {0} /\ end_block \in Nat
        BY <1>1, BlockAssumption DEF Unsigned
      <3>2. end_block + 1 \in Nat /\ end_block + block_size \in Nat
            /\ end_block + block_size + remaining \in Nat /\ end_block + block_size + 0 \in Nat
        BY <2>1, <3>1
      <3>3. \A x \in Nat : x % Word \in Unsigned
        BY <3>1 DEF Unsigned
      <3> QED  BY <3>2, <3>3 DEF next_start, next_end
    <2> QED  BY <1>0, <1>1, <1>2, <2>2 DEF DivideRound, DivisionInv, TypeOK, PhaseInv, PCs, Token
  <1>3. CASE AnswerSent
    <2>1. Answer \in Seq(Token) /\ Ack \in Token
      BY <1>1, AnswerType, Tokens
    <2>2. <<Ack>> \o Answer \in Seq(Token)
      BY <2>1
    <2>3. tokens' \in Seq(Token)
      BY <1>3, <2>1, <2>2 DEF AnswerSent
    <2> QED  BY <1>1, <1>3, <2>3 DEF AnswerSent, TypeOK, PhaseInv, PCs, Token
  <1>4. ASSUME NEW n \in 1..7, tokens' = SubSeq(tokens, n, Len(tokens))
        PROVE  tokens' \in Seq(Token)
    BY <1>1, <1>4
  <1>5. CASE PutRound
    <2>1. asked' \in Seq(Block)
      <3>1. CASE Len(tokens) >= 6
        <4>1. tokens[4] \in Token /\ tokens[5] \in Token /\ tokens[6] \in Token
          BY <1>1, <3>1
        <4> QED  BY <1>1, <1>5, <3>1, <4>1, AskType DEF PutRound
      <3> QED  BY <1>1, <1>5, <3>1 DEF PutRound
    <2> QED  BY <1>1, <1>4, <1>5, <2>1 DEF PutRound, TypeOK, PhaseInv, Token
  <1>6. CASE AnswerRead
    BY <1>1, <1>6 DEF AnswerRead, TypeOK, PhaseInv, PCs, Token
  <1>7. CASE GetRound
    <2>1. asked' = Append(asked, blocks[Len(asked) + 1]) /\ blocks[Len(asked) + 1] \in Block
      BY <1>1, <1>7, GetRoundAsks
    <2>2. asked' \in Seq(Block) /\ tokens' \in Seq(Token)
      BY <1>1, <1>4, <1>7, <2>1, GetRoundAsks
    <2> QED  BY <1>1, <1>7, <2>2 DEF GetRound, TypeOK, PhaseInv, Token
  <1>8. CASE UNCHANGED vars
    BY <1>1, <1>8 DEF vars, TypeOK, PhaseInv, Token
  <1> QED  BY <1>2, <1>3, <1>5, <1>6, <1>7, <1>8 DEF Next

\* What a round leaves of the tokens.
LEMMA Rest ==
    ASSUME NEW s \in Seq(Token), NEW n \in 1..7, Len(s) >= n - 1
    PROVE  LET r == SubSeq(s, n, Len(s))
           IN  /\ Len(r) = Len(s) - (n - 1)
               /\ \A k \in 1..Len(r) : r[k] = s[k + n - 1]
  OBVIOUS

\* Two lists of blocks with the same blocks at the same places are the same.
LEMMA SameBlocks ==
    ASSUME NEW s \in Seq(Block), NEW r \in Seq(Block), Len(s) = Len(r),
           \A i \in 1..Len(s) : s[i] = r[i]
    PROVE  s = r
  OBVIOUS

\* The answer does not change after the division.
LEMMA AnswerStays ==
    UNCHANGED blocks => UNCHANGED Answer
  BY DEF Answer, block_to_string, Mark, BlockName, Number

\* Every step keeps what a GET has asked for.
LEMMA GetStep ==
    ASSUME AnswerInv, [Next]_vars
    PROVE  GetInv'
  <1>1. /\ blocks \in Seq(Block) /\ asked \in Seq(Block) /\ tokens \in Seq(Token)
        /\ Len(blocks) \in Nat /\ Len(asked) \in Nat /\ Len(tokens) \in Nat
    BY DEF AnswerInv, TypeOK, Token
  <1>2. CASE AnswerSent
    <2>1. blocks' = blocks /\ asked' = << >> /\ pc' # "get done"
      BY <1>2 DEF AnswerSent, AnswerInv, PhaseInv
    <2>2. pc' = "get" => tokens' = Answer /\ Answer' = Answer
      BY <1>2, <2>1, AnswerStays DEF AnswerSent
    <2>3. Len(Answer) = 5 * Len(blocks)
      BY <1>1, AnswerType
    <2>4. Len(asked') = 0
      BY <2>1
    <2>5. pc' = "get" =>
              /\ Len(tokens') = 5 * Len(blocks') - 5 * Len(asked')
              /\ \A k \in 1..Len(tokens') : tokens'[k] = Answer'[5 * Len(asked') + k]
      <3> SUFFICES ASSUME pc' = "get"
                   PROVE  /\ Len(tokens') = 5 * Len(blocks') - 5 * Len(asked')
                          /\ \A k \in 1..Len(tokens') : tokens'[k] = Answer'[5 * Len(asked') + k]
        OBVIOUS
      <3>1. Len(tokens') = 5 * Len(blocks') - 5 * Len(asked')
        BY <1>1, <2>1, <2>2, <2>3, <2>4
      <3>2. \A k \in 1..Len(tokens') : 5 * Len(asked') + k = k
        BY <2>4
      <3> QED  BY <2>2, <3>1, <3>2
    <2>6. Len(asked') <= Len(blocks') /\ 1..Len(asked') = {}
      <3>1. Len(blocks') \in Nat
        BY <1>1, <2>1
      <3> QED  BY <2>4, <3>1
    <2> QED  BY <2>1, <2>5, <2>6 DEF GetInv
  <1>3. CASE GetRound
    <2> DEFINE a == Len(asked)
    <2>1. /\ a < Len(blocks) /\ asked' = Append(asked, blocks[a + 1])
          /\ tokens' = SubSeq(tokens, 6, Len(tokens)) /\ Len(tokens) >= 5
      BY <1>3, GetRoundAsks
    <2>2. pc = "get" /\ pc' = "get" /\ blocks' = blocks /\ Answer' = Answer
      BY <1>3, AnswerStays DEF GetRound
    <2>3. /\ \A i \in 1..a : asked[i] = blocks[i]
          /\ Len(tokens) = 5 * Len(blocks) - 5 * a
          /\ \A k \in 1..Len(tokens) : tokens[k] = Answer[5 * a + k]
      BY <2>2 DEF AnswerInv, GetInv
    <2>4. Len(asked') = a + 1 /\ \A i \in 1..Len(asked') : asked'[i] = blocks'[i]
      BY <1>1, <2>1, <2>2, <2>3
    <2>5. /\ Len(tokens') = Len(tokens) - (6 - 1)
          /\ \A k \in 1..Len(tokens') : tokens'[k] = tokens[k + 6 - 1]
      <3>1. 6 \in 1..7 /\ Len(tokens) >= 6 - 1 /\ tokens \in Seq(Token)
        BY <1>1, <2>1
      <3> QED  BY <2>1, <3>1, Rest
    <2>6. \A k \in 1..Len(tokens') : tokens'[k] = tokens[k + 5] /\ k + 5 \in 1..Len(tokens)
      BY <1>1, <2>1, <2>5
    <2>7. \A k \in 1..Len(tokens') : 5 * (a + 1) + k = 5 * a + (k + 5)
      BY <1>1
    <2> HIDE DEF a
    <2>8. \A k \in 1..Len(tokens') : tokens'[k] = Answer'[5 * (a + 1) + k]
      BY <2>2, <2>3, <2>6, <2>7
    <2>9. a \in Nat
      BY <1>1 DEF a
    <2>10. Len(tokens') = 5 * Len(blocks) - 5 * (a + 1) /\ a + 1 <= Len(blocks)
      <3> DEFINE n == Len(blocks)
                 l == Len(tokens)
      <3>1. n \in Nat /\ l \in Nat /\ a < n /\ l = 5 * n - 5 * a /\ Len(tokens') = l - (6 - 1)
        BY <1>1, <2>1, <2>3, <2>5
      <3> HIDE DEF n, l
      <3>2. Len(tokens') = 5 * n - 5 * (a + 1) /\ a + 1 <= n
        BY <2>9, <3>1
      <3> QED  BY <3>2 DEF n
    <2> QED  BY <2>2, <2>4, <2>8, <2>10 DEF GetInv
  <1>4. CASE AnswerRead
    <2>1. UNCHANGED <<blocks, tokens, asked>> /\ Answer' = Answer /\ pc' \in {"put done", "get done"}
      BY <1>4, AnswerStays DEF AnswerRead
    <2>2. CASE pc = "get"
      <3>1. ~AtMark
        BY <1>4, <2>2 DEF AnswerRead
      <3>2. /\ Len(asked) <= Len(blocks) /\ \A i \in 1..Len(asked) : asked[i] = blocks[i]
            /\ Len(tokens) = 5 * Len(blocks) - 5 * Len(asked)
            /\ \A k \in 1..Len(tokens) : tokens[k] = Answer[5 * Len(asked) + k]
        BY <2>2 DEF AnswerInv, GetInv
      <3>3. ~(Len(asked) < Len(blocks))
        <4> SUFFICES ASSUME Len(asked) < Len(blocks) PROVE FALSE
          OBVIOUS
        <4> DEFINE a == Len(asked)
        <4>1. a + 1 \in 1..Len(blocks) /\ 1 \in 1..Len(tokens) /\ 5 * (a + 1) - 4 = 5 * a + 1
          BY <1>1, <3>2
        <4> HIDE DEF a
        <4>2. Answer[5 * (a + 1) - 4] = Mark
          BY <1>1, <4>1, AnswerAt
        <4>3. tokens[1] = Mark
          BY <3>2, <4>1, <4>2 DEF a
        <4> QED  BY <3>1, <4>1, <4>3 DEF AtMark
      <3>4. asked = blocks
        <4>1. Len(asked) = Len(blocks)
          BY <1>1, <3>2, <3>3
        <4> QED  BY <1>1, <3>2, <4>1, SameBlocks
      <3> QED  BY <2>1, <3>4 DEF GetInv
    <2>3. CASE pc = "put"
      <3>1. pc' = "put done"
        BY <1>4, <2>3 DEF AnswerRead
      <3> QED  BY <3>1 DEF GetInv
    <2> QED  BY <1>4, <2>2, <2>3 DEF AnswerRead
  <1>5. CASE DivideRound \/ PutRound
    BY <1>5 DEF DivideRound, PutRound, GetInv
  <1>6. CASE UNCHANGED vars
    BY <1>6, AnswerStays DEF vars, AnswerInv, GetInv
  <1> QED  BY <1>2, <1>3, <1>4, <1>5, <1>6 DEF Next

\* The k-th round of a PUT, when k - 1 is a multiple of five, asks for the block
\* whose tokens come at that place.
LEMMA PutRoundAsks ==
    ASSUME AnswerInv, PutRound, Len(tokens) >= 6, (Len(asked) + 1) % 5 = 1
    PROVE  asked' = Append(asked, blocks[(6 * (Len(asked) + 1) - 1) \div 5])
  <1> DEFINE a == Len(asked)
             n == Len(blocks)
             j == (6 * (a + 1) - 1) \div 5
  <1>1. /\ pc = "put" /\ tokens # << >> /\ Ask(tokens[4], tokens[5], tokens[6])
    BY DEF PutRound
  <1>2. /\ blocks \in Seq(Block) /\ asked \in Seq(Block) /\ tokens \in Seq(Token)
        /\ a \in Nat /\ n \in Nat /\ Len(tokens) \in Nat
    BY DEF AnswerInv, TypeOK, Token
  <1>3. /\ Len(tokens) = 5 * n + 1 - 6 * a
        /\ \A k \in 2..Len(tokens) : tokens[k] = Answer[6 * a + k - 1]
    BY <1>1 DEF AnswerInv, PutInv
  <1>4. (a + 1) % 5 = 1
    OBVIOUS
  <1> HIDE DEF a, n
  <1>5. j \in 1..n /\ 5 * j = 6 * a + 5
    BY <1>2, <1>3, <1>4
  <1>6. /\ 4 \in 2..Len(tokens) /\ 5 \in 2..Len(tokens) /\ 6 \in 2..Len(tokens)
        /\ 5 * j - 2 = 6 * a + 4 - 1 /\ 5 * j - 1 = 6 * a + 5 - 1 /\ 5 * j = 6 * a + 6 - 1
    BY <1>2, <1>5
  <1> HIDE DEF j
  <1>7. blocks[j] \in Block
    BY <1>2, <1>5 DEF n
  <1>8. /\ Answer[5 * j - 2] = Number(blocks[j].id)
        /\ Answer[5 * j - 1] = Number(blocks[j].start)
        /\ Answer[5 * j] = Number(blocks[j].end)
    BY <1>2, <1>5, AnswerAt DEF n
  <1>9. /\ tokens[4] = Number(blocks[j].id) /\ tokens[5] = Number(blocks[j].start)
        /\ tokens[6] = Number(blocks[j].end)
    BY <1>3, <1>6, <1>8
  <1>10. asked' = Append(asked, blocks[j])
    BY <1>1, <1>2, <1>7, <1>9, AskBlock
  <1> QED  BY <1>10 DEF a, j

\* Every step keeps what a PUT has asked for.
LEMMA PutStep ==
    ASSUME AnswerInv, [Next]_vars
    PROVE  PutInv'
  <1>1. /\ blocks \in Seq(Block) /\ asked \in Seq(Block) /\ tokens \in Seq(Token)
        /\ Len(blocks) \in Nat /\ Len(asked) \in Nat /\ Len(tokens) \in Nat
    BY DEF AnswerInv, TypeOK, Token
  <1>2. CASE AnswerSent
    <2>1. blocks' = blocks /\ asked' = << >> /\ pc' # "put done"
      BY <1>2 DEF AnswerSent, AnswerInv, PhaseInv
    <2>2. pc' = "put" => tokens' = <<Ack>> \o Answer /\ Answer' = Answer
      BY <1>2, <2>1, AnswerStays DEF AnswerSent
    <2>3. Len(Answer) = 5 * Len(blocks) /\ Answer \in Seq(Token)
      BY <1>1, AnswerType
    <2>4. ASSUME pc' = "put"
          PROVE  /\ Len(tokens') = 5 * Len(blocks) + 1 /\ tokens' # << >>
                 /\ \A k \in 2..Len(tokens') : tokens'[k] = Answer[k - 1]
      BY <1>1, <2>2, <2>3, <2>4
    <2>5. Len(asked') = 0
      BY <2>1
    <2>6. pc' = "put" =>
              /\ Len(tokens') = 5 * Len(blocks') + 1 - 6 * Len(asked')
              /\ \A k \in 2..Len(tokens') : tokens'[k] = Answer'[6 * Len(asked') + k - 1]
      <3> SUFFICES ASSUME pc' = "put", NEW k \in 2..Len(tokens')
                   PROVE  tokens'[k] = Answer'[6 * Len(asked') + k - 1]
        BY <1>1, <2>1, <2>4, <2>5
      <3>1. 6 * Len(asked') + k - 1 = k - 1
        BY <2>5
      <3> QED  BY <2>2, <2>4, <3>1
    <2>7. 1..Len(asked') = {}
      BY <2>5
    <2>8. pc' = "put" => tokens' # << >>
      BY <2>4
    <2>9. pc' # "put done"
      BY <2>1
    <2> QED  BY <2>6, <2>7, <2>8, <2>9 DEF PutInv
  <1>3. CASE PutRound
    <2> DEFINE a == Len(asked)
               n == Len(blocks)
    <2>1. /\ pc = "put" /\ pc' = "put" /\ tokens # << >> /\ blocks' = blocks /\ Answer' = Answer
          /\ tokens' = SubSeq(tokens, 7, Len(tokens))
      BY <1>3, AnswerStays DEF PutRound
    <2>2. /\ \A k \in 1..a : k % 5 = 1 => asked[k] = blocks[(6 * k - 1) \div 5]
          /\ Len(tokens) = 5 * n + 1 - 6 * a
          /\ \A k \in 2..Len(tokens) : tokens[k] = Answer[6 * a + k - 1]
      BY <2>1 DEF AnswerInv, PutInv
    <2>3. a \in Nat /\ n \in Nat /\ Len(tokens) # 0
      BY <1>1, <2>1
    <2>4. CASE Len(tokens) >= 6
      <3>1. /\ Len(asked') = a + 1
            /\ \A k \in 1..a : asked'[k] = asked[k]
            /\ (a + 1) % 5 = 1 => asked'[a + 1] = blocks[(6 * (a + 1) - 1) \div 5]
        <4>1. PICK b : asked' = Append(asked, b) /\ ((a + 1) % 5 = 1 => b = blocks[(6 * (a + 1) - 1) \div 5])
          BY <1>3, <2>4, PutRoundAsks DEF PutRound, Ask
        <4> QED  BY <1>1, <4>1
      <3>2. Len(tokens') = Len(tokens) - 6 /\ \A k \in 1..Len(tokens') : tokens'[k] = tokens[k + 6]
        <4>1. /\ Len(tokens') = Len(tokens) - (7 - 1)
              /\ \A k \in 1..Len(tokens') : tokens'[k] = tokens[k + 7 - 1]
          <5>1. 7 \in 1..7 /\ Len(tokens) >= 7 - 1 /\ tokens \in Seq(Token)
            BY <1>1, <2>4
          <5> QED  BY <2>1, <5>1, Rest
        <4> QED  BY <1>1, <4>1
      <3>3. \A k \in 1..Len(tokens') : tokens'[k] = tokens[k + 6] /\ k + 6 \in 2..Len(tokens)
        BY <1>1, <2>1, <3>2
      <3> HIDE DEF a, n
      <3>4. \A k \in 2..Len(tokens') : 6 * (a + 1) + k - 1 = 6 * a + (k + 6) - 1
        BY <2>3
      <3>5. \A k \in 2..Len(tokens') : tokens'[k] = Answer'[6 * (a + 1) + k - 1]
        BY <1>1, <2>1, <2>2, <3>2, <3>3, <3>4
      <3>6. Len(tokens') = 5 * n + 1 - 6 * (a + 1)
        BY <1>1, <2>2, <2>3, <3>2
      <3>7. tokens' = << >> => a + 1 = (5 * n + 1) \div 6
        <4> SUFFICES ASSUME Len(tokens') = 0 PROVE a + 1 = (5 * n + 1) \div 6
          OBVIOUS
        <4> QED  BY <2>3, <3>6
      <3>8. \A k \in 1..a+1 : k % 5 = 1 => asked'[k] = blocks'[(6 * k - 1) \div 5]
        <4> TAKE k \in 1..a+1
        <4>1. k \in 1..a \/ k = a + 1
          BY <2>3
        <4> QED  BY <2>1, <2>2, <3>1, <4>1
      <3> QED  BY <2>1, <3>1, <3>5, <3>6, <3>7, <3>8 DEF PutInv, n
    <2>5. CASE Len(tokens) < 6
      <3>1. asked' = asked /\ tokens' = << >>
        BY <1>1, <1>3, <2>1, <2>5 DEF PutRound
      <3> HIDE DEF a, n
      <3>2. a = (5 * n + 1) \div 6
        BY <1>1, <2>2, <2>3, <2>5
      <3> QED  BY <2>1, <2>2, <3>1, <3>2 DEF PutInv, a, n
    <2> QED  BY <1>1, <2>4, <2>5
  <1>4. CASE AnswerRead
    <2>1. UNCHANGED <<blocks, tokens, asked>> /\ Answer' = Answer
      BY <1>4, AnswerStays DEF AnswerRead
    <2>2. pc' \in {"put", "put done"} => pc = "put" /\ tokens = << >>
      BY <1>4 DEF AnswerRead
    <2> QED  BY <2>1, <2>2 DEF AnswerInv, PutInv
  <1>5. CASE DivideRound \/ GetRound
    BY <1>5 DEF DivideRound, GetRound, PutInv
  <1>6. CASE UNCHANGED vars
    BY <1>6, AnswerStays DEF vars, AnswerInv, PutInv
  <1> QED  BY <1>2, <1>3, <1>4, <1>5, <1>6 DEF Next

\* At all times answer and requests are where the rounds have left them.
THEOREM AnswerInductive == Spec => []AnswerInv
  <1>1. Init => AnswerInv
    <2> SUFFICES ASSUME Init PROVE AnswerInv
      OBVIOUS
    <2>1. DivisionInv
      BY InitDivision
    <2>2. /\ size \in Nat /\ size < Word \div 2 /\ Word \in Nat \ {0}
          /\ list \in Seq(0..Byte-1) /\ list # << >> /\ Len(list) \in Nat \ {0}
      BY <2>1, BlockAssumption DEF DivisionInv
    <2>3. block_size \in Nat /\ Len(list) * block_size <= size
      BY <2>2, Quotient DEF block_size
    <2>4. 0 \in 0..Len(list) /\ 1 \in 0..Len(list)
      BY <2>2
    <2>5. end_block = EndOf(1) /\ EndOf(1) <= size
      BY <2>2, <2>3, <2>4, Ends DEF Init, EndOf
    <2>6. end_block = block_size
      BY DEF Init
    <2>7. size \in Unsigned /\ end_block \in Unsigned /\ start_block \in Unsigned
      <3>1. start_block = 0
        BY DEF Init
      <3> QED  BY <2>2, <2>3, <2>5, <2>6, <3>1 DEF Unsigned
    <2>8. TypeOK
      BY <2>2, <2>7 DEF Init, TypeOK, PCs
    <2>9. PhaseInv /\ GetInv /\ PutInv
      BY DEF Init, PhaseInv, GetInv, PutInv
    <2> QED  BY <2>1, <2>8, <2>9 DEF AnswerInv
  <1>2. ASSUME AnswerInv, [Next]_vars PROVE AnswerInv'
    <2>1. DivisionInv'
      BY <1>2, RoundDivides, OthersKeep
         DEF AnswerInv, Next, AnswerSent, PutRound, GetRound, AnswerRead, vars
    <2> QED  BY <1>2, <2>1, AnswerStep, GetStep, PutStep DEF AnswerInv
  <1> QED  BY <1>1, <1>2, PTL DEF Spec

\* Offsets stay within an unsigned long and ids within a byte, whatever the
\* client's loops take out of the answer.
THEOREM DivisionTyping == Spec => []TypeOK
  <1>1. AnswerInv => TypeOK
    BY DEF AnswerInv
  <1> QED  BY AnswerInductive, <1>1, PTL

\* A GET asks for exactly the blocks of the file, in their order.
THEOREM GetAsksBlocks == Spec => []GetAsks
  <1>1. ASSUME AnswerInv PROVE GetAsks
    <2>1. blocks \in Seq(Block) /\ asked \in Seq(Block) /\ GetInv
      BY <1>1 DEF AnswerInv, TypeOK
    <2>2. CASE pc = "get"
      <3>1. Len(asked) <= Len(blocks) /\ \A i \in 1..Len(asked) : asked[i] = blocks[i]
        BY <2>1, <2>2 DEF GetInv
      <3>2. Len(asked) \in Nat /\ Len(blocks) \in Nat
        BY <2>1
      <3>3. SubSeq(asked, 1, Len(asked)) = SubSeq(blocks, 1, Len(asked))
        BY <2>1, <3>1, <3>2
      <3> QED  BY <2>2, <3>1, <3>3 DEF GetAsks, IsPrefix
    <2>3. CASE pc # "get"
      BY <2>1, <2>3 DEF GetInv, GetAsks
    <2> QED  BY <2>2, <2>3
  <1> QED  BY AnswerInductive, <1>1, PTL

\* Of all the blocks of a file, a PUT sends the first, the seventh and so on:
\* the loop takes six tokens a round where a block has five.
THEOREM PutAsksSome == Spec => []PutAsks
  <1>1. ASSUME AnswerInv PROVE PutAsks
    <2>1. pc = "put done" => Len(asked) = (5 * Len(list) + 1) \div 6
      BY <1>1 DEF AnswerInv, PutInv, PhaseInv
    <2> QED  BY <1>1, <2>1 DEF AnswerInv, PutInv, PutAsks
  <1> QED  BY AnswerInductive, <1>1, PTL

-------------------------------------------------------------------------------
\* A number is at its quotient's multiple or less than a divisor after it.
LEMMA Multiple ==
    ASSUME NEW x \in Nat, NEW b \in Nat \ {0}
    PROVE  x \div b \in Nat /\ b * (x \div b) <= x /\ x < b * (x \div b) + b
  OBVIOUS

\* Where split_file looks for the bytes of block k.
LEMMA SplitFile ==
    ASSUME DivisionInv, NEW k \in 1..Len(blocks)
    PROVE  /\ split_file(blocks[k]) = {x \in 0..size-1 : StartOf(k) <= x /\ x < EndOf(k)}
           /\ StartOf(k) \in Nat /\ EndOf(k) \in Nat /\ EndOf(k) <= size
           /\ block_size > 0 => StartOf(k) <= EndOf(k)
  <1>1. blocks[k].start = StartOf(k) /\ blocks[k].end = EndOf(k)
    BY DEF DivisionInv
  <1>2. k \in Nat /\ k # 0 /\ k \in 0..Len(list) /\ k \in 1..Len(list) /\ k - 1 \in 0..Len(list)
    BY DEF DivisionInv
  <1>3. block_size \in Nat /\ EndOf(k) \in Nat /\ EndOf(k) <= size /\ EndOf(k - 1) \in Nat
        /\ StartOf(k) \in Nat /\ StartOf(k) <= EndOf(k - 1) + 1
    BY <1>2, Ends DEF DivisionInv
  <1>4. EndOf((k - 1) + 1) = EndOf(k - 1) + block_size /\ (k - 1) + 1 = k
    BY <1>2, Ends DEF DivisionInv
  <1>5. block_size > 0 => StartOf(k) <= EndOf(k)
    BY <1>3, <1>4
  <1> QED  BY <1>1, <1>3, <1>5 DEF split_file

\* A transfer never ends exactly if its block comes after the first and no
\* repository gets a byte: end - start wraps around.
THEOREM Endless == Spec => []EndlessTransfers
  <1>1. ASSUME DivisionInv PROVE EndlessTransfers
    <2> SUFFICES ASSUME NEW k \in 1..Len(blocks)
                 PROVE  file_size(blocks[k]) > Cardinality(split_file(blocks[k]))
                            <=> block_size = 0 /\ k > 1
      BY DEF EndlessTransfers
    <2> DEFINE s == StartOf(k)
               e == EndOf(k)
    <2>1. /\ split_file(blocks[k]) = {x \in 0..size-1 : s <= x /\ x < e}
          /\ s \in Nat /\ e \in Nat /\ e <= size /\ (block_size > 0 => s <= e)
      BY <1>1, SplitFile
    <2>2. file_size(blocks[k]) = (e - s) % Word
      BY <1>1 DEF file_size, DivisionInv
    <2>3. size \in Nat /\ Word \in Nat \ {0} /\ size < Word /\ Word > 1
      BY <1>1, BlockAssumption DEF DivisionInv
    <2>4. block_size \in Nat /\ k \in Nat \ {0}
      BY <1>1, Ends DEF DivisionInv
    <2>5. CASE block_size > 0
      <3> HIDE DEF s, e
      <3>1. split_file(blocks[k]) = s..(e - 1)
        BY <2>1, <2>3, <2>5
      <3>2. s \in Int /\ e - 1 \in Int /\ s <= e
        BY <2>1, <2>5
      <3>3. Cardinality(s..(e - 1)) = IF s > e - 1 THEN 0 ELSE (e - 1) - s + 1
        BY <3>2, FS_Interval
      <3>4. Cardinality(s..(e - 1)) = e - s
        BY <2>1, <3>2, <3>3
      <3>5. (e - s) % Word = e - s
        BY <2>1, <2>3, <2>5, Remainder
      <3>6. file_size(blocks[k]) = e - s /\ Cardinality(split_file(blocks[k])) = e - s
        BY <2>2, <3>1, <3>4, <3>5
      <3>7. ~(e - s > e - s)
        BY <2>1
      <3> QED  BY <2>5, <3>6, <3>7
    <2>6. CASE block_size = 0
      <3>1. e = 0 /\ s = (IF k = 1 THEN 0 ELSE 1)
        BY <2>4, <2>6 DEF EndOf, StartOf
      <3>2. split_file(blocks[k]) = {}
        BY <2>1, <3>1
      <3>3. Cardinality(split_file(blocks[k])) = 0
        BY <3>2, FS_EmptySet
      <3> HIDE DEF s, e
      <3>4. (e - s) % Word > 0 <=> k > 1
        <4>1. (0 - 1) % Word = Word - 1
          BY <2>3
        <4>2. 0 % Word = 0
          BY <2>3
        <4> QED  BY <2>3, <2>4, <3>1, <4>1, <4>2
      <3> QED  BY <2>2, <2>6, <3>3, <3>4
    <2> QED  BY <2>4, <2>5, <2>6
  <1> QED  BY <1>1, Division, PTL

\* The bytes in no block are the ones between any two blocks and the remainder.
THEOREM BytesLost == Spec => []LostBytes
  <1>1. ASSUME DivisionInv PROVE LostBytes
    <2> DEFINE n == Len(list)
               bs == block_size
               Lost == {k * bs : k \in 1..n-1} \cup (n * bs .. size-1)
    <2> SUFFICES ASSUME bs > 0, Len(blocks) = n
                 PROVE  (0..size-1) \ Stored = Lost
      BY DEF LostBytes
    <2>1. /\ n \in Nat \ {0} /\ bs \in Nat \ {0} /\ size \in Nat
          /\ \A i \in 0..n : i * bs \in Nat /\ i * bs <= size
          /\ \A i, j \in 0..n : i <= j => i * bs <= j * bs
      BY <1>1, Ends DEF DivisionInv, EndOf
    <2>2. \A k \in 1..n : split_file(blocks[k]) = {x \in 0..size-1 : StartOf(k) <= x /\ x < k * bs}
      BY <1>1, SplitFile DEF EndOf
    <2> HIDE DEF n, bs
    <2>3. \A k \in 1..n : StartOf(k) = IF k = 1 THEN 0 ELSE (k - 1) * bs + 1
      BY DEF StartOf, bs
    <2>4. ASSUME NEW x \in Lost
          PROVE  x \in 0..size-1 /\ x \notin Stored
      <3>1. CASE x \in n * bs .. size-1
        <4>1. n * bs \in Nat
          BY <2>1
        <4>2. \A k \in 1..n : k * bs <= n * bs /\ k * bs \in Nat
          BY <2>1
        <4>3. \A k \in 1..n : x \notin split_file(blocks[k])
          BY <2>2, <3>1, <4>1, <4>2
        <4> QED  BY <2>1, <3>1, <4>1, <4>3 DEF Stored, n
      <3>2. CASE \E j \in 1..n-1 : x = j * bs
        <4>1. PICK j \in 1..n-1 : x = j * bs
          BY <3>2
        <4>2. j \in 0..n /\ j + 1 \in 0..n /\ (j + 1) * bs = j * bs + bs
          BY <2>1
        <4>3. x \in Nat /\ x < size
          <5>1. j * bs \in Nat /\ (j + 1) * bs <= size
            BY <2>1, <4>2
          <5> QED  BY <2>1, <4>1, <4>2, <5>1
        <4>4. ASSUME NEW k \in 1..n
              PROVE  x \notin split_file(blocks[k])
          <5>1. CASE k <= j
            <6>1. k * bs <= x /\ k * bs \in Nat
              BY <2>1, <4>1, <4>2, <5>1
            <6> QED  BY <2>2, <4>3, <6>1
          <5>2. CASE j <= k - 1
            <6>1. x <= (k - 1) * bs /\ (k - 1) * bs \in Nat
              BY <2>1, <4>1, <4>2, <5>2
            <6>2. StartOf(k) = (k - 1) * bs + 1
              BY <2>3, <5>2
            <6> QED  BY <2>2, <4>3, <6>1, <6>2
          <5> QED  BY <2>1, <5>1, <5>2
        <4> QED  BY <2>1, <4>3, <4>4 DEF Stored, n
      <3> QED  BY <3>1, <3>2
    <2>5. ASSUME NEW x \in 0..size-1, x \notin Stored
          PROVE  x \in Lost
      <3> SUFFICES ASSUME x < n * bs PROVE \E k \in 1..n-1 : x = k * bs
        BY <2>1
      <3> DEFINE j == x \div bs
      <3>1. j \in Nat /\ bs * j <= x /\ x < bs * j + bs
        BY <2>1, Multiple
      <3> HIDE DEF j
      <3>2. bs * j = j * bs /\ (j + 1) * bs = j * bs + bs /\ j * bs \in Nat
        BY <2>1, <3>1
      <3>3. j < n
        <4> SUFFICES ASSUME n <= j PROVE FALSE
          BY <2>1, <3>1
        <4>1. n * bs <= j * bs
          BY <2>1, <3>1, Monotonic
        <4> QED  BY <2>1, <3>1, <3>2, <4>1
      <3>4. j + 1 \in 1..n /\ (j + 1) - 1 = j
        BY <2>1, <3>1, <3>3
      <3>5. x \notin split_file(blocks[j + 1])
        BY <2>5, <3>4 DEF Stored, n
      <3>6. ~(StartOf(j + 1) <= x)
        BY <2>2, <3>1, <3>2, <3>4, <3>5
      <3>7. j # 0 /\ x < j * bs + 1
        BY <2>3, <3>1, <3>2, <3>4, <3>6
      <3>8. x = j * bs
        BY <3>1, <3>2, <3>7
      <3>9. j \in 1..n-1
        BY <2>1, <3>1, <3>3, <3>7
      <3> QED  BY <3>8, <3>9
    <2> HIDE DEF Lost
    <2> QED  BY <2>4, <2>5
  <1> QED  BY <1>1, Division, PTL

===============================================================================
