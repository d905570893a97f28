-------------------------- MODULE DataRepositoryProofs --------------------------
(***************************************************************************)
(* Proofs about DataRepository, for any number of sessions, blocks and     *)
(* file names.                                                             *)
(***************************************************************************)
EXTENDS DataRepository, FiniteSetTheorems, SequenceTheorems, TLAPS

USE DEF Idle, Recv, Half, Gone, Parse, Extent, Copy, Open, Astray, Receive, Extend, Wait, Hold,
        Log, Stuck, scan

-------------------------------------------------------------------------------
\* The names that PUTs of this run have brought into localpath.
PathNames == {localpath[k] : k \in 1..Len(localpath)}

\* A name that find_file knows, or that another PUT has.
Known(b) == PutsOwn # {} \/ \E i \in 1..Len(list) : list[i].name = NameOf[b]

\* The block has its file, or db_destroyer freed a record of it.
HasFile(b) == b \in dir \/ \E j \in (1..Len(list)) \ Live : b \in Listed(j)

\* What the control point of a session tells of its request.
ThreadOK(t) ==
    /\ cmd[t] = "put" => arg[t] \in Block_File
    /\ pc[t] \in {Extent, Copy, Open, Astray, Receive, Extend, Log, Stuck} => cmd[t] = "put"
    /\ cmd[t] = "quit" => at[t] \in 1..Len(list)
    /\ cmd[t] = "put" /\ pc[t] \in {Wait, Hold, Log, Stuck} => NameOf[arg[t].block] \in PathNames
    /\ cmd[t] = "put" /\ pc[t] \in {Receive, Extend, Wait, Hold} => HasFile(arg[t].block)
    /\ pc[t] = Log => PutsOwn # {}
    /\ pc[t] = Stuck => Known(arg[t].block)
    /\ ~Serving => pc[t] = Idle
    /\ fresh => /\ pc[t] \notin {Open, Receive, Extend, Log, Stuck}
                /\ pc[t] \in {Wait, Hold} => cmd[t] \in {"update_map", "remove"}

\* One session has the permit or lost it.
Permit ==
    /\ sem \in {0, 1}
    /\ sem = 1 => \A t \in Threads : pc[t] \notin {Hold, Stuck}
    /\ sem = 0 => \E t \in Threads : pc[t] \in {Hold, Stuck}
    /\ \A t, u \in Threads : pc[t] \in {Hold, Stuck} /\ pc[u] \in {Hold, Stuck} => t = u

\* The runs: what there is before the first, and between any two.
RunOK ==
    /\ ~made => phase = "down" /\ dir = {} /\ lines = {}
    /\ phase = "down" => list = << >> /\ ~fresh
    /\ phase # "serve" => localpath = << >>
    /\ phase = "scan" => todo \subseteq dir

\* The record of this run's PUT, and its line.
OwnOK ==
    /\ \A i, j \in PutsOwn : i = j
    /\ PutsOwn # {} => localpath # << >>
    /\ \A t, u \in Threads : pc[t] = Log /\ pc[u] = Log => t = u

\* A range is known only of the block that record was made with.
RangeOK ==
    \A i \in 1..Len(list) : \A k \in 1..Len(list[i].blocks) :
        list[i].blocks[k].told => list[i].name = Local /\ k = 1

\* The scan has listed what it has passed.
ScanOK ==
    phase = "scan" => \A b \in dir \ ignored : b \in todo \/ \E i \in 1..Len(list) : b \in Listed(i)

StoreInv ==
    /\ TypeOK
    /\ \A t \in Threads : ThreadOK(t)
    /\ Permit /\ RunOK /\ OwnOK /\ RangeOK /\ ScanOK
    /\ FirstRunStoresNothing /\ Covered /\ HiddenIsOwn /\ ListedHasFile

-------------------------------------------------------------------------------
\* Only thread t moves.
Alone(t) ==
    \A u \in Threads : u # t =>
        pc'[u] = pc[u] /\ cmd'[u] = cmd[u] /\ arg'[u] = arg[u] /\ at'[u] = at[u]

\* What another session, or a step elsewhere, leaves true of a thread.
LEMMA ThreadFrame ==
    ASSUME NEW u \in Threads, ThreadOK(u),
           pc'[u] = pc[u], cmd'[u] = cmd[u], arg'[u] = arg[u], at'[u] = at[u],
           fresh' = fresh, phase' = phase,
           Len(list) \in Nat, Len(list') \in Nat, Len(list) <= Len(list'),
           PathNames \subseteq PathNames',
           PutsOwn # {} => PutsOwn' # {},
           \A b \in Blocks : (Known(b) => Known(b)') /\ (HasFile(b) => HasFile(b)')
    PROVE  ThreadOK(u)'
  <1>1. arg[u] \in Block_File => arg[u].block \in Blocks
    BY DEF Block_File
  <1>2. at[u] \in 1..Len(list) => at[u] \in 1..Len(list')
    OBVIOUS
  <1>3. Serving' = Serving
    BY DEF Serving
  <1>4. cmd[u] = "put" /\ Known(arg[u].block) => Known(arg[u].block)'
    BY <1>1 DEF ThreadOK, Known
  <1>5. cmd[u] = "put" /\ HasFile(arg[u].block) => HasFile(arg[u].block)'
    BY <1>1 DEF ThreadOK, HasFile
  <1> QED  BY <1>2, <1>3, <1>4, <1>5 DEF ThreadOK

\* A step of t that leaves disk and memory alone.
Session(t) ==
    /\ UNCHANGED <<disk, phase, scan, memory>>
    /\ Alone(t)

\* Such a step has only to say what t does.
LEMMA SessionFrame ==
    ASSUME StoreInv, NEW t \in Threads, Session(t), TypeOK', ThreadOK(t)', pc'[t] # Log,
           pc[t] \in {Hold, Stuck} <=> pc'[t] \in {Hold, Stuck},
           \A b \in Blocks : Storing(t, b) => Storing(t, b)'
    PROVE  StoreInv'
  <1> USE DEF StoreInv, Session, Alone, disk, memory
  <1>1. list' = list /\ dir' = dir /\ localpath' = localpath /\ Len(list) \in Nat
        /\ PutsOwn' = PutsOwn /\ Live' = Live /\ \A i : Listed(i)' = Listed(i)
    BY DEF PutsOwn, Live, Listed, TypeOK
  <1>2. PathNames' = PathNames /\ \A b : (Known(b)' <=> Known(b)) /\ (HasFile(b)' <=> HasFile(b))
    BY <1>1 DEF PathNames, Known, HasFile
  <1>3. \A u \in Threads : ThreadOK(u)'
    <2> SUFFICES ASSUME NEW u \in Threads, u # t PROVE ThreadOK(u)'
      OBVIOUS
    <2> QED  BY <1>1, <1>2, ThreadFrame
  <1>4. Permit'
    BY DEF Permit
  <1>5. RunOK' /\ RangeOK' /\ ScanOK' /\ FirstRunStoresNothing' /\ ListedHasFile'
        /\ HiddenIsOwn'
    BY <1>1 DEF RunOK, RangeOK, ScanOK, FirstRunStoresNothing, ListedHasFile, HiddenIsOwn
  <1>6. OwnOK'
    BY <1>1 DEF OwnOK
  <1>7. Covered'
    <2>1. \A u \in Threads, b \in Blocks : Storing(u, b) => Storing(u, b)'
      BY DEF Storing
    <2>2. dir \subseteq Blocks
      BY DEF TypeOK
    <2> QED  BY <1>1, <2>1, <2>2 DEF Covered, Serving
  <1> QED  BY <1>3, <1>4, <1>5, <1>6, <1>7

-------------------------------------------------------------------------------
\* A session begins, a request is read, its arguments are taken.
LEMMA HandleStep ==
    ASSUME StoreInv, NEW t \in Threads, Handle(t)
    PROVE  StoreInv'
  <1> DEFINE Early == {Idle, Recv, Half, Gone, Parse, Extent, Copy, Wait}
             Quiet == TypeOK' /\ ThreadOK(t)' /\ Session(t) /\ pc'[t] \in Early
  <1> USE DEF StoreInv, At, Goto, Session, Alone, disk, memory, TypeOK, PCs, Commands,
              Cursor, Block_File, new_block
  <1>1. ThreadOK(t)
    OBVIOUS
  <1>2. ASSUME Accept(t) PROVE Quiet
    BY <1>1, <1>2 DEF Accept, ThreadOK, Serving
  <1>3. ASSUME HandlePut(t) PROVE Quiet
    BY <1>1, <1>3 DEF HandlePut, Begin, ThreadOK, Serving
  <1>4. ASSUME HandleUpdateMap(t) \/ HandleRemove(t) PROVE Quiet
    <2>1. pc[t] = Recv /\ pc'[t] = Parse /\ arg' = arg /\ at' = at /\ list' = list
      BY <1>4 DEF HandleUpdateMap, HandleRemove, Begin
    <2>2. cmd' \in [Threads -> Commands] /\ cmd'[t] \in {"update_map", "remove"}
      BY <1>4 DEF HandleUpdateMap, HandleRemove, Begin
    <2>3. UNCHANGED <<disk, phase, scan, memory>> /\ saved' = t /\ pc' = [pc EXCEPT ![t] = Parse]
      BY <1>4 DEF HandleUpdateMap, HandleRemove, Begin
    <2>4. pc' \in [Threads -> PCs] /\ saved' \in Cursor
      BY <2>3
    <2>5. TypeOK'
      <3> HIDE DEF Block_File, Cursor, PCs, Commands
      <3> QED  BY <2>1, <2>2, <2>3, <2>4
    <2>6. Session(t)
      BY <1>4, <2>1 DEF HandleUpdateMap, HandleRemove, Begin
    <2>7. ThreadOK(t)'
      BY <1>1, <1>4, <2>1, <2>2 DEF HandleUpdateMap, HandleRemove, Begin, ThreadOK, Serving
    <2> QED  BY <2>1, <2>5, <2>6, <2>7
  <1>5. ASSUME HandleGet(t) \/ HandleEof(t) PROVE Quiet
    BY <1>1, <1>5 DEF HandleGet, HandleEof, ThreadOK, Serving
  <1>6. ASSUME HandleQuit(t) PROVE Quiet
    <2>0. /\ pc' \in [Threads -> PCs] /\ pc'[t] \in Early
          /\ cmd' \in [Threads -> Commands] /\ at' \in [Threads -> Nat]
      <3>1. CASE Len(list) = 1 /\ Goto(t, Idle) /\ UNCHANGED <<cmd, at>>
        BY <3>1
      <3>2. CASE /\ Goto(t, Wait) /\ cmd' = [cmd EXCEPT ![t] = "quit"]
                 /\ at' = [at EXCEPT ![t] = 1]
        BY <3>2
      <3> QED  BY <1>6, <3>1, <3>2 DEF HandleQuit
    <2>1. TypeOK' /\ Session(t) /\ pc'[t] \in Early
      BY <1>6, <2>0 DEF HandleQuit
    <2>2. ThreadOK(t)'
      <3>1. pc[t] = Recv /\ list' = list /\ Len(list) \in Nat
        BY <1>6 DEF HandleQuit
      <3>2. CASE pc'[t] = Idle /\ cmd' = cmd /\ at' = at
        BY <1>1, <1>6, <3>1, <3>2 DEF HandleQuit, ThreadOK, Serving
      <3>3. CASE pc'[t] = Wait /\ cmd'[t] = "quit" /\ at'[t] = 1 /\ Len(list) > 1
        <4>1. ~fresh
          BY <3>3 DEF FirstRunStoresNothing
        <4> QED  BY <1>6, <3>1, <3>3, <4>1 DEF HandleQuit, ThreadOK, Serving
      <3> QED  BY <1>6, <3>1, <3>2, <3>3 DEF HandleQuit
    <2> QED  BY <2>1, <2>2
  <1>7. ASSUME ParseName(t) \/ ParseRange(t) PROVE Quiet
    <2>1. /\ pc[t] \in {Parse, Extent} /\ pc'[t] \in {Extent, Copy} /\ cmd' = cmd /\ cmd[t] = "put"
          /\ at' = at /\ pc' \in [Threads -> PCs] /\ saved' \in Cursor
          /\ \A u \in Threads : u # t => pc'[u] = pc[u]
      BY <1>1, <1>7 DEF ParseName, ParseRange, ThreadOK
    <2>2. PICK B \in {Blocks, {arg[t].block}} : ParseOwn(t) \/ ParseMixed(t, B)
      BY <1>7 DEF ParseName, ParseRange
    <2>3. arg[t] \in Block_File /\ B \subseteq Blocks
      BY <1>1, <2>1, <2>2 DEF ThreadOK
    <2>4. /\ arg'[t] \in Block_File /\ arg' \in [Threads -> Block_File \cup {NoArg}]
          /\ \A u \in Threads : u # t => arg'[u] = arg[u]
      <3>1. CASE arg' = arg
        BY <2>3, <3>1
      <3>2. CASE ParseMixed(t, B)
        BY <2>3, <3>2 DEF ParseMixed
      <3> QED  BY <2>2, <3>1, <3>2 DEF ParseOwn
    <2> HIDE DEF Block_File, Cursor, PCs
    <2>5. UNCHANGED <<disk, phase, scan, memory>>
      BY <1>7 DEF ParseName, ParseRange
    <2>6. TypeOK' /\ Session(t)
      BY <2>1, <2>4, <2>5
    <2>7. Serving /\ Serving'
      BY <1>7, <2>5 DEF ParseName, ParseRange, Serving
    <2>8. ThreadOK(t)'
      BY <1>1, <2>1, <2>4, <2>5, <2>7 DEF ThreadOK
    <2> QED  BY <2>1, <2>6, <2>8
  <1>8. ASSUME ParseKey(t) PROVE Quiet
    BY <1>1, <1>8 DEF ParseKey, ThreadOK, Serving
  <1>9. Quiet
    BY <1>2, <1>3, <1>4, <1>5, <1>6, <1>7, <1>8 DEF Handle
  <1>10. pc[t] \in {Idle, Recv, Parse, Extent}
    BY DEF Handle, Accept, HandlePut, HandleUpdateMap, HandleRemove, HandleGet, HandleQuit,
           HandleEof, ParseName, ParseRange, ParseKey, Begin
  <1>11. \A b \in Blocks : ~Storing(t, b)
    BY <1>10 DEF Storing
  <1> HIDE DEF Session, Alone, TypeOK, StoreInv
  <1> QED  BY <1>9, <1>10, <1>11, SessionFrame

\* The PUT's path is copied: where localpath is the directory's, the run is not the
\* first.
LEMMA CopyPathStep ==
    ASSUME StoreInv, NEW t \in Threads, CopyPath(t)
    PROVE  StoreInv'
  <1> USE DEF StoreInv, At, Goto, Session, Alone, disk, memory, TypeOK, PCs
  <1>1. ThreadOK(t) /\ pc[t] = Copy /\ Serving
    BY DEF CopyPath
  <1>2. /\ pc'[t] \in {Open, Astray} /\ (pc'[t] = Open => ~fresh) /\ pc' \in [Threads -> PCs]
        /\ UNCHANGED <<disk, phase, scan, memory, saved, cmd, arg, at>>
        /\ \A u \in Threads : u # t => pc'[u] = pc[u]
    BY DEF CopyPath, AtDirectory
  <1>3. TypeOK' /\ Session(t)
    BY <1>2
  <1>4. ThreadOK(t)'
    BY <1>1, <1>2 DEF ThreadOK, Serving
  <1>5. \A b \in Blocks : ~Storing(t, b)
    BY <1>1 DEF Storing
  <1> HIDE DEF Session, Alone, TypeOK, StoreInv
  <1> QED  BY <1>1, <1>2, <1>3, <1>4, <1>5, SessionFrame

\* recv_file returns; add_file finds the name and keeps the semaphore.
LEMMA StoreSessionStep ==
    ASSUME StoreInv, NEW t \in Threads, recv_file(t) \/ add_file_present(t)
    PROVE  StoreInv'
  <1> DEFINE Quiet == TypeOK' /\ ThreadOK(t)' /\ Session(t)
  <1> USE DEF StoreInv, At, Goto, Session, Alone, disk, memory, TypeOK, PCs
  <1>1. ThreadOK(t) /\ arg'[t] = arg[t] /\ cmd[t] = "put" /\ arg[t].block \in Blocks
    BY DEF recv_file, add_file_present, Holds, ThreadOK, Block_File
  <1>2. list' = list /\ dir' = dir /\ localpath' = localpath /\ fresh' = fresh /\ phase' = phase
        /\ PutsOwn' = PutsOwn /\ Live' = Live /\ \A i : Listed(i)' = Listed(i)
    BY DEF recv_file, add_file_present, PutsOwn, Live, Listed
  <1>3. /\ HasFile(arg[t].block) => HasFile(arg[t].block)'
        /\ Known(arg[t].block) => Known(arg[t].block)'
        /\ PathNames' = PathNames
    BY <1>1, <1>2 DEF HasFile, Known, PathNames
  <1>4. ASSUME recv_file(t) PROVE Quiet /\ pc[t] = Receive /\ pc'[t] = Extend
    BY <1>1, <1>2, <1>3, <1>4 DEF recv_file, ThreadOK, Serving
  <1>5. ASSUME add_file_present(t) PROVE Quiet /\ pc[t] = Hold /\ pc'[t] = Stuck
    <2>1. pc[t] = Hold /\ pc'[t] = Stuck /\ Session(t) /\ TypeOK'
      BY <1>5 DEF add_file_present, Holds
    <2>2. NameOf[arg[t].block] \in PathNames
      BY <1>1, <2>1 DEF ThreadOK
    <2>3. Known(arg[t].block)
      <3>1. PICK i \in 1..Len(list) : list[i].name = Local \/ localpath = <<list[i].name>>
        BY <1>5 DEF add_file_present, Present
      <3>2. CASE list[i].name = Local
        BY <3>2 DEF Known, PutsOwn
      <3>3. CASE localpath = <<list[i].name>>
        BY <3>3, <2>2 DEF Known, PathNames
      <3> QED  BY <3>1, <3>2, <3>3
    <2>4. Serving /\ ~fresh /\ cmd' = cmd /\ at' = at
      BY <1>1, <1>5, <2>1 DEF add_file_present, Holds, ThreadOK
    <2>5. ThreadOK(t)'
      BY <1>1, <1>2, <1>3, <2>1, <2>2, <2>3, <2>4 DEF ThreadOK, Serving
    <2> QED  BY <2>1, <2>5
  <1>6. \A b \in Blocks : Storing(t, b) => Storing(t, b)'
    <2>1. cmd'[t] = "put"
      BY <1>1 DEF recv_file, add_file_present
    <2> QED  BY <1>1, <1>4, <1>5, <2>1 DEF Storing
  <1> HIDE DEF Session, Alone, TypeOK, StoreInv
  <1> QED  BY <1>4, <1>5, <1>6, SessionFrame

-------------------------------------------------------------------------------
\* What a step of t may do to the permit.
LEMMA PermitTaken ==
    ASSUME Permit, NEW t \in Threads, pc \in [Threads -> PCs], Goto(t, Hold),
           sem > 0, sem' = sem - 1
    PROVE  Permit'
  BY DEF Permit, Goto

LEMMA PermitGiven ==
    ASSUME Permit, NEW t \in Threads, pc \in [Threads -> PCs], pc[t] = Hold,
           NEW l \in {Idle, Recv, Wait, Log}, Goto(t, l), sem' = sem + 1
    PROVE  Permit'
  BY DEF Permit, Goto

LEMMA PermitKept ==
    ASSUME Permit, NEW t \in Threads, pc \in [Threads -> PCs], pc[t] \notin {Hold, Stuck},
           NEW l \in PCs \ {Hold, Stuck}, Goto(t, l), sem' = sem
    PROVE  Permit'
  BY DEF Permit, Goto

\* The list with a record more, with a block more, and with a record's blocks freed.
LEMMA RecordAppended ==
    ASSUME list \in Seq(Grid_File), NEW n \in Names \cup {Local}, NEW block \in Block_File,
           list' = Append(list, new_file(n, block))
    PROVE  /\ list' \in Seq(Grid_File)
           /\ Len(list) \in Nat /\ Len(list') = Len(list) + 1
           /\ \A i \in 1..Len(list) : list'[i] = list[i] /\ Listed(i)' = Listed(i)
           /\ list'[Len(list')] = [name |-> n, blocks |-> <<block>>, freed |-> FALSE]
           /\ \A i : i = Len(list) + 1 => Listed(i)' = {block.block}
           /\ (1..Len(list)) \ Live \subseteq (1..Len(list')) \ Live'
           /\ Live' = Live \cup {Len(list')}
           /\ PutsOwn' = IF n = Local THEN PutsOwn \cup {Len(list')} ELSE PutsOwn
  <1>1. new_file(n, block) = [name |-> n, blocks |-> <<block>>, freed |-> FALSE]
        /\ new_file(n, block) \in Grid_File
    BY DEF new_file, Grid_File
  <1>2. list' \in Seq(Grid_File) /\ Len(list) \in Nat /\ Len(list') = Len(list) + 1
        /\ (\A i \in 1..Len(list) : list'[i] = list[i]) /\ list'[Len(list')] = new_file(n, block)
    BY <1>1
  <1>3. 1..Len(list') = (1..Len(list)) \cup {Len(list')} /\ Len(list') \notin 1..Len(list)
    BY <1>2
  <1>4. \A i \in 1..Len(list) : Listed(i)' = Listed(i)
    BY <1>2 DEF Listed
  <1>5. ASSUME NEW i, i = Len(list) + 1 PROVE Listed(i)' = {block.block}
    <2>1. list'[i].blocks = <<block>>
      BY <1>1, <1>2, <1>5
    <2> QED  BY <2>1 DEF Listed
  <1>6. Live' = Live \cup {Len(list')}
    BY <1>1, <1>2, <1>3 DEF Live
  <1>7. PutsOwn' = IF n = Local THEN PutsOwn \cup {Len(list')} ELSE PutsOwn
    BY <1>1, <1>2, <1>3 DEF PutsOwn
  <1>8. (1..Len(list)) \ Live \subseteq (1..Len(list')) \ Live'
    BY <1>3, <1>6
  <1> QED  BY <1>1, <1>2, <1>4, <1>5, <1>6, <1>7, <1>8

LEMMA RecordReplaced ==
    ASSUME NEW S, NEW s \in Seq(S), NEW i \in 1..Len(s), NEW x \in S
    PROVE  LET z == [s EXCEPT ![i] = x]
           IN  /\ z \in Seq(S) /\ Len(s) \in Nat /\ Len(z) = Len(s) /\ z[i] = x
               /\ \A j \in 1..Len(s) : j # i => z[j] = s[j]
  OBVIOUS

LEMMA BlockAppended ==
    ASSUME list \in Seq(Grid_File), NEW i \in 1..Len(list), NEW block \in Block_File,
           list' = append_block(i, block)
    PROVE  /\ list' \in Seq(Grid_File) /\ Len(list) \in Nat /\ Len(list') = Len(list)
           /\ \A j \in 1..Len(list) : j # i => list'[j] = list[j]
           /\ list'[i].blocks = Append(list[i].blocks, block)
           /\ list[i].blocks \in Seq(Block_File)
           /\ \A j \in 1..Len(list) : list'[j].name = list[j].name
           /\ \A j \in 1..Len(list) : Listed(j) \subseteq Listed(j)'
           /\ \A j \in 1..Len(list) : j # i => Listed(j)' = Listed(j)
           /\ Listed(i)' = Listed(i) \cup {block.block}
           /\ Live' = Live /\ PutsOwn' = PutsOwn
  <1>0. list[i] \in Grid_File
    OBVIOUS
  <1>1. list[i].blocks \in Seq(Block_File)
    BY <1>0 DEF Grid_File
  <1>2. list' = [list EXCEPT ![i] = [list[i] EXCEPT !.blocks = Append(list[i].blocks, block)]]
    BY DEF append_block
  <1>3. [list[i] EXCEPT !.blocks = Append(list[i].blocks, block)] \in Grid_File
    <2>1. Append(list[i].blocks, block) \in Seq(Block_File)
      BY <1>1
    <2> QED  BY <1>0, <2>1 DEF Grid_File
  <1>4. list' \in Seq(Grid_File) /\ Len(list) \in Nat /\ Len(list') = Len(list)
        /\ (\A j \in 1..Len(list) : j # i => list'[j] = list[j])
        /\ list'[i] = [list[i] EXCEPT !.blocks = Append(list[i].blocks, block)]
    BY <1>2, <1>3
  <1>5. list'[i].blocks = Append(list[i].blocks, block)
        /\ list'[i].name = list[i].name /\ list'[i].freed = list[i].freed
    BY <1>0, <1>4 DEF Grid_File
  <1>6. \A j \in 1..Len(list) : list'[j].name = list[j].name /\ list'[j].freed = list[j].freed
    BY <1>4, <1>5
  <1>7. \A j \in 1..Len(list) : j # i => Listed(j)' = Listed(j)
    BY <1>4 DEF Listed
  <1>8. Listed(i)' = Listed(i) \cup {block.block}
    <2> DEFINE s == list[i].blocks
    <2>1. Listed(i)' = {Append(s, block)[k].block : k \in 1..Len(Append(s, block))}
      BY <1>5 DEF Listed
    <2>2. Listed(i) = {s[k].block : k \in 1..Len(s)}
      BY DEF Listed
    <2>3. s \in Seq(Block_File)
      BY <1>1
    <2> HIDE DEF s
    <2>4. Len(Append(s, block)) = Len(s) + 1 /\ Len(s) \in Nat
          /\ Append(s, block)[Len(s) + 1] = block
          /\ \A k \in 1..Len(s) : Append(s, block)[k] = s[k]
      BY <2>3
    <2> QED  BY <2>1, <2>2, <2>4
  <1>9. Live' = Live /\ PutsOwn' = PutsOwn
    BY <1>4, <1>6 DEF Live, PutsOwn
  <1> QED  BY <1>1, <1>4, <1>5, <1>6, <1>7, <1>8, <1>9

LEMMA BlocksFreed ==
    ASSUME list \in Seq(Grid_File), NEW i \in 1..Len(list),
           list' = [list EXCEPT ![i].freed = TRUE]
    PROVE  /\ list' \in Seq(Grid_File) /\ Len(list) \in Nat /\ Len(list') = Len(list)
           /\ \A j \in 1..Len(list) : list'[j].name = list[j].name
           /\ \A j \in 1..Len(list) : list'[j].blocks = list[j].blocks
           /\ \A j \in 1..Len(list) : Listed(j)' = Listed(j)
           /\ Live' = Live \ {i} /\ PutsOwn' = PutsOwn
  <1> DEFINE r == [list[i] EXCEPT !.freed = TRUE]
  <1>1. list[i] \in Grid_File
    OBVIOUS
  <1>2. list' = [list EXCEPT ![i] = r]
    OBVIOUS
  <1>3. r \in Grid_File /\ r.blocks = list[i].blocks /\ r.name = list[i].name /\ r.freed
    BY <1>1 DEF Grid_File
  <1> HIDE DEF r
  <1>4. list' \in Seq(Grid_File) /\ Len(list) \in Nat /\ Len(list') = Len(list)
        /\ (\A j \in 1..Len(list) : j # i => list'[j] = list[j])
        /\ list'[i] = r
    <2>1. LET z == [list EXCEPT ![i] = r]
          IN  /\ z \in Seq(Grid_File) /\ Len(list) \in Nat /\ Len(z) = Len(list) /\ z[i] = r
              /\ \A j \in 1..Len(list) : j # i => z[j] = list[j]
      BY <1>3, RecordReplaced
    <2> QED  BY <1>2, <2>1, Zenon
  <1>5. list'[i].blocks = list[i].blocks /\ list'[i].name = list[i].name /\ list'[i].freed
    BY <1>3, <1>4
  <1>6. \A j \in 1..Len(list) : list'[j].name = list[j].name /\ list'[j].blocks = list[j].blocks
    BY <1>4, <1>5
  <1>7. \A j \in 1..Len(list) : Listed(j)' = Listed(j)
    BY <1>6 DEF Listed
  <1>8. Live' = Live \ {i}
    BY <1>4, <1>5 DEF Live
  <1>9. PutsOwn' = PutsOwn
    BY <1>4, <1>6 DEF PutsOwn
  <1> QED  BY <1>4, <1>6, <1>7, <1>8, <1>9

-------------------------------------------------------------------------------
\* A step of t on disk and memory has only to say what it changes.
LEMMA MemoryFrame ==
    ASSUME StoreInv, NEW t \in Threads, Serving, Alone(t), UNCHANGED <<made, phase, scan, fresh>>,
           TypeOK', ThreadOK(t)', Permit', OwnOK', RangeOK', HiddenIsOwn',
           FirstRunStoresNothing', ListedHasFile',
           PutsOwn # {} => PutsOwn' # {},
           Len(list) <= Len(list'),
           PathNames \subseteq PathNames',
           \A i \in 1..Len(list) : list'[i].name = list[i].name /\ Listed(i) \subseteq Listed(i)',
           \A b \in Blocks : HasFile(b) => HasFile(b)',
           \A b \in dir' : b \in dir \/ Storing(t, b)',
           \A b \in Blocks : Storing(t, b) =>
              Storing(t, b)' \/ \E i \in 1..Len(list') : b \in Listed(i)'
    PROVE  StoreInv'
  <1> USE DEF StoreInv
  <1>1. Len(list) \in Nat /\ Len(list') \in Nat /\ dir \subseteq Blocks
    BY DEF TypeOK
  <1>2. \A b \in Blocks : Known(b) => Known(b)'
    BY <1>1 DEF Known
  <1>3. \A u \in Threads : ThreadOK(u)'
    <2> SUFFICES ASSUME NEW u \in Threads, u # t PROVE ThreadOK(u)'
      OBVIOUS
    <2> QED  BY <1>1, <1>2, ThreadFrame DEF Alone
  <1>4. RunOK' /\ ScanOK'
    BY DEF RunOK, ScanOK, Serving
  <1>5. Covered'
    <2> SUFFICES ASSUME NEW b \in dir' \ ignored', ~Storing(t, b)',
                        \A i \in 1..Len(list') : b \notin Listed(i)'
                 PROVE  \E u \in Threads : Storing(u, b)'
      BY DEF Covered
    <2>1. b \in dir \ ignored /\ b \in Blocks
      BY <1>1
    <2>2. \A i \in 1..Len(list) : b \notin Listed(i)
      BY <1>1
    <2>3. PICK u \in Threads : Storing(u, b)
      BY <2>1, <2>2 DEF Covered
    <2>4. u # t
      BY <2>1, <2>3
    <2> QED  BY <2>3, <2>4 DEF Alone, Storing
  <1> QED  BY <1>3, <1>4, <1>5

\* Where the list stays, so does all that is said of it alone.
LEMMA ListStays ==
    ASSUME list' = list, Len(list) \in Nat
    PROVE  /\ PutsOwn' = PutsOwn /\ Live' = Live /\ \A i : Listed(i)' = Listed(i)
           /\ (RangeOK => RangeOK') /\ (HiddenIsOwn => HiddenIsOwn')
           /\ dir \subseteq dir' =>
                 /\ \A b : HasFile(b) => HasFile(b)'
                 /\ ListedHasFile => ListedHasFile'
  <1>1. PutsOwn' = PutsOwn /\ Live' = Live /\ \A i : Listed(i)' = Listed(i)
    BY DEF PutsOwn, Live, Listed
  <1>2. (RangeOK => RangeOK') /\ (HiddenIsOwn => HiddenIsOwn')
    BY <1>1 DEF RangeOK, HiddenIsOwn
  <1>3. ASSUME dir \subseteq dir' PROVE \A b : HasFile(b) => HasFile(b)'
    BY <1>1, <1>3 DEF HasFile
  <1>4. ASSUME dir \subseteq dir' PROVE ListedHasFile => ListedHasFile'
    BY <1>1, <1>4 DEF ListedHasFile
  <1> QED  BY <1>1, <1>2, <1>3, <1>4

LEMMA OpenBlockStep ==
    ASSUME StoreInv, NEW t \in Threads, OpenBlock(t)
    PROVE  StoreInv'
  <1> USE DEF StoreInv
  <1>1. /\ Serving /\ pc[t] = Open /\ cmd[t] = "put" /\ arg[t] \in Block_File /\ arg[t].block \in Blocks
        /\ ~fresh /\ Len(list) \in Nat
    BY DEF OpenBlock, At, ThreadOK, Block_File, TypeOK
  <1>2. /\ list' = list /\ localpath' = localpath /\ fresh' = fresh /\ sem' = sem /\ cmd' = cmd
        /\ arg' = arg /\ at' = at /\ Goto(t, Receive) /\ dir' = dir \cup {arg[t].block}
        /\ UNCHANGED <<made, phase, scan>>
    BY DEF OpenBlock, memory
  <1>3. pc' = [pc EXCEPT ![t] = Receive] /\ pc'[t] = Receive /\ Alone(t)
    BY <1>2 DEF Goto, Alone, TypeOK
  <1>4. TypeOK'
    BY <1>1, <1>2, <1>3 DEF TypeOK, PCs, OpenBlock, memory
  <1>5. ThreadOK(t)'
    BY <1>1, <1>2, <1>3 DEF ThreadOK, HasFile, Serving
  <1>6. Permit'
    BY <1>1, <1>2, PermitKept DEF TypeOK, PCs
  <1>7. OwnOK'
    BY <1>1, <1>2, <1>3, ListStays DEF OwnOK, Alone
  <1>8. FirstRunStoresNothing'
    BY <1>1, <1>2 DEF FirstRunStoresNothing
  <1>9. PathNames' = PathNames
    BY <1>2 DEF PathNames
  <1>10. \A b \in dir' : b \in dir \/ Storing(t, b)'
    BY <1>1, <1>2, <1>3 DEF Storing
  <1>11. \A b \in Blocks : ~Storing(t, b)
    BY <1>1 DEF Storing
  <1> QED  BY <1>1, <1>2, <1>3, <1>4, <1>5, <1>6, <1>7, <1>8, <1>9, <1>10, <1>11,
              ListStays, MemoryFrame

LEMMA NameBlockStep ==
    ASSUME StoreInv, NEW t \in Threads, NameBlock(t)
    PROVE  StoreInv'
  <1> USE DEF StoreInv
  <1>1. /\ Serving /\ pc[t] = Extend /\ cmd[t] = "put" /\ arg[t] \in Block_File /\ arg[t].block \in Blocks
        /\ ~fresh /\ Len(list) \in Nat /\ HasFile(arg[t].block)
    BY DEF NameBlock, At, ThreadOK, Block_File, TypeOK
  <1>2. /\ list' = list /\ fresh' = fresh /\ sem' = sem /\ cmd' = cmd
        /\ arg' = arg /\ at' = at /\ Goto(t, Wait) /\ dir' = dir
        /\ localpath' = Append(localpath, NameOf[arg[t].block])
        /\ UNCHANGED <<made, phase, scan>>
    BY DEF NameBlock, disk
  <1>3. pc' = [pc EXCEPT ![t] = Wait] /\ pc'[t] = Wait /\ Alone(t)
    BY <1>2 DEF Goto, Alone, TypeOK
  <1>4. localpath \in Seq(Names) /\ NameOf[arg[t].block] \in Names
    BY <1>1, RepositoryAssumption DEF TypeOK
  <1>5. localpath' # << >> /\ PathNames \subseteq PathNames' /\ NameOf[arg[t].block] \in PathNames'
    <2>1. /\ Len(localpath) \in Nat /\ Len(localpath') = Len(localpath) + 1
          /\ localpath'[Len(localpath')] = NameOf[arg[t].block]
          /\ \A k \in 1..Len(localpath) : localpath'[k] = localpath[k]
      BY <1>2, <1>4
    <2>2. localpath' # << >>
      BY <1>2, <1>4
    <2> QED  BY <2>1, <2>2 DEF PathNames
  <1>6. TypeOK'
    BY <1>1, <1>2, <1>3, <1>4 DEF TypeOK, PCs, NameBlock, disk, Cursor
  <1>7. HasFile(arg[t].block)'
    BY <1>1, <1>2, ListStays DEF HasFile
  <1>8. ThreadOK(t)'
    BY <1>1, <1>2, <1>3, <1>5, <1>7 DEF ThreadOK, Serving
  <1>9. Permit'
    BY <1>1, <1>2, PermitKept DEF TypeOK, PCs
  <1>10. OwnOK'
    BY <1>1, <1>2, <1>3, <1>5, ListStays DEF OwnOK, Alone
  <1>11. FirstRunStoresNothing'
    BY <1>1, <1>2 DEF FirstRunStoresNothing
  <1>12. \A b \in Blocks : Storing(t, b) => Storing(t, b)'
    BY <1>1, <1>2, <1>3 DEF Storing
  <1> QED  BY <1>1, <1>2, <1>3, <1>5, <1>6, <1>8, <1>9, <1>10, <1>11, <1>12,
              ListStays, MemoryFrame

LEMMA SemWaitStep ==
    ASSUME StoreInv, NEW t \in Threads, sem_wait(t)
    PROVE  StoreInv'
  <1> USE DEF StoreInv
  <1>1. Serving /\ pc[t] = Wait /\ ThreadOK(t) /\ sem > 0 /\ Len(list) \in Nat
    BY DEF sem_wait, At, TypeOK
  <1>2. /\ list' = list /\ localpath' = localpath /\ fresh' = fresh /\ cmd' = cmd
        /\ arg' = arg /\ at' = at /\ Goto(t, Hold) /\ dir' = dir /\ lines' = lines
        /\ sem' = sem - 1 /\ UNCHANGED <<made, phase, scan>>
    BY DEF sem_wait, disk
  <1>3. pc' = [pc EXCEPT ![t] = Hold] /\ pc'[t] = Hold /\ Alone(t)
    BY <1>2 DEF Goto, Alone, TypeOK
  <1>4. TypeOK'
    BY <1>1, <1>2, <1>3 DEF TypeOK, PCs, sem_wait, disk
  <1>5. PathNames' = PathNames
    BY <1>2 DEF PathNames
  <1>6. ThreadOK(t)'
    <2>1. HasFile(arg[t].block) => HasFile(arg[t].block)'
      BY <1>1, <1>2, ListStays DEF HasFile
    <2> QED  BY <1>1, <1>2, <1>3, <1>5, <2>1 DEF ThreadOK, Serving
  <1>7. Permit'
    BY <1>1, <1>2, PermitTaken DEF TypeOK
  <1>8. OwnOK'
    BY <1>1, <1>2, <1>3, ListStays DEF OwnOK, Alone
  <1>9. FirstRunStoresNothing'
    BY <1>1, <1>2 DEF FirstRunStoresNothing
  <1>10. \A b \in Blocks : Storing(t, b) => Storing(t, b)'
    BY <1>1, <1>2, <1>3 DEF Storing
  <1> QED  BY <1>1, <1>2, <1>3, <1>4, <1>5, <1>6, <1>7, <1>8, <1>9, <1>10,
              ListStays, MemoryFrame

LEMMA AddFileStep ==
    ASSUME StoreInv, NEW t \in Threads, add_file(t)
    PROVE  StoreInv'
  <1> USE DEF StoreInv
  <1> DEFINE b == arg[t].block
  <1>1. /\ Serving /\ pc[t] = Hold /\ cmd[t] = "put" /\ arg[t] \in Block_File /\ b \in Blocks
        /\ ~fresh /\ Len(list) \in Nat /\ list \in Seq(Grid_File)
        /\ HasFile(b) /\ NameOf[b] \in PathNames
    <2>1. Serving /\ pc[t] = Hold /\ cmd[t] = "put" /\ ThreadOK(t)
      BY DEF add_file, Holds, At
    <2>2. arg[t] \in Block_File /\ ~fresh /\ HasFile(b) /\ NameOf[b] \in PathNames
      BY <2>1 DEF ThreadOK
    <2>3. Len(list) \in Nat /\ list \in Seq(Grid_File)
      BY DEF TypeOK
    <2> QED  BY <2>1, <2>2, <2>3 DEF Block_File
  <1>2. /\ fresh' = fresh /\ cmd' = cmd /\ arg' = arg /\ at' = at /\ localpath' = localpath
        /\ Goto(t, Log) /\ dir' = dir /\ lines' = lines /\ sem' = sem + 1
        /\ list' = Append(list, new_file(Local, arg[t]))
        /\ UNCHANGED <<made, phase, scan>>
    BY DEF add_file, Release
  <1>3. pc' = [pc EXCEPT ![t] = Log] /\ pc'[t] = Log /\ Alone(t)
    BY <1>2 DEF Goto, Alone, TypeOK
  <1>4. PutsOwn = {}
    BY DEF add_file, Present, PutsOwn
  <1>5. /\ list' \in Seq(Grid_File) /\ Len(list') = Len(list) + 1
        /\ \A i \in 1..Len(list) : list'[i] = list[i] /\ Listed(i)' = Listed(i)
        /\ list'[Len(list')] = [name |-> Local, blocks |-> <<arg[t]>>, freed |-> FALSE]
        /\ \A i : i = Len(list) + 1 => Listed(i)' = {b}
        /\ (1..Len(list)) \ Live \subseteq (1..Len(list')) \ Live'
        /\ Live' = Live \cup {Len(list')}
        /\ PutsOwn' = {Len(list')}
    BY <1>1, <1>2, <1>4, RecordAppended
  <1>6. TypeOK'
    BY <1>1, <1>2, <1>3, <1>5 DEF TypeOK, PCs, add_file, Release
  <1>7. PathNames' = PathNames /\ localpath # << >>
    BY <1>1, <1>2 DEF PathNames, TypeOK
  <1>8. \A c \in Blocks : HasFile(c) => HasFile(c)'
    BY <1>1, <1>2, <1>5 DEF HasFile
  <1>9. ThreadOK(t)'
    BY <1>1, <1>2, <1>3, <1>5, <1>7 DEF ThreadOK, Serving
  <1>10. Permit'
    BY <1>1, <1>2, PermitGiven DEF TypeOK
  <1>11. OwnOK'
    <2>1. \A u \in Threads : pc[u] # Log
      BY <1>4 DEF ThreadOK
    <2> QED  BY <1>2, <1>3, <1>5, <1>7, <2>1 DEF OwnOK, Alone
  <1>12. RangeOK'
    <2> SUFFICES ASSUME NEW i \in 1..Len(list'), NEW k \in 1..Len(list'[i].blocks),
                        list'[i].blocks[k].told
                 PROVE  list'[i].name = Local /\ k = 1
      BY DEF RangeOK
    <2>1. CASE i \in 1..Len(list)
      BY <2>1, <1>5 DEF RangeOK
    <2>2. CASE i = Len(list')
      <3>1. list'[i].name = Local /\ list'[i].blocks = <<arg[t]>>
        BY <2>2, <1>5
      <3> QED  BY <3>1
    <2> QED  BY <1>1, <1>5, <2>1, <2>2
  <1>12a. HiddenIsOwn'
    BY <1>1, <1>4, <1>5 DEF HiddenIsOwn
  <1>13. FirstRunStoresNothing'
    BY <1>1, <1>2 DEF FirstRunStoresNothing
  <1>14. ListedHasFile'
    <2> SUFFICES ASSUME NEW i \in Live', NEW c \in Listed(i)', c \notin dir'
                 PROVE  \E j \in (1..Len(list')) \ Live' : c \in Listed(j)'
      BY DEF ListedHasFile
    <2>1. \E j \in (1..Len(list)) \ Live : c \in Listed(j)
      <3>1. CASE i = Len(list')
        <4>1. c = b
          BY <3>1, <1>5
        <4> QED  BY <4>1, <1>1, <1>2 DEF HasFile
      <3>2. CASE i \in Live
        <4>1. c \in Listed(i)
          BY <3>2, <1>5 DEF Live
        <4> QED  BY <4>1, <3>2, <1>2 DEF ListedHasFile
      <3> QED  BY <1>5, <3>1, <3>2
    <2> QED  BY <2>1, <1>5
  <1>15. \A c \in Blocks : Storing(t, c) => \E i \in 1..Len(list') : c \in Listed(i)'
    <2> SUFFICES ASSUME NEW c \in Blocks, Storing(t, c)
                 PROVE  \E i \in 1..Len(list') : c \in Listed(i)'
      OBVIOUS
    <2>1. c = b
      BY DEF Storing
    <2>2. Len(list) + 1 \in 1..Len(list') /\ \A i : i = Len(list) + 1 => c \in Listed(i)'
      BY <1>1, <1>5, <2>1
    <2> QED  BY <2>2
  <1> QED  BY <1>1, <1>2, <1>3, <1>4, <1>5, <1>6, <1>7, <1>8, <1>9, <1>10, <1>11, <1>12, <1>12a, <1>13,
              <1>14, <1>15, MemoryFrame

LEMMA AppendLineStep ==
    ASSUME StoreInv, NEW t \in Threads, append_block_to_filedb(t)
    PROVE  StoreInv'
  <1> USE DEF StoreInv
  <1>1. /\ Serving /\ pc[t] = Log /\ cmd[t] = "put" /\ arg[t].block \in Blocks
        /\ ~fresh /\ Len(list) \in Nat
    BY DEF append_block_to_filedb, At, ThreadOK, Block_File, TypeOK
  <1>2. /\ list' = list /\ localpath' = localpath /\ fresh' = fresh /\ sem' = sem
        /\ Leave(t, Idle) /\ dir' = dir /\ lines' = lines \cup {arg[t].block}
        /\ UNCHANGED <<made, phase, scan>>
    BY DEF append_block_to_filedb, memory
  <1>3. /\ Goto(t, Idle) /\ pc' = [pc EXCEPT ![t] = Idle] /\ pc'[t] = Idle
        /\ cmd'[t] = "none" /\ Alone(t)
    BY <1>2 DEF Leave, Goto, Alone, TypeOK
  <1>4. TypeOK'
    BY <1>1, <1>2, <1>3 DEF TypeOK, PCs, Leave, Commands, append_block_to_filedb, memory
  <1>5. PathNames' = PathNames
    BY <1>2 DEF PathNames
  <1>6. ThreadOK(t)'
    BY <1>1, <1>2, <1>3 DEF ThreadOK
  <1>7. Permit'
    BY <1>1, <1>2, <1>3, PermitKept DEF TypeOK, PCs
  <1>8. OwnOK'
    BY <1>1, <1>2, <1>3, ListStays DEF OwnOK, Alone
  <1>9. FirstRunStoresNothing'
    BY <1>1, <1>2 DEF FirstRunStoresNothing
  <1>10. \A b \in Blocks : ~Storing(t, b)
    BY <1>1 DEF Storing
  <1> QED  BY <1>1, <1>2, <1>3, <1>4, <1>5, <1>6, <1>7, <1>8, <1>9, <1>10,
              ListStays, MemoryFrame

\* update_map's answer and the REMOVE that finds nothing give the permit back.
LEMMA AnswerStep ==
    ASSUME StoreInv, NEW t \in Threads, file_db_to_string(t) \/ remove_file(t)
    PROVE  StoreInv'
  <1> USE DEF StoreInv
  <1>1. /\ Serving /\ pc[t] = Hold /\ cmd[t] # "put" /\ Len(list) \in Nat
    BY DEF file_db_to_string, remove_file, Holds, At, TypeOK
  <1>2. PICK l \in {Idle, Recv} : Leave(t, l)
    BY DEF file_db_to_string, remove_file
  <1>3. /\ list' = list /\ localpath' = localpath /\ fresh' = fresh /\ sem' = sem + 1
        /\ dir' = dir /\ lines' = lines /\ saved' = saved /\ UNCHANGED <<made, phase, scan>>
    BY DEF file_db_to_string, remove_file, Release
  <1>4. /\ Goto(t, l) /\ pc' = [pc EXCEPT ![t] = l] /\ pc'[t] = l
        /\ cmd'[t] = "none" /\ Alone(t)
    BY <1>2 DEF Leave, Goto, Alone, TypeOK
  <1>5. TypeOK'
    BY <1>1, <1>2, <1>3, <1>4 DEF TypeOK, PCs, Leave, Commands
  <1>6. PathNames' = PathNames
    BY <1>3 DEF PathNames
  <1>7. ThreadOK(t)'
    BY <1>1, <1>3, <1>4 DEF ThreadOK, Serving
  <1>8. Permit'
    BY <1>1, <1>3, <1>4, PermitGiven DEF TypeOK
  <1>9. OwnOK'
    BY <1>1, <1>3, <1>4, ListStays DEF OwnOK, Alone
  <1>10. FirstRunStoresNothing'
    <2>1. lines' = lines
      BY <1>3
    <2> QED  BY <1>3, <2>1 DEF FirstRunStoresNothing
  <1>11. \A b \in Blocks : ~Storing(t, b)
    BY <1>1 DEF Storing
  <1> QED  BY <1>1, <1>3, <1>4, <1>5, <1>6, <1>7, <1>8, <1>9, <1>10, <1>11,
              ListStays, MemoryFrame

LEMMA DestroyStep ==
    ASSUME StoreInv, NEW t \in Threads, db_destroyer(t)
    PROVE  StoreInv'
  <1> USE DEF StoreInv
  <1> DEFINE i == at[t]
  <1>1. /\ Serving /\ pc[t] = Hold /\ cmd[t] = "quit" /\ i \in 1..Len(list)
        /\ Len(list) \in Nat /\ list \in Seq(Grid_File)
    BY DEF db_destroyer, Holds, At, ThreadOK, TypeOK
  <1>2. /\ list' = [list EXCEPT ![i].freed = TRUE] /\ dir' = dir \ Purged(i)
        /\ lines' = lines /\ localpath' = localpath /\ fresh' = fresh /\ saved' = saved
        /\ sem' = sem + 1 /\ UNCHANGED <<made, phase, scan>>
    BY DEF db_destroyer, Release
  <1>3. /\ list' \in Seq(Grid_File) /\ Len(list') = Len(list)
        /\ \A j \in 1..Len(list) : list'[j].name = list[j].name
        /\ \A j \in 1..Len(list) : list'[j].blocks = list[j].blocks
        /\ \A j \in 1..Len(list) : Listed(j)' = Listed(j)
        /\ Live' = Live \ {i} /\ PutsOwn' = PutsOwn
    BY <1>1, <1>2, BlocksFreed
  <1>4. \/ /\ i + 1 < Len(list) /\ Goto(t, Wait) /\ UNCHANGED <<cmd, arg>>
           /\ at' = [at EXCEPT ![t] = i + 1]
        \/ Leave(t, Idle)
    BY DEF db_destroyer
  <1>5. PICK l \in {Wait, Idle} : Goto(t, l) /\ pc' = [pc EXCEPT ![t] = l] /\ pc'[t] = l
    BY <1>4 DEF Leave, Goto, TypeOK
  <1>6. Alone(t)
    BY <1>4, <1>5 DEF Leave, Alone, TypeOK
  <1>7. /\ cmd' \in [Threads -> Commands] /\ arg' \in [Threads -> Block_File \cup {NoArg}]
        /\ at' \in [Threads -> Nat]
    <2>1. CASE UNCHANGED <<cmd, arg>> /\ at' = [at EXCEPT ![t] = i + 1]
      BY <1>1, <2>1 DEF TypeOK
    <2>2. CASE Leave(t, Idle)
      BY <2>2 DEF TypeOK, Leave, Commands
    <2> QED  BY <1>4, <2>1, <2>2
  <1>8. TypeOK'
    <2>1. /\ made' \in BOOLEAN /\ fresh' \in BOOLEAN /\ dir' \in SUBSET Blocks
          /\ lines' \in SUBSET Blocks /\ phase' \in {"down", "scan", "serve"}
      BY <1>2 DEF TypeOK
    <2>2. /\ todo' \in SUBSET Blocks /\ ignored' \in SUBSET Blocks /\ localpath' \in Seq(Names) /\ sem' \in Nat
          /\ saved' \in Cursor
      BY <1>2 DEF TypeOK
    <2>3. pc' \in [Threads -> PCs]
      BY <1>5 DEF TypeOK, PCs
    <2> QED  BY <1>3, <1>7, <2>1, <2>2, <2>3 DEF TypeOK
  <1>9. ~fresh
    BY <1>1 DEF FirstRunStoresNothing
  <1>10. ThreadOK(t)'
    <2>1. CASE /\ i + 1 < Len(list) /\ Goto(t, Wait) /\ UNCHANGED <<cmd, arg>>
               /\ at' = [at EXCEPT ![t] = i + 1]
      <3>1. pc'[t] = Wait /\ cmd'[t] = "quit" /\ at'[t] = i + 1
        BY <1>1, <2>1 DEF Goto, TypeOK
      <3>2. at'[t] \in 1..Len(list')
        BY <1>1, <1>3, <2>1, <3>1
      <3> QED  BY <1>1, <1>2, <1>9, <3>1, <3>2 DEF ThreadOK, Serving
    <2>2. CASE Leave(t, Idle)
      <3>1. pc'[t] = Idle /\ cmd'[t] = "none"
        BY <2>2 DEF Leave, Goto, TypeOK
      <3> QED  BY <3>1 DEF ThreadOK
    <2> QED  BY <1>4, <2>1, <2>2
  <1>11. Permit'
    BY <1>1, <1>2, <1>5, PermitGiven DEF TypeOK
  <1>12. OwnOK'
    BY <1>2, <1>3, <1>5, <1>6 DEF OwnOK, Alone
  <1>13. RangeOK' /\ HiddenIsOwn'
    BY <1>3 DEF RangeOK, HiddenIsOwn
  <1>14. FirstRunStoresNothing'
    BY <1>2, <1>9 DEF FirstRunStoresNothing
  <1>15. i \in (1..Len(list')) \ Live' /\ Purged(i) \subseteq Listed(i)
    BY <1>1, <1>3 DEF Purged, Listed
  <1>16. \A b \in Purged(i) : \E j \in (1..Len(list')) \ Live' : b \in Listed(j)'
    BY <1>1, <1>3, <1>15
  <1>17. ListedHasFile'
    <2> SUFFICES ASSUME NEW j \in Live', NEW b \in Listed(j)', b \notin dir'
                 PROVE  \E k \in (1..Len(list')) \ Live' : b \in Listed(k)'
      BY DEF ListedHasFile
    <2>1. CASE b \in Purged(i)
      BY <1>16, <2>1
    <2>2. CASE b \notin dir
      <3>1. j \in Live /\ b \in Listed(j)
        BY <1>3 DEF Live
      <3>2. PICK k \in (1..Len(list)) \ Live : b \in Listed(k)
        BY <2>2, <3>1 DEF ListedHasFile
      <3> QED  BY <1>3, <3>2
    <2> QED  BY <1>2, <2>1, <2>2
  <1>18. \A b \in Blocks : HasFile(b) => HasFile(b)'
    <2> SUFFICES ASSUME NEW b \in Blocks, HasFile(b), b \notin dir'
                 PROVE  \E k \in (1..Len(list')) \ Live' : b \in Listed(k)'
      BY DEF HasFile
    <2>1. CASE b \in Purged(i)
      BY <1>16, <2>1
    <2>2. CASE b \notin dir
      <3>1. PICK k \in (1..Len(list)) \ Live : b \in Listed(k)
        BY <2>2 DEF HasFile
      <3> QED  BY <1>3, <3>1
    <2> QED  BY <1>2, <2>1, <2>2
  <1>19. PathNames' = PathNames
    BY <1>2 DEF PathNames
  <1>20. \A b \in Blocks : ~Storing(t, b)
    BY <1>1 DEF Storing
  <1> HIDE DEF i
  <1> QED  BY <1>1, <1>2, <1>3, <1>6, <1>8, <1>10, <1>11, <1>12, <1>13, <1>14, <1>17, <1>18,
              <1>19, <1>20, MemoryFrame

-------------------------------------------------------------------------------
\* Before a run, and while it scans, every session is idle.
LEMMA StoreInit == Init => StoreInv
  <1> SUFFICES ASSUME Init PROVE StoreInv
    OBVIOUS
  <1> USE DEF Init
  <1>0. pc \in [Threads -> PCs] /\ cmd \in [Threads -> Commands] /\ at \in [Threads -> Nat]
    BY DEF Threads_at, PCs, Commands
  <1>0a. arg \in [Threads -> Block_File \cup {NoArg}]
    BY DEF Threads_at
  <1>1. TypeOK
    BY <1>0, <1>0a, EmptySeq DEF TypeOK, Cursor, CRITICAL_SECTION_SIZE
  <1>2. \A t \in Threads : ThreadOK(t)
    BY DEF ThreadOK, Threads_at
  <1>3. Permit
    BY DEF Permit, Threads_at, CRITICAL_SECTION_SIZE
  <1>4. PutsOwn = {} /\ Live = {}
    BY DEF PutsOwn, Live
  <1>5. RunOK /\ OwnOK /\ RangeOK /\ ScanOK /\ FirstRunStoresNothing /\ Covered
        /\ HiddenIsOwn
    BY <1>4 DEF RunOK, OwnOK, RangeOK, ScanOK, FirstRunStoresNothing, Covered, HiddenIsOwn,
                Serving, Threads_at
  <1>6. ListedHasFile
    BY <1>4 DEF ListedHasFile
  <1> QED  BY <1>1, <1>2, <1>3, <1>5, <1>6 DEF StoreInv

\* The end of the process leaves the disk, and memory as the next run finds it.
LEMMA HaltStep ==
    ASSUME StoreInv, phase # "down", NEW d \in SUBSET Blocks, Halt(d)
    PROVE  StoreInv'
  <1> USE DEF StoreInv, Halt
  <1>0. pc' \in [Threads -> PCs] /\ cmd' \in [Threads -> Commands] /\ at' \in [Threads -> Nat]
    BY DEF Threads_at, PCs, Commands
  <1>0a. arg' \in [Threads -> Block_File \cup {NoArg}]
    BY DEF Threads_at
  <1>1. TypeOK'
    BY <1>0, <1>0a, EmptySeq DEF TypeOK, Cursor, CRITICAL_SECTION_SIZE
  <1>2. \A t \in Threads : ThreadOK(t)'
    BY DEF ThreadOK, Threads_at
  <1>3. Permit'
    BY DEF Permit, Threads_at, CRITICAL_SECTION_SIZE
  <1>4. PutsOwn' = {} /\ Live' = {}
    BY DEF PutsOwn, Live
  <1>5. made
    BY DEF RunOK
  <1>6. RunOK' /\ OwnOK' /\ RangeOK' /\ ScanOK' /\ FirstRunStoresNothing' /\ Covered'
        /\ HiddenIsOwn'
    BY <1>4, <1>5 DEF RunOK, OwnOK, RangeOK, ScanOK, FirstRunStoresNothing, Covered, HiddenIsOwn,
                Serving, Threads_at
  <1>7. ListedHasFile'
    BY <1>4 DEF ListedHasFile
  <1> QED  BY <1>1, <1>2, <1>3, <1>6, <1>7

LEMMA StartStep ==
    ASSUME StoreInv, Start
    PROVE  StoreInv'
  <1> USE DEF StoreInv, Start, sessions
  <1>1. list = << >> /\ localpath = << >> /\ ~Serving /\ Len(list) \in Nat
    BY DEF RunOK, Serving
  <1>2. TypeOK'
    BY DEF TypeOK
  <1>3. \A t \in Threads : ThreadOK(t)'
    <2> SUFFICES ASSUME NEW t \in Threads PROVE ThreadOK(t)'
      OBVIOUS
    <2>1. ThreadOK(t) /\ pc[t] = Idle
      BY <1>1 DEF ThreadOK
    <2> QED  BY <2>1 DEF ThreadOK
  <1>4. Permit'
    BY DEF Permit
  <1>5. RunOK' /\ ScanOK' /\ FirstRunStoresNothing'
    BY <1>1 DEF RunOK, ScanOK, FirstRunStoresNothing
  <1>6. OwnOK' /\ RangeOK' /\ HiddenIsOwn' /\ ListedHasFile'
    BY <1>1, ListStays DEF OwnOK
  <1>7. Covered'
    BY DEF Covered, Serving
  <1> QED  BY <1>2, <1>3, <1>4, <1>5, <1>6, <1>7

LEMMA ScanDoneStep ==
    ASSUME StoreInv, ScanDone
    PROVE  StoreInv'
  <1> USE DEF StoreInv, ScanDone, disk, memory, sessions
  <1>1. ~Serving /\ Len(list) \in Nat
    BY DEF Serving, TypeOK
  <1>2. TypeOK'
    BY DEF TypeOK
  <1>3. \A t \in Threads : ThreadOK(t)'
    <2> SUFFICES ASSUME NEW t \in Threads PROVE ThreadOK(t)'
      OBVIOUS
    <2>1. ThreadOK(t) /\ pc[t] = Idle
      BY <1>1 DEF ThreadOK
    <2> QED  BY <2>1 DEF ThreadOK
  <1>4. Permit'
    BY DEF Permit
  <1>5. RunOK' /\ ScanOK' /\ FirstRunStoresNothing'
    BY DEF RunOK, ScanOK, FirstRunStoresNothing
  <1>6. OwnOK' /\ RangeOK' /\ HiddenIsOwn' /\ ListedHasFile' /\ \A i : Listed(i)' = Listed(i)
    BY <1>1, ListStays DEF OwnOK
  <1>7. Covered'
    BY <1>6 DEF Covered, ScanOK
  <1> QED  BY <1>2, <1>3, <1>4, <1>5, <1>6, <1>7

LEMMA ScanEntryStep ==
    ASSUME StoreInv, NEW b \in Blocks, ScanEntry(b)
    PROVE  StoreInv'
  <1> USE DEF StoreInv
  <1> DEFINE block == new_block(b, FALSE)
  <1>1. /\ phase = "scan" /\ b \in todo /\ todo' = todo \ {b} /\ ~Serving /\ b \in dir /\ ~fresh
        /\ UNCHANGED <<made, dir, lines, phase, ignored, fresh, localpath, sem, sessions>>
        /\ NameOf[b] \notin Hidden
        /\ list \in Seq(Grid_File) /\ Len(list) \in Nat
    BY DEF ScanEntry, disk, Serving, RunOK, FirstRunStoresNothing, TypeOK
  <1>2. /\ block = [block |-> b, told |-> FALSE] /\ block \in Block_File
        /\ NameOf[b] \in Names /\ NameOf[b] # Local
    BY RepositoryAssumption DEF new_block, Block_File
  <1> HIDE DEF block
  <1>3. \/ \E i \in 1..Len(list) : list[i].name = NameOf[b] /\ list' = append_block(i, block)
        \/ list' = Append(list, new_file(NameOf[b], block))
    BY DEF ScanEntry, ReadRange, block
  <1> DEFINE Grown ==
        /\ list' \in Seq(Grid_File) /\ Len(list) <= Len(list')
        /\ PutsOwn' = PutsOwn
        /\ \A i \in 1..Len(list) : list'[i].name = list[i].name /\ Listed(i) \subseteq Listed(i)'
        /\ \E i \in 1..Len(list') : b \in Listed(i)'
        /\ RangeOK'
        /\ \A i \in 1..Len(list') : \A c \in Listed(i)' :
              c = b \/ (i \in 1..Len(list) /\ c \in Listed(i))
        /\ (1..Len(list)) \ Live \subseteq (1..Len(list')) \ Live'
        /\ \A i \in Live' : \A c \in Listed(i)' : c = b \/ (i \in Live /\ c \in Listed(i))
  <1>4. ASSUME NEW i \in 1..Len(list), list' = append_block(i, block)
        PROVE  Grown
    <2>1. /\ list' \in Seq(Grid_File) /\ Len(list') = Len(list)
          /\ \A j \in 1..Len(list) : j # i => list'[j] = list[j]
          /\ list'[i].blocks = Append(list[i].blocks, block)
          /\ list[i].blocks \in Seq(Block_File)
          /\ \A j \in 1..Len(list) : list'[j].name = list[j].name
          /\ \A j \in 1..Len(list) : Listed(j) \subseteq Listed(j)'
          /\ \A j \in 1..Len(list) : j # i => Listed(j)' = Listed(j)
          /\ Listed(i)' = Listed(i) \cup {block.block}
          /\ Live' = Live /\ PutsOwn' = PutsOwn
      BY <1>1, <1>2, <1>4, BlockAppended
    <2>2. block.block = b /\ ~block.told
      BY <1>2
    <2>3. RangeOK'
      <3> SUFFICES ASSUME NEW j \in 1..Len(list'), NEW k \in 1..Len(list'[j].blocks),
                          list'[j].blocks[k].told
                   PROVE  list'[j].name = Local /\ k = 1
        BY DEF RangeOK
      <3>1. k \in 1..Len(list[j].blocks) /\ list[j].blocks[k].told
        <4>1. CASE j # i
          BY <4>1, <2>1
        <4>2. CASE j = i
          <5> DEFINE s == list[i].blocks
          <5>1. s \in Seq(Block_File) /\ list'[j].blocks = Append(s, block)
            BY <2>1, <4>2
          <5> HIDE DEF s
          <5>2. k \in 1..(Len(s) + 1) /\ Append(s, block)[k].told /\ Len(s) \in Nat
            BY <5>1
          <5>3. k # Len(s) + 1
            BY <5>1, <5>2, <2>2
          <5>4. k \in 1..Len(s) /\ s[k].told
            BY <5>1, <5>2, <5>3
          <5> QED  BY <5>4, <4>2 DEF s
        <4> QED  BY <4>1, <4>2
      <3> QED  BY <3>1, <2>1 DEF RangeOK
    <2>4. i \in 1..Len(list') /\ b \in Listed(i)'
      BY <2>1, <2>2
    <2>5. \A j \in Live' : \A c \in Listed(j)' : c = b \/ (j \in Live /\ c \in Listed(j))
      <3> SUFFICES ASSUME NEW j \in Live', NEW c \in Listed(j)', c # b
                   PROVE  j \in Live /\ c \in Listed(j)
        OBVIOUS
      <3>1. j \in Live /\ j \in 1..Len(list)
        BY <2>1 DEF Live
      <3>2. CASE j = i
        BY <2>1, <2>2, <3>1, <3>2
      <3>3. CASE j # i
        BY <2>1, <3>1, <3>3
      <3> QED  BY <3>2, <3>3
    <2>6. \A j \in 1..Len(list') : \A c \in Listed(j)' :
             c = b \/ (j \in 1..Len(list) /\ c \in Listed(j))
      BY <2>1, <2>2
    <2> QED  BY <1>1, <2>1, <2>3, <2>4, <2>5, <2>6
  <1>5. ASSUME list' = Append(list, new_file(NameOf[b], block))
        PROVE  Grown
    <2>1. /\ list' \in Seq(Grid_File) /\ Len(list') = Len(list) + 1
          /\ \A i \in 1..Len(list) : list'[i] = list[i] /\ Listed(i)' = Listed(i)
          /\ list'[Len(list')] = [name |-> NameOf[b], blocks |-> <<block>>, freed |-> FALSE]
          /\ \A i : i = Len(list) + 1 => Listed(i)' = {block.block}
          /\ (1..Len(list)) \ Live \subseteq (1..Len(list')) \ Live'
          /\ Live' = Live \cup {Len(list')}
          /\ PutsOwn' = PutsOwn
      BY <1>1, <1>2, <1>5, RecordAppended
    <2>2. block.block = b /\ ~block.told
      BY <1>2
    <2>3. RangeOK'
      <3> SUFFICES ASSUME NEW j \in 1..Len(list'), NEW k \in 1..Len(list'[j].blocks),
                          list'[j].blocks[k].told
                   PROVE  list'[j].name = Local /\ k = 1
        BY DEF RangeOK
      <3>1. CASE j \in 1..Len(list)
        BY <3>1, <2>1 DEF RangeOK
      <3>2. CASE j = Len(list')
        <4>1. list'[j].blocks = <<block>>
          BY <3>2, <2>1
        <4> QED  BY <4>1, <2>2
      <3> QED  BY <1>1, <2>1, <3>1, <3>2
    <2>4. Len(list) + 1 \in 1..Len(list') /\ \A i : i = Len(list) + 1 => b \in Listed(i)'
      BY <1>1, <2>1, <2>2
    <2>5. \A j \in Live' : \A c \in Listed(j)' : c = b \/ (j \in Live /\ c \in Listed(j))
      <3> SUFFICES ASSUME NEW j \in Live', NEW c \in Listed(j)', c # b
                   PROVE  j \in Live /\ c \in Listed(j)
        OBVIOUS
      <3>1. j # Len(list')
        BY <1>1, <2>1, <2>2
      <3>2. j \in Live
        BY <2>1, <3>1
      <3> QED  BY <2>1, <3>2 DEF Live
    <2>6. \A j \in 1..Len(list') : \A c \in Listed(j)' :
             c = b \/ (j \in 1..Len(list) /\ c \in Listed(j))
      BY <1>1, <2>1, <2>2
    <2> QED  BY <1>1, <2>1, <2>3, <2>4, <2>5, <2>6
  <1>6. Grown
    BY <1>3, <1>4, <1>5
  <1> HIDE DEF Grown
  <1>7. TypeOK'
    BY <1>1, <1>6 DEF TypeOK, Grown, sessions
  <1>8. \A t \in Threads : ThreadOK(t)'
    <2> SUFFICES ASSUME NEW t \in Threads PROVE ThreadOK(t)'
      OBVIOUS
    <2>1. ThreadOK(t) /\ pc[t] = Idle /\ Len(list') \in Nat
      BY <1>1, <1>6 DEF ThreadOK, Grown
    <2> QED  BY <1>1, <1>6, <2>1 DEF ThreadOK, Grown, sessions
  <1>9. Permit'
    BY <1>1 DEF Permit, sessions
  <1>10. RunOK' /\ FirstRunStoresNothing'
    BY <1>1 DEF RunOK, FirstRunStoresNothing
  <1>11. OwnOK'
    BY <1>1, <1>6 DEF OwnOK, Grown, sessions
  <1>12. ScanOK'
    BY <1>1, <1>6 DEF ScanOK, Grown
  <1>13. ListedHasFile'
    <2> SUFFICES ASSUME NEW i \in Live', NEW c \in Listed(i)', c \notin dir'
                 PROVE  \E j \in (1..Len(list')) \ Live' : c \in Listed(j)'
      BY DEF ListedHasFile
    <2>1. i \in Live /\ c \in Listed(i) /\ c \notin dir
      BY <1>1, <1>6 DEF Grown
    <2>2. PICK j \in (1..Len(list)) \ Live : c \in Listed(j)
      BY <2>1 DEF ListedHasFile
    <2> QED  BY <1>6, <2>2 DEF Grown
  <1>13a. HiddenIsOwn'
    BY <1>1, <1>6 DEF HiddenIsOwn, Grown
  <1>14. Covered'
    BY <1>1 DEF Covered, Serving
  <1> QED  BY <1>6, <1>7, <1>8, <1>9, <1>10, <1>11, <1>12, <1>13, <1>13a, <1>14 DEF Grown

\* An entry that is passed over is counted as ignored.
LEMMA IgnoreEntryStep ==
    ASSUME StoreInv, NEW b \in Blocks, IgnoreEntry(b)
    PROVE  StoreInv'
  <1> USE DEF StoreInv, IgnoreEntry, disk, memory, sessions
  <1>1. ~Serving /\ Len(list) \in Nat
    BY DEF Serving, TypeOK
  <1>2. TypeOK'
    BY DEF TypeOK
  <1>3. \A t \in Threads : ThreadOK(t)'
    <2> SUFFICES ASSUME NEW t \in Threads PROVE ThreadOK(t)'
      OBVIOUS
    <2>1. ThreadOK(t) /\ pc[t] = Idle
      BY <1>1 DEF ThreadOK
    <2> QED  BY <2>1 DEF ThreadOK
  <1>4. Permit'
    BY DEF Permit
  <1>5. RunOK' /\ FirstRunStoresNothing'
    BY DEF RunOK, FirstRunStoresNothing
  <1>6. OwnOK' /\ RangeOK' /\ HiddenIsOwn' /\ ListedHasFile' /\ \A i : Listed(i)' = Listed(i)
    BY <1>1, ListStays DEF OwnOK
  <1>7. ScanOK'
    BY <1>6 DEF ScanOK
  <1>8. Covered'
    BY <1>1 DEF Covered, Serving
  <1> QED  BY <1>2, <1>3, <1>4, <1>5, <1>6, <1>7, <1>8

-------------------------------------------------------------------------------
LEMMA EndSteps ==
    ASSUME StoreInv
    PROVE  /\ close_server => StoreInv'
           /\ \A t \in Threads : Fault(t) \/ DestroyerFault(t) => StoreInv'
  <1>1. dir \in SUBSET Blocks
    BY DEF StoreInv, TypeOK
  <1>2. ASSUME close_server PROVE StoreInv'
    BY <1>1, <1>2, HaltStep DEF close_server
  <1>3. ASSUME NEW t \in Threads, Fault(t) PROVE StoreInv'
    <2>1. phase # "down"
      BY <1>3 DEF Fault, NullToken, ConnectionLost, OpenFails, GetUnknown, TransferLost, NullHead,
                  UseAfterFree, Holds, At, Serving
    <2> QED  BY <1>1, <1>3, <2>1, HaltStep DEF Fault
  <1>4. ASSUME NEW t \in Threads, DestroyerFault(t) PROVE StoreInv'
    <2>1. phase # "down"
      BY <1>4 DEF DestroyerFault, Holds, At, Serving
    <2>2. PICK S \in {{}, Purged(at[t])} : Halt(dir \ S)
      BY <1>4 DEF DestroyerFault
    <2> QED  BY <1>1, <2>1, <2>2, HaltStep
  <1> QED  BY <1>2, <1>3, <1>4

LEMMA StoreStep ==
    ASSUME StoreInv, [Next]_vars
    PROVE  StoreInv'
  <1>1. CASE Start
    BY <1>1, StartStep
  <1>2. CASE ScanDone
    BY <1>2, ScanDoneStep
  <1>3. CASE close_server
    BY <1>3, EndSteps
  <1>4. ASSUME NEW b \in Blocks, ScanEntry(b) \/ IgnoreEntry(b) PROVE StoreInv'
    BY <1>4, ScanEntryStep, IgnoreEntryStep
  <1>5. ASSUME NEW t \in Threads, Handle(t) PROVE StoreInv'
    BY <1>5, HandleStep
  <1>6. ASSUME NEW t \in Threads, Store(t) PROVE StoreInv'
    BY <1>6, CopyPathStep, OpenBlockStep, StoreSessionStep, NameBlockStep, SemWaitStep, AddFileStep,
       AppendLineStep, AnswerStep, DestroyStep DEF Store
  <1>7. ASSUME NEW t \in Threads, Fault(t) \/ DestroyerFault(t) PROVE StoreInv'
    BY <1>7, EndSteps
  <1>8. CASE UNCHANGED vars
    <2> USE <1>8 DEF vars, StoreInv
    <2>1. TypeOK'
      BY DEF TypeOK
    <2>2. PutsOwn' = PutsOwn /\ Live' = Live /\ \A i : Listed(i)' = Listed(i)
      BY DEF PutsOwn, Live, Listed
    <2>3. PathNames' = PathNames /\ \A b : (HasFile(b)' <=> HasFile(b)) /\ (Known(b)' <=> Known(b))
      BY <2>2 DEF PathNames, HasFile, Known
    <2>4. \A t \in Threads : ThreadOK(t)'
      <3> SUFFICES ASSUME NEW t \in Threads PROVE ThreadOK(t)'
        OBVIOUS
      <3>1. Len(list) \in Nat
        BY DEF TypeOK
      <3> QED  BY <2>2, <2>3, <3>1, ThreadFrame
    <2>5. Permit' /\ RunOK' /\ OwnOK' /\ RangeOK' /\ ScanOK'
      BY <2>2 DEF Permit, RunOK, OwnOK, RangeOK, ScanOK
    <2>6. FirstRunStoresNothing' /\ ListedHasFile' /\ HiddenIsOwn'
      BY <2>2 DEF FirstRunStoresNothing, ListedHasFile, HiddenIsOwn
    <2>7. Covered'
      BY <2>2 DEF Covered, Storing, Serving
    <2> QED  BY <2>1, <2>4, <2>5, <2>6, <2>7
  <1> QED  BY <1>1, <1>2, <1>3, <1>4, <1>5, <1>6, <1>7, <1>8 DEF Next

\* The inductive invariant holds in every state the repository reaches.
THEOREM StoreInductive == Spec => []StoreInv
  BY StoreInit, StoreStep, PTL DEF Spec

\* Every variable of the repository keeps its type.
THEOREM StoreTyping == Spec => []TypeOK
  <1>1. StoreInv => TypeOK
    BY DEF StoreInv
  <1> QED  BY StoreInductive, <1>1, PTL

\* The run that makes the directory stores nothing in it.
THEOREM FirstRun == Spec => []FirstRunStoresNothing
  <1>1. StoreInv => FirstRunStoresNothing
    BY DEF StoreInv
  <1> QED  BY StoreInductive, <1>1, PTL

\* One PUT in a run gets into the list.
THEOREM OneStore == Spec => []OneStorePerRun
  <1>1. StoreInv => OneStorePerRun
    <2> SUFFICES ASSUME StoreInv PROVE OneStorePerRun
      OBVIOUS
    <2>1. OwnOK
      BY DEF StoreInv
    <2>2. CASE PutsOwn = {}
      BY <2>2, FS_EmptySet DEF OneStorePerRun
    <2>3. CASE PutsOwn # {}
      <3>1. PICK i \in PutsOwn : TRUE
        BY <2>3
      <3>2. PutsOwn = {i}
        BY <2>1, <3>1 DEF OwnOK
      <3>3. Cardinality(PutsOwn) = 1
        BY <3>2, FS_Singleton
      <3> QED  BY <2>1, <3>3 DEF OneStorePerRun, OwnOK
    <2> QED  BY <2>2, <2>3
  <1> QED  BY StoreInductive, <1>1, PTL

\* The range of one block at most is known: that of the PUT of this run.
THEOREM OneRange == Spec => []OneRangeKnown
  <1>1. StoreInv => OneRangeKnown
    BY DEF StoreInv, OneRangeKnown, RangeOK, OwnOK, PutsOwn
  <1> QED  BY StoreInductive, <1>1, PTL

\* The permit is lost only to a PUT of a name that is known.
THEOREM JamCause == Spec => []JamExplained
  <1>1. StoreInv => JamExplained
    <2> SUFFICES ASSUME StoreInv, PermitLost
                 PROVE  \E t \in Threads :
                           /\ pc[t] = Stuck
                           /\ \/ PutsOwn # {}
                              \/ \E i \in 1..Len(list) : list[i].name = NameOf[arg[t].block]
      BY DEF JamExplained
    <2>1. PICK t \in Threads : pc[t] = Stuck
      BY DEF StoreInv, Permit, PermitLost
    <2>2. Known(arg[t].block)
      BY <2>1 DEF StoreInv, ThreadOK
    <2> QED  BY <2>1, <2>2 DEF Known
  <1> QED  BY StoreInductive, <1>1, PTL

\* While the repository serves, its list, the PUTs on their way to it and the entries
\* its scan has passed over account for every file of the directory; a hidden file is
\* listed only where this run stored it.
THEOREM DirectoryCovered == Spec => []ListCoversDirectory
  <1>1. StoreInv => ListCoversDirectory
    BY DEF StoreInv, ListCoversDirectory
  <1> QED  BY StoreInductive, <1>1, PTL

\* A listed block has its file, or db_destroyer freed a record of it.
THEOREM FilesOfRecords == Spec => []ListedHasFile
  <1>1. StoreInv => ListedHasFile
    BY DEF StoreInv
  <1> QED  BY StoreInductive, <1>1, PTL

-------------------------------------------------------------------------------
\* The repository implements the block store.
Logging == \E t \in Threads : pc[t] = Log

LEMMA RunCases ==
    /\ phase = "down" => Run = "off"
    /\ phase # "down" /\ fresh => Run = "first"
    /\ phase # "down" /\ ~fresh /\ PutsOwn = {} => Run = "open"
    /\ phase # "down" /\ ~fresh /\ PutsOwn # {} /\ Logging => Run = "recorded"
    /\ phase # "down" /\ ~fresh /\ PutsOwn # {} /\ ~Logging => Run = "closed"
  BY DEF Run, Logging

LEMMA RunCasesNext ==
    /\ phase' = "down" => Run' = "off"
    /\ phase' # "down" /\ fresh' => Run' = "first"
    /\ phase' # "down" /\ ~fresh' /\ PutsOwn' = {} => Run' = "open"
    /\ phase' # "down" /\ ~fresh' /\ PutsOwn' # {} /\ Logging' => Run' = "recorded"
    /\ phase' # "down" /\ ~fresh' /\ PutsOwn' # {} /\ ~Logging' => Run' = "closed"
  BY DEF Run, Logging

\* A step that neither stores nor ends anything is a stutter of the block store.
LEMMA RunStays ==
    ASSUME TypeOK, phase # "down", phase' # "down", fresh' = fresh,
           PutsOwn' = PutsOwn, Logging' = Logging
    PROVE  Run' = Run
  BY RunCases, RunCasesNext DEF TypeOK

LEMMA LoggingStays ==
    ASSUME pc \in [Threads -> PCs], NEW t \in Threads, NEW l, Goto(t, l), pc[t] # Log, l # Log
    PROVE  Logging' = Logging
  <1>1. Logging' <=> Logging
    BY DEF Logging, Goto
  <1> QED  BY <1>1 DEF Logging

\* A step of t that does not come from OpenBlock's place and does not lead there.
LEMMA GrantedStays ==
    ASSUME NEW t \in Threads, Alone(t), pc[t] # Open, pc'[t] # Open
    PROVE  Granted' = Granted
  <1>1. \A u \in Threads : pc'[u] = Open <=> pc[u] = Open
    BY DEF Alone
  <1>2. \A u \in Threads : pc[u] = Open => arg'[u] = arg[u]
    BY DEF Alone
  <1>3. \A b : b \in Granted' <=> b \in Granted
    BY <1>1, <1>2 DEF Granted
  <1> QED  BY <1>3 DEF Granted

LEMMA GrantedNone ==
    ASSUME \A t \in Threads : pc'[t] # Open
    PROVE  Granted' = {}
  BY DEF Granted

LEMMA QuietSteps ==
    ASSUME StoreInv, NEW t \in Threads,
           Handle(t) \/ (CopyPath(t) /\ ~AtDirectory) \/ recv_file(t) \/ NameBlock(t)
              \/ sem_wait(t) \/ add_file_present(t) \/ file_db_to_string(t) \/ remove_file(t)
    PROVE  UNCHANGED <<dir, lines, made, Granted, Run>>
  <1> USE DEF Handle, Accept, HandlePut, HandleUpdateMap, HandleRemove, HandleGet, HandleQuit,
              HandleEof, ParseName, ParseRange, ParseOwn, ParseMixed, ParseKey, Begin, CopyPath,
              recv_file, NameBlock, sem_wait, add_file_present, file_db_to_string, remove_file,
              Holds, At
  <1>1. TypeOK
    BY DEF StoreInv
  <1>2. Serving /\ pc[t] \notin {Log, Open}
    OBVIOUS
  <1>3. UNCHANGED <<dir, lines, made, phase, fresh, list>>
    BY DEF Release, disk, memory
  <1>4. \E l \in PCs \ {Log, Open} : Goto(t, l)
    BY DEF Leave, PCs
  <1>5. \A u \in Threads : u # t => cmd'[u] = cmd[u] /\ arg'[u] = arg[u] /\ at'[u] = at[u]
    BY <1>1 DEF Leave, TypeOK
  <1>6. Alone(t) /\ pc'[t] # Open
    BY <1>1, <1>4, <1>5 DEF Alone, Goto, TypeOK
  <1> QED
    <2>1. PutsOwn' = PutsOwn
      BY <1>3 DEF PutsOwn
    <2>2. Logging' = Logging
      BY <1>1, <1>2, <1>4, LoggingStays DEF TypeOK
    <2>3. Granted' = Granted
      BY <1>2, <1>6, GrantedStays
    <2> QED  BY <1>1, <1>2, <1>3, <2>1, <2>2, <2>3, RunStays DEF Serving

LEMMA ScanSteps ==
    ASSUME StoreInv, (\E b \in Blocks : ScanEntry(b) \/ IgnoreEntry(b)) \/ ScanDone
    PROVE  UNCHANGED <<dir, lines, made, Granted, Run>>
  <1>1. TypeOK
    BY DEF StoreInv
  <1>2. UNCHANGED <<dir, lines, made, fresh, pc, arg>> /\ phase # "down" /\ phase' # "down"
    BY DEF ScanEntry, IgnoreEntry, ScanDone, disk, memory, sessions
  <1>3. PutsOwn' = PutsOwn
    <2>1. CASE ScanDone \/ \E b \in Blocks : IgnoreEntry(b)
      BY <2>1 DEF ScanDone, IgnoreEntry, memory, PutsOwn
    <2>2. ASSUME NEW b \in Blocks, ScanEntry(b) PROVE PutsOwn' = PutsOwn
      <3>1. /\ new_block(b, ReadRange(b)) \in Block_File /\ list \in Seq(Grid_File)
            /\ NameOf[b] \in Names /\ NameOf[b] # Local
        BY <1>1, RepositoryAssumption DEF new_block, Block_File, ReadRange, TypeOK
      <3> QED  BY <2>2, <3>1, BlockAppended, RecordAppended DEF ScanEntry
    <2> QED  BY <2>1, <2>2
  <1>4. Logging' = Logging /\ Granted' = Granted
    BY <1>2 DEF Logging, Granted
  <1> QED  BY <1>1, <1>2, <1>3, <1>4, RunStays

LEMMA BootStep ==
    ASSUME StoreInv, Start
    PROVE  Abstract!Boot
  <1>1. phase = "down" /\ phase' = "scan" /\ made' = TRUE /\ fresh' = ~made /\ list' = list
        /\ UNCHANGED <<dir, lines>> /\ list = << >> /\ UNCHANGED <<pc, arg>>
    BY DEF Start, StoreInv, RunOK, sessions
  <1>2. PutsOwn' = {} /\ made \in BOOLEAN /\ Granted' = Granted
    BY <1>1 DEF PutsOwn, StoreInv, TypeOK, Granted
  <1>3. Run = "off" /\ Run' = IF made THEN "open" ELSE "first"
    BY <1>1, <1>2, RunCases, RunCasesNext
  <1> QED  BY <1>1, <1>2, <1>3 DEF Abstract!Boot

LEMMA StopStep ==
    ASSUME phase # "down", Halt(dir), TypeOK
    PROVE  Abstract!Stop
  <1>1. phase' = "down" /\ UNCHANGED <<dir, lines, made>>
    BY DEF Halt
  <1>2. Run # "off" /\ Run' = "off"
    BY <1>1, RunCases, RunCasesNext DEF TypeOK
  <1>3. Granted' = {}
    BY GrantedNone DEF Halt, Threads_at
  <1> QED  BY <1>1, <1>2, <1>3 DEF Abstract!Stop

LEMMA GrantStep ==
    ASSUME StoreInv, NEW t \in Threads, CopyPath(t), AtDirectory
    PROVE  \E b \in Blocks : Abstract!Grant(b)
  <1>1. ThreadOK(t) /\ TypeOK /\ OwnOK /\ pc[t] = Copy /\ Serving
    BY DEF StoreInv, CopyPath, At
  <1>2. arg[t].block \in Blocks
    BY <1>1 DEF ThreadOK, Block_File
  <1>3. PutsOwn = {} /\ ~fresh
    BY <1>1 DEF OwnOK, AtDirectory
  <1>4. UNCHANGED <<dir, lines, made, phase, fresh, list, arg>> /\ Goto(t, Open)
    BY DEF CopyPath, disk, memory
  <1>5. PutsOwn' = {}
    BY <1>3, <1>4 DEF PutsOwn
  <1>6. Run = "open" /\ Run' = "open"
    BY <1>1, <1>3, <1>4, <1>5, RunCases, RunCasesNext DEF Serving
  <1>7. Granted' = Granted \cup {arg[t].block}
    <2>1. \A u \in Threads : pc'[u] = Open <=> (u = t \/ pc[u] = Open)
      BY <1>1, <1>4 DEF Goto, TypeOK
    <2> QED  BY <1>4, <2>1 DEF Granted
  <1> QED  BY <1>2, <1>4, <1>6, <1>7 DEF Abstract!Grant

LEMMA WriteStep ==
    ASSUME StoreInv, NEW t \in Threads, OpenBlock(t)
    PROVE  \E b \in Blocks : Abstract!Write(b)
  <1> DEFINE b == arg[t].block
  <1>1. ThreadOK(t) /\ TypeOK /\ pc[t] = Open /\ Serving
    BY DEF StoreInv, OpenBlock, At
  <1>2. b \in Blocks /\ b \in Granted
    BY <1>1 DEF ThreadOK, Block_File, Granted
  <1>3. UNCHANGED <<lines, made, phase, fresh, list, arg>> /\ dir' = dir \cup {b} /\ Goto(t, Receive)
    BY DEF OpenBlock, memory
  <1>4. PutsOwn' = PutsOwn
    BY <1>3 DEF PutsOwn
  <1>5. Logging' = Logging
    BY <1>1, <1>3, LoggingStays DEF TypeOK
  <1>6. Run' = Run
    BY <1>1, <1>3, <1>4, <1>5, RunStays DEF Serving
  <1>7. Granted' \in {Granted, Granted \ {b}}
    <2>1. \A u \in Threads : pc'[u] = Open <=> (u # t /\ pc[u] = Open)
      BY <1>1, <1>3 DEF Goto, TypeOK
    <2>2. Granted' \subseteq Granted
      BY <1>3, <2>1 DEF Granted
    <2>3. Granted \ {b} \subseteq Granted'
      BY <1>3, <2>1 DEF Granted
    <2> QED  BY <2>2, <2>3
  <1> HIDE DEF b
  <1> QED  BY <1>2, <1>3, <1>6, <1>7 DEF Abstract!Write

LEMMA RecordStep ==
    ASSUME StoreInv, NEW t \in Threads, add_file(t)
    PROVE  Abstract!Record
  <1>1. ThreadOK(t) /\ TypeOK /\ pc[t] = Hold /\ cmd[t] = "put" /\ Serving /\ ~Present
    BY DEF StoreInv, add_file, Holds, At
  <1>2. arg[t] \in Block_File /\ ~fresh /\ PutsOwn = {} /\ list \in Seq(Grid_File)
    BY <1>1 DEF ThreadOK, Present, PutsOwn, TypeOK
  <1>3. UNCHANGED <<lines, made, phase, fresh, dir, cmd, arg, at>>
        /\ list' = Append(list, new_file(Local, arg[t])) /\ Goto(t, Log)
    BY DEF add_file, Release
  <1>4. PutsOwn' # {}
    BY <1>2, <1>3, RecordAppended
  <1>5. Logging' /\ Granted' = Granted
    <2>1. Alone(t) /\ pc'[t] = Log
      BY <1>1, <1>3 DEF Goto, Alone, TypeOK
    <2> QED  BY <1>1, <2>1, GrantedStays DEF Logging
  <1>6. Run = "open" /\ Run' = "recorded"
    BY <1>1, <1>2, <1>3, <1>4, <1>5, RunCases, RunCasesNext DEF Serving
  <1> QED  BY <1>3, <1>5, <1>6 DEF Abstract!Record

LEMMA LineStep ==
    ASSUME StoreInv, NEW t \in Threads, append_block_to_filedb(t)
    PROVE  \E b \in Blocks : Abstract!WriteLine(b)
  <1>1. ThreadOK(t) /\ TypeOK /\ OwnOK /\ pc[t] = Log /\ Serving
    BY DEF StoreInv, append_block_to_filedb, At
  <1>2. arg[t].block \in Blocks /\ ~fresh /\ PutsOwn # {} /\ Logging
    BY <1>1 DEF ThreadOK, Block_File, Logging
  <1>3. UNCHANGED <<made, phase, fresh, dir, list>> /\ lines' = lines \cup {arg[t].block}
        /\ Goto(t, Idle) /\ Leave(t, Idle)
    BY DEF append_block_to_filedb, memory, Leave
  <1>4. PutsOwn' # {}
    BY <1>2, <1>3 DEF PutsOwn
  <1>5. ~Logging'
    BY <1>1, <1>3 DEF OwnOK, Goto, Logging, TypeOK
  <1>6. Run = "recorded" /\ Run' = "closed"
    BY <1>1, <1>2, <1>3, <1>4, <1>5, RunCases, RunCasesNext DEF Serving
  <1>7. Granted' = Granted
    <2>1. Alone(t) /\ pc'[t] = Idle
      BY <1>1, <1>3 DEF Leave, Goto, Alone, TypeOK
    <2> QED  BY <1>1, <2>1, GrantedStays
  <1> QED  BY <1>2, <1>3, <1>6, <1>7 DEF Abstract!WriteLine

LEMMA PurgeStep ==
    ASSUME StoreInv, NEW t \in Threads, db_destroyer(t) \/ DestroyerFault(t)
    PROVE  \E S \in SUBSET Blocks : Abstract!Purge(S)
  <1>1. ThreadOK(t) /\ TypeOK /\ pc[t] = Hold /\ cmd[t] = "quit" /\ Serving
    BY DEF StoreInv, db_destroyer, DestroyerFault, Holds, At
  <1>2. at[t] \in 1..Len(list) /\ list \in Seq(Grid_File) /\ dir \subseteq Blocks /\ ~fresh
    BY <1>1 DEF ThreadOK, TypeOK
  <1>3. Run \notin {"off", "first"}
    BY <1>1, <1>2, RunCases DEF Serving
  <1>4. ASSUME db_destroyer(t)
        PROVE  UNCHANGED <<lines, made, Granted, Run>> /\ dir' = dir \ Purged(at[t])
    <2>1. UNCHANGED <<lines, made, phase, fresh>> /\ dir' = dir \ Purged(at[t])
          /\ list' = [list EXCEPT ![at[t]].freed = TRUE]
      BY <1>4 DEF db_destroyer, Release
    <2>2. PutsOwn' = PutsOwn
      BY <1>2, <2>1, BlocksFreed
    <2>3. PICK l \in {Wait, Idle} : Goto(t, l)
      BY <1>4 DEF db_destroyer, Leave
    <2>4. Logging' = Logging
      BY <1>1, <2>3, LoggingStays DEF TypeOK
    <2>5. \A u \in Threads : u # t => cmd'[u] = cmd[u] /\ arg'[u] = arg[u] /\ at'[u] = at[u]
      BY <1>1, <1>4 DEF db_destroyer, Leave, TypeOK
    <2>6. Alone(t) /\ pc'[t] # Open
      BY <1>1, <2>3, <2>5 DEF Alone, Goto, TypeOK
    <2>7. Run' = Run /\ Granted' = Granted
      BY <1>1, <2>1, <2>2, <2>4, <2>6, RunStays, GrantedStays DEF Serving
    <2> QED  BY <2>1, <2>7
  <1>5. ASSUME DestroyerFault(t)
        PROVE  UNCHANGED <<lines, made>> /\ Run' = "off" /\ Granted' = {}
               /\ \E S \in {{}, Purged(at[t])} : dir' = dir \ S
    <2>1. UNCHANGED <<lines, made>> /\ phase' = "down" /\ (\A u \in Threads : pc'[u] # Open)
          /\ \E S \in {{}, Purged(at[t])} : dir' = dir \ S
      BY <1>5 DEF DestroyerFault, Halt, Threads_at
    <2> QED  BY <2>1, RunCasesNext, GrantedNone
  <1>6. PICK S : /\ dir' = dir \ S /\ UNCHANGED <<lines, made>>
                 /\ UNCHANGED <<Granted, Run>> \/ (Granted' = {} /\ Run' = "off")
    BY <1>4, <1>5
  <1>7. S \cap Blocks \in SUBSET Blocks /\ dir' = dir \ (S \cap Blocks)
    BY <1>2, <1>6
  <1> QED  BY <1>3, <1>6, <1>7 DEF Abstract!Purge

\* Init and every step of the repository map to those of the block store.
THEOREM Refinement == Spec => StoreSpec
  <1>1. Init => Abstract!StoreInit
    <2>1. Init => Run = "off" /\ Granted = {}
      BY RunCases DEF Init, Granted, Threads_at
    <2> QED  BY <2>1 DEF Init, Abstract!StoreInit
  <1>2. StoreInv /\ [Next]_vars => [Abstract!StoreNext]_(Abstract!storeVars)
    <2> SUFFICES ASSUME StoreInv, [Next]_vars
                 PROVE  Abstract!StoreNext \/ UNCHANGED <<dir, lines, made, Granted, Run>>
      BY DEF Abstract!storeVars
    <2> USE DEF Abstract!StoreNext
    <2>1. CASE Start
      BY <2>1, BootStep
    <2>2. CASE ScanDone \/ \E b \in Blocks : ScanEntry(b) \/ IgnoreEntry(b)
      BY <2>2, ScanSteps
    <2>3. CASE close_server
      BY <2>3, StopStep DEF close_server, StoreInv
    <2>4. ASSUME NEW t \in Threads, Handle(t) \/ Store(t)
          PROVE  Abstract!StoreNext \/ UNCHANGED <<dir, lines, made, Granted, Run>>
      BY <2>4, QuietSteps, GrantStep, WriteStep, RecordStep, LineStep, PurgeStep DEF Store
    <2>5. ASSUME NEW t \in Threads, Fault(t) PROVE Abstract!StoreNext
      <3>1. phase # "down" /\ Halt(dir)
        BY <2>5 DEF Fault, NullToken, ConnectionLost, OpenFails, GetUnknown, TransferLost, NullHead,
                    UseAfterFree, Holds, At, Serving
      <3> QED  BY <3>1, StopStep DEF StoreInv
    <2>6. ASSUME NEW t \in Threads, DestroyerFault(t) PROVE Abstract!StoreNext
      BY <2>6, PurgeStep
    <2>7. CASE UNCHANGED vars
      BY <2>7 DEF vars, Run, PutsOwn, Granted
    <2> QED  BY <2>1, <2>2, <2>3, <2>4, <2>5, <2>6, <2>7 DEF Next
  <1> QED  BY <1>1, <1>2, StoreInductive, PTL DEF Spec, StoreSpec, Abstract!StoreSpec

-------------------------------------------------------------------------------
\* A lost permit comes back with the next run only: until the process ends nothing
\* is listed or freed any more, and every session that comes to sem_wait stays there
\* (file_db.c:38, 192, 225, 274, 385).
THEOREM JamLasts ==
    Spec => [][PermitLost =>
                  \/ phase' = "down"
                  \/ /\ PermitLost'
                     /\ list' = list
                     /\ \A t \in Threads : pc[t] = Wait => pc'[t] = Wait]_vars
  <1> DEFINE Lasts == \/ phase' = "down"
                      \/ /\ PermitLost'
                         /\ list' = list
                         /\ \A t \in Threads : pc[t] = Wait => pc'[t] = Wait
  <1>1. ASSUME StoreInv, Next, PermitLost PROVE Lasts
    <2> USE <1>1 DEF PermitLost
    <2>1. Serving /\ sem = 0 /\ pc \in [Threads -> PCs] /\ \A t \in Threads : pc[t] # Hold
      BY DEF StoreInv, Permit, ThreadOK, TypeOK
    <2>2. CASE close_server \/ \E t \in Threads : Fault(t) \/ DestroyerFault(t)
      BY <2>2 DEF close_server, Fault, DestroyerFault, Halt
    <2>3. ~Start /\ ~ScanDone /\ \A b \in Blocks : ~ScanEntry(b) /\ ~IgnoreEntry(b)
      BY <2>1 DEF Start, ScanDone, ScanEntry, IgnoreEntry, Serving
    <2>4. ASSUME NEW t \in Threads, Handle(t) PROVE Lasts
      BY <2>1, <2>4 DEF Handle, Accept, HandlePut, HandleUpdateMap, HandleRemove, Begin, HandleGet,
                        HandleQuit, HandleEof, ParseName, ParseRange, ParseKey, At, Goto, memory
    <2>5. ASSUME NEW t \in Threads, Store(t) PROVE Lasts
      BY <2>1, <2>5 DEF Store, CopyPath, OpenBlock, recv_file, NameBlock, sem_wait, add_file, add_file_present,
                        append_block_to_filedb, file_db_to_string, remove_file, db_destroyer,
                        Holds, At, Goto, Leave, memory
    <2> QED  BY <2>2, <2>3, <2>4, <2>5 DEF Next
  <1>2. StoreInv /\ [Next]_vars => [PermitLost => Lasts]_vars
    BY <1>1
  <1> QED  BY StoreInductive, <1>2, PTL DEF Spec

===============================================================================
