----------------------------- MODULE StartupProofs -----------------------------
(***************************************************************************)
(* Proofs about Startup, for any rep.conf without a repository twice and   *)
(* any answers that begin with a file and a block of it or report nothing. *)
(***************************************************************************)
EXTENDS Startup, SequenceTheorems, TLAPS

N == Len(Conf)

-------------------------------------------------------------------------------
\* The loop has passed p repositories; m of them are left in the list, in front
\* of those it has not come to.
Passed(m, p) ==
    /\ p \in 0..N /\ m \in 0..p
    /\ Len(list) = m + (N - p)
    /\ \A k \in 1..(N - p) : list[m + k] = Conf[p + k]
    /\ \A k \in 1..m : \E a \in 1..p : list[k] = Conf[a]
    /\ \A k \in 1..m : tried[list[k]] = "online"
    /\ \A a \in 1..p : \/ tried[Conf[a]] = "offline"
                       \/ tried[Conf[a]] = "online" /\ \E k \in 1..m : list[k] = Conf[a]
    /\ \A a \in (p + 1)..N : tried[Conf[a]] = "no"

\* The list has the order of rep.conf.
Ordered ==
    \A i, j \in 1..Len(list) : i < j =>
        \E a, b \in 1..N : a < b /\ list[i] = Conf[a] /\ list[j] = Conf[b]

\* The node after place p of rep.conf.
Following(p) == IF p < N THEN Conf[p + 1] ELSE Null

AtConnect == \E p \in 0..N, m \in 0..N : Passed(m, p) /\ p < N /\ node = Conf[p + 1]
AtAnswer  == \E p \in 1..N, m \in 1..N : Passed(m, p) /\ node = Conf[p] /\ list[m] = node
AtFreed   == \E p \in 1..N, m \in 0..N :
                /\ Passed(m, p) /\ node = Conf[p]
                /\ \A i \in 1..Len(list) : list[i] # node
                /\ freed_next = Following(p)

\* The list at each place of main.
ListInv ==
    /\ size = Len(list)
    /\ Ordered
    /\ phase = "read" =>
          /\ Len(list) = line
          /\ \A k \in 1..line : list[k] = Conf[k]
          /\ \A r \in Repos : tried[r] = "no"
    /\ phase = "connect" => AtConnect
    /\ phase \in {"ask", "update"} => AtAnswer
    /\ phase = "next" => AtAnswer \/ AtFreed
    /\ phase = "serve" => \E m \in 0..N : Passed(m, N)

\* The client that has not asked yet, or what it has got.
ClientInv ==
    /\ phase \notin {"serve", "down"} => client = [runs |-> TRUE, list |-> << >>]
    /\ phase = "serve" => ClientKnowsList

\* The one record there can be.
OneRecord == <<[place |-> 1, blocks |-> << >>]>>
Settled   == database = IF reported = {} THEN << >> ELSE OneRecord

\* The database at each place of main, and in the loop over an answer.
DatabaseInv ==
    /\ phase = "read" => reported = {} /\ database = << >>
    /\ phase \in {"connect", "ask", "next", "serve"} => Settled
    /\ phase = "update" =>
          \/ reply = << >> /\ tok = 0 /\ ~inside /\ Settled
          \/ /\ reply # << >> /\ reported # {}
             /\ \/ tok = 0 /\ ~inside /\ database \in {<< >>, OneRecord}
                \/ tok = 1 /\ ~inside /\ database = OneRecord
                \/ tok = 2 /\ inside /\ database = OneRecord

StartupInv == TypeOK /\ ListInv /\ ClientInv /\ DatabaseInv

-------------------------------------------------------------------------------
LEMMA ConfFacts ==
    /\ N \in Nat
    /\ \A i \in 1..N : Conf[i] \in Repos
    /\ \A r \in Repos : \E i \in 1..N : r = Conf[i]
    /\ Null \notin Repos
    /\ \A i, j \in 1..N : Conf[i] = Conf[j] => i = j
  BY ConfAssumption DEF N, Repos

\* A client before it asks, and one that has read an empty list.
LEMMA EmptyClient == \A b \in BOOLEAN : [runs |-> b, list |-> << >>] \in Client
  <1>1. << >> \in Seq(Client_Node)
    BY EmptySeq
  <1> QED  BY <1>1 DEF Client

\* No repository is in an ordered list twice.
LEMMA OrderedOnce ==
    ASSUME Ordered, Len(list) \in Nat
    PROVE  \A i, j \in 1..Len(list) : list[i] = list[j] => i = j
  <1> SUFFICES ASSUME NEW i \in 1..Len(list), NEW j \in 1..Len(list), list[i] = list[j], i # j
               PROVE  FALSE
    OBVIOUS
  <1>1. \A k, l \in 1..Len(list) : k < l => list[k] # list[l]
    BY ConfFacts DEF Ordered
  <1>2. i < j \/ j < i
    OBVIOUS
  <1> QED  BY <1>1, <1>2

\* Where list and tried stay, so does what is said of them.
LEMMA ListFrame ==
    ASSUME list' = list, tried' = tried
    PROVE  /\ Ordered' = Ordered
           /\ \A m, p : Passed(m, p)' = Passed(m, p)
  BY DEF Ordered, Passed

LEMMA StartupInit == Init => StartupInv
  <1> SUFFICES ASSUME Init PROVE StartupInv
    OBVIOUS
  <1> USE DEF Init
  <1>1. TypeOK
    <2>1. list \in Seq(Repos) /\ database \in Seq(Grid_File)
      BY EmptySeq
    <2>2. 0 \in 0..Len(Conf) /\ tok \in 0..Len(reply)
      BY ConfFacts DEF N
    <2>3. client \in Client
      BY EmptyClient
    <2>4. tried \in [Repos -> {"no", "online", "offline"}]
      OBVIOUS
    <2> QED  BY <2>1, <2>2, <2>3, <2>4 DEF TypeOK, Phases
  <1>2. ListInv
    BY EmptySeq DEF ListInv, Ordered
  <1>3. ClientInv /\ DatabaseInv
    BY DEF ClientInv, DatabaseInv
  <1> QED  BY <1>1, <1>2, <1>3 DEF StartupInv

-------------------------------------------------------------------------------
LEMMA ReadLineStep ==
    ASSUME StartupInv, ReadLine
    PROVE  StartupInv'
  <1> USE DEF StartupInv, ReadLine, answer
  <1>1. line + 1 \in 1..N /\ list \in Seq(Repos) /\ Conf[line + 1] \in Repos /\ line \in Nat
        /\ Len(list) = line /\ size = Len(list)
    BY ConfFacts DEF TypeOK, N, ListInv
  <1>2. /\ list' \in Seq(Repos) /\ Len(list') = line + 1
        /\ list'[line + 1] = Conf[line + 1]
        /\ \A k \in 1..line : list'[k] = list[k]
    BY <1>1
  <1>3. TypeOK'
    BY <1>1, <1>2 DEF TypeOK, N
  <1>4. \A k \in 1..(line + 1) : list'[k] = Conf[k]
    BY <1>1, <1>2 DEF ListInv
  <1>5. Ordered'
    BY <1>1, <1>2, <1>4 DEF Ordered, N
  <1>6. ListInv'
    BY <1>1, <1>2, <1>4, <1>5 DEF ListInv
  <1>7. ClientInv' /\ DatabaseInv'
    BY DEF ClientInv, DatabaseInv
  <1> QED  BY <1>3, <1>6, <1>7

\* The loop goes on to the node after place p.
LEMMA GoOnStep ==
    ASSUME ListInv, list \in Seq(Repos), NEW p \in 0..N, NEW m \in 0..N, Passed(m, p),
           GoOn(Following(p)), UNCHANGED <<list, size, tried>>
    PROVE  ListInv' /\ phase' \in {"connect", "serve"} /\ node' \in Repos \cup {Null}
  <1>1. CASE p < N
    <2>1. node' = Conf[p + 1] /\ phase' = "connect" /\ Conf[p + 1] \in Repos
      BY <1>1, ConfFacts DEF GoOn, Following
    <2>2. AtConnect'
      BY <1>1, <2>1, ListFrame DEF AtConnect
    <2> QED  BY <2>1, <2>2, ListFrame DEF ListInv
  <1>2. CASE ~(p < N)
    <2>1. p = N /\ node' = Null /\ phase' = "serve"
      BY <1>2, ConfFacts DEF GoOn, Following
    <2>2. \E k \in 0..N : Passed(k, N)'
      BY <2>1, ListFrame
    <2> QED  BY <2>1, <2>2, ListFrame DEF ListInv
  <1> QED  BY <1>1, <1>2

\* What follows a node in the list follows it in rep.conf.
LEMMA AfterNode ==
    ASSUME list \in Seq(Repos), NEW p \in 0..N, NEW m \in 0..N, Passed(m, p), m > 0
    PROVE  After(list, m) = Following(p) /\ m \in 1..Len(list)
  BY ConfFacts DEF Passed, After, Following

LEMMA EndOfConfStep ==
    ASSUME StartupInv, EndOfConf
    PROVE  StartupInv'
  <1> USE DEF StartupInv, EndOfConf, answer
  <1>1. Len(list) = N /\ (\A k \in 1..N : list[k] = Conf[k]) /\ list \in Seq(Repos)
        /\ \A r \in Repos : tried[r] = "no"
    BY DEF TypeOK, N, ListInv
  <1>2. Passed(0, 0)
    BY <1>1, ConfFacts DEF Passed
  <1>3. Head_of(list) = Following(0)
    BY <1>1, ConfFacts DEF Head_of, Following
  <1>4. ListInv' /\ phase' \in {"connect", "serve"} /\ node' \in Repos \cup {Null}
    BY <1>1, <1>2, <1>3, ConfFacts, GoOnStep
  <1>5. TypeOK'
    BY <1>4 DEF TypeOK, Phases
  <1>6. ClientInv' /\ DatabaseInv'
    BY <1>4 DEF ClientInv, ClientKnowsList, DatabaseInv, Settled
  <1> QED  BY <1>4, <1>5, <1>6

LEMMA NextNodeStep ==
    ASSUME StartupInv, NextNode
    PROVE  StartupInv'
  <1> USE DEF StartupInv, NextNode, answer
  <1>1. list \in Seq(Repos) /\ Ordered /\ Len(list) \in Nat
    BY DEF TypeOK, ListInv
  <1>2. \E p \in 0..N, m \in 0..N : Passed(m, p) /\ GoOn(Following(p))
    <2>1. CASE AtAnswer
      <3>1. PICK p \in 1..N, m \in 1..N : Passed(m, p) /\ node = Conf[p] /\ list[m] = node
        BY <2>1 DEF AtAnswer
      <3>2. After(list, m) = Following(p) /\ m \in 1..Len(list)
        BY <1>1, <3>1, ConfFacts, AfterNode
      <3>3. GoOn(After(list, m))
        BY <1>1, <3>1, <3>2, OrderedOnce
      <3> QED  BY <3>1, <3>2, <3>3, ConfFacts
    <2>2. CASE AtFreed
      <3>1. PICK p \in 1..N, m \in 0..N :
                /\ Passed(m, p) /\ node = Conf[p]
                /\ \A i \in 1..Len(list) : list[i] # node
                /\ freed_next = Following(p)
        BY <2>2 DEF AtFreed
      <3>2. GoOn(freed_next)
        BY <3>1 DEF freed_pointer
      <3> QED  BY <3>1, <3>2, ConfFacts
    <2> QED  BY <2>1, <2>2 DEF ListInv
  <1>3. ListInv' /\ phase' \in {"connect", "serve"} /\ node' \in Repos \cup {Null}
    BY <1>1, <1>2, GoOnStep
  <1>4. TypeOK'
    BY <1>3 DEF TypeOK, Phases
  <1>5. ClientInv' /\ DatabaseInv'
    BY <1>3 DEF ClientInv, ClientKnowsList, DatabaseInv, Settled
  <1> QED  BY <1>3, <1>4, <1>5

-------------------------------------------------------------------------------
LEMMA OnlineStep ==
    ASSUME StartupInv, Online
    PROVE  StartupInv'
  <1> USE DEF StartupInv, Online, answer
  <1>1. PICK p \in 0..N, m \in 0..N : Passed(m, p) /\ p < N /\ node = Conf[p + 1]
    BY DEF ListInv, AtConnect
  <1>2. list \in Seq(Repos) /\ node \in Repos /\ tried \in [Repos -> {"no", "online", "offline"}]
    BY <1>1, ConfFacts DEF TypeOK
  <1>3. tried'[node] = "online" /\ \A r \in Repos : r # node => tried'[r] = tried[r]
    BY <1>2
  <1>4. m + 1 \in 1..N /\ p + 1 \in 1..N /\ list[m + 1] = node
    <2>1. N \in Nat /\ m \in 0..p /\ 1 \in 1..(N - p)
      BY <1>1, ConfFacts DEF Passed
    <2>2. list[m + 1] = Conf[p + 1]
      BY <1>1, <2>1 DEF Passed
    <2> QED  BY <1>1, <2>1, <2>2
  <1>5. Passed(m + 1, p + 1)'
    <2>1. \A a \in 1..N : a # p + 1 => Conf[a] # node /\ tried'[Conf[a]] = tried[Conf[a]]
      BY <1>1, <1>3, <1>4, ConfFacts
    <2>2. \A k \in 1..(m + 1) : \E a \in 1..(p + 1) : list[k] = Conf[a]
      <3> SUFFICES ASSUME NEW k \in 1..(m + 1) PROVE \E a \in 1..(p + 1) : list[k] = Conf[a]
        OBVIOUS
      <3>1. CASE k = m + 1
        <4>1. p + 1 \in 1..(p + 1) /\ list[k] = Conf[p + 1]
          BY <1>1, <1>4, <3>1
        <4> QED  BY <4>1
      <3>2. CASE k # m + 1
        <4>1. k \in 1..m
          BY <3>2
        <4>2. PICK a \in 1..p : list[k] = Conf[a]
          BY <1>1, <4>1 DEF Passed
        <4>3. a \in 1..(p + 1)
          OBVIOUS
        <4> QED  BY <4>2, <4>3
      <3> QED  BY <3>1, <3>2
    <2>3. \A k \in 1..(m + 1) : tried'[list[k]] = "online"
      <3> SUFFICES ASSUME NEW k \in 1..(m + 1) PROVE tried'[list[k]] = "online"
        OBVIOUS
      <3>1. CASE k = m + 1
        BY <3>1, <1>3, <1>4
      <3>2. CASE k \in 1..m
        <4>1. PICK a \in 1..p : list[k] = Conf[a]
          BY <1>1, <3>2 DEF Passed
        <4> QED  BY <1>1, <2>1, <3>2, <4>1, ConfFacts DEF Passed
      <3> QED  BY <1>4, <3>1, <3>2, ConfFacts
    <2>4. \A a \in 1..(p + 1) : \/ tried'[Conf[a]] = "offline"
                                \/ tried'[Conf[a]] = "online" /\ \E k \in 1..(m + 1) : list[k] = Conf[a]
      <3> SUFFICES ASSUME NEW a \in 1..(p + 1), tried'[Conf[a]] # "offline"
                   PROVE  tried'[Conf[a]] = "online" /\ \E k \in 1..(m + 1) : list[k] = Conf[a]
        OBVIOUS
      <3>1. CASE a = p + 1
        BY <1>1, <1>3, <1>4, <3>1
      <3>2. CASE a \in 1..p
        <4>1. tried'[Conf[a]] = tried[Conf[a]]
          BY <1>1, <2>1, <3>2, ConfFacts
        <4>2. tried[Conf[a]] = "online" /\ \E k \in 1..m : list[k] = Conf[a]
          BY <1>1, <3>2, <4>1 DEF Passed
        <4> QED  BY <4>1, <4>2, <1>1, ConfFacts
      <3> QED  BY <1>1, <3>1, <3>2, ConfFacts
    <2>5. \A a \in ((p + 1) + 1)..N : tried'[Conf[a]] = "no"
      BY <1>1, <2>1, ConfFacts DEF Passed
    <2>6. m + 1 \in 0..(p + 1) /\ Len(list) = (m + 1) + (N - (p + 1))
      BY <1>1, <1>4, ConfFacts DEF Passed
    <2>7. \A k \in 1..(N - (p + 1)) : list[(m + 1) + k] = Conf[(p + 1) + k]
      <3> SUFFICES ASSUME NEW k \in 1..(N - (p + 1)) PROVE list[(m + 1) + k] = Conf[(p + 1) + k]
        OBVIOUS
      <3>1. k + 1 \in 1..(N - p) /\ m + (k + 1) = (m + 1) + k /\ p + (k + 1) = (p + 1) + k
        BY <1>1, ConfFacts
      <3>2. list[m + (k + 1)] = Conf[p + (k + 1)]
        BY <1>1, <3>1 DEF Passed
      <3> QED  BY <3>1, <3>2
    <2> QED
      <3>1. list' = list /\ p + 1 \in 0..N
        BY <1>4, ConfFacts
      <3> DEFINE m1 == m + 1
                 p1 == p + 1
      <3>2. /\ m1 \in 0..p1 /\ Len(list') = m1 + (N - p1)
            /\ \A k \in 1..(N - p1) : list'[m1 + k] = Conf[p1 + k]
            /\ \A k \in 1..m1 : \E a \in 1..p1 : list'[k] = Conf[a]
            /\ \A k \in 1..m1 : tried'[list'[k]] = "online"
            /\ \A a \in (p1 + 1)..N : tried'[Conf[a]] = "no"
        BY <2>2, <2>3, <2>5, <2>6, <2>7, <3>1
      <3>3. \A a \in 1..p1 : tried'[Conf[a]] # "offline" =>
              tried'[Conf[a]] = "online" /\ \E k \in 1..m1 : list'[k] = Conf[a]
        BY <2>4, <3>1
      <3>4. p1 \in 0..N
        BY <3>1
      <3> HIDE DEF m1, p1
      <3>5. Passed(m1, p1)'
        BY <3>2, <3>3, <3>4 DEF Passed
      <3> QED  BY <3>5 DEF m1, p1
  <1>6. AtAnswer'
    BY <1>1, <1>4, <1>5 DEF AtAnswer
  <1>7. TypeOK'
    BY <1>2 DEF TypeOK, Phases
  <1>8. ListInv'
    BY <1>6 DEF ListInv, Ordered
  <1>9. ClientInv' /\ DatabaseInv'
    BY DEF ClientInv, DatabaseInv, Settled
  <1> QED  BY <1>7, <1>8, <1>9

LEMMA WithoutFacts ==
    ASSUME NEW S, NEW l \in Seq(S), NEW i \in 1..Len(l)
    PROVE  LET w == Without(l, i)
           IN  /\ w \in Seq(S) /\ Len(w) = Len(l) - 1 /\ Len(l) \in Nat
               /\ \A k \in 1..Len(w) : w[k] = IF k < i THEN l[k] ELSE l[k + 1]
  <1> DEFINE w == Without(l, i)
  <1>1. Len(l) \in Nat /\ Len(l) - 1 \in Nat
    OBVIOUS
  <1>2. w \in [1..Len(l) - 1 -> S]
    <2>1. \A k \in 1..Len(l) - 1 : l[k] \in S /\ l[k + 1] \in S
      BY <1>1
    <2> QED  BY <2>1 DEF Without
  <1>3. w \in Seq(S) /\ Len(w) = Len(l) - 1
    BY <1>1, <1>2
  <1> QED  BY <1>1, <1>3 DEF Without

LEMMA OfflineStep ==
    ASSUME StartupInv, Offline
    PROVE  StartupInv'
  <1> USE DEF StartupInv, Offline, answer
  <1>1. PICK p \in 0..N, m \in 0..N : Passed(m, p) /\ p < N /\ node = Conf[p + 1]
    BY DEF ListInv, AtConnect
  <1>2. list \in Seq(Repos) /\ node \in Repos /\ tried \in [Repos -> {"no", "online", "offline"}]
        /\ Ordered /\ size = Len(list) /\ Len(list) \in Nat
    BY <1>1, ConfFacts DEF TypeOK, ListInv
  <1>3. tried'[node] = "offline" /\ \A r \in Repos : r # node => tried'[r] = tried[r]
    BY <1>2
  <1>4. /\ m + 1 \in 1..N /\ p + 1 \in 1..N /\ m + 1 \in 1..Len(list) /\ list[m + 1] = node
        /\ Len(list) = m + (N - p) /\ m <= p
    <2>1. N \in Nat /\ m \in 0..p /\ Len(list) = m + (N - p)
      BY <1>1, ConfFacts DEF Passed
    <2>2. 1 \in 1..(N - p) /\ m + 1 \in 1..N /\ p + 1 \in 1..N /\ m + 1 \in 1..Len(list)
      BY <1>1, <2>1
    <2>3. list[m + 1] = Conf[p + 1]
      BY <1>1, <2>2 DEF Passed
    <2> QED  BY <1>1, <2>1, <2>2, <2>3
  <1>5. delete_node(m + 1)
    BY <1>2, <1>4, OrderedOnce
  <1>6. /\ list' \in Seq(Repos) /\ Len(list') = Len(list) - 1 /\ size' = size - 1
        /\ \A k \in 1..Len(list') : list'[k] = IF k < m + 1 THEN list[k] ELSE list[k + 1]
        /\ freed_next' = After(list, m + 1)
    BY <1>2, <1>4, <1>5, WithoutFacts DEF delete_node
  <1>7. freed_next' = Following(p + 1)
    <2>1. CASE p + 1 < N
      <3>1. 2 \in 1..(N - p) /\ m + 2 = m + 1 + 1 /\ p + 2 = p + 1 + 1 /\ m + 1 < Len(list)
        BY <1>4, <2>1, ConfFacts
      <3> QED  BY <1>1, <1>6, <2>1, <3>1 DEF Passed, After, Following
    <2>2. CASE ~(p + 1 < N)
      <3>1. ~(m + 1 < Len(list))
        BY <1>4, <2>2, ConfFacts
      <3> QED  BY <1>6, <2>2, <3>1 DEF After, Following
    <2> QED  BY <2>1, <2>2
  <1>8. \A k \in 1..Len(list') : list'[k] # node
    <2> SUFFICES ASSUME NEW k \in 1..Len(list'), list'[k] = node PROVE FALSE
      OBVIOUS
    <2>1. CASE k < m + 1
      <3>1. k \in 1..Len(list) /\ list[k] = list[m + 1]
        BY <1>2, <1>4, <1>6, <2>1
      <3> QED  BY <1>2, <1>4, <2>1, <3>1, OrderedOnce
    <2>2. CASE ~(k < m + 1)
      <3>1. k + 1 \in 1..Len(list) /\ list[k + 1] = list[m + 1]
        BY <1>2, <1>4, <1>6, <2>2
      <3>2. k + 1 = m + 1
        BY <1>2, <1>4, <3>1, OrderedOnce
      <3> QED  BY <1>4, <2>2, <3>2
    <2> QED  BY <2>1, <2>2
  <1>9. Passed(m, p + 1)'
    <2>1. \A a \in 1..N : a # p + 1 => Conf[a] # node /\ tried'[Conf[a]] = tried[Conf[a]]
      BY <1>1, <1>3, <1>4, ConfFacts
    <2>2. \A k \in 1..m : list'[k] = list[k]
      BY <1>2, <1>4, <1>6
    <2>3. \A k \in 1..m : \E a \in 1..p : list[k] = Conf[a] /\ tried'[list[k]] = "online"
      <3> SUFFICES ASSUME NEW k \in 1..m
                   PROVE  \E a \in 1..p : list[k] = Conf[a] /\ tried'[list[k]] = "online"
        OBVIOUS
      <3>1. PICK a \in 1..p : list[k] = Conf[a]
        BY <1>1 DEF Passed
      <3>2. a \in 1..N /\ a # p + 1
        BY <1>1, ConfFacts
      <3>3. tried'[list[k]] = tried[list[k]] /\ tried[list[k]] = "online"
        BY <1>1, <2>1, <3>1, <3>2 DEF Passed
      <3> QED  BY <3>1, <3>3
    <2>4. \A a \in 1..(p + 1) : \/ tried'[Conf[a]] = "offline"
                                \/ tried'[Conf[a]] = "online" /\ \E k \in 1..m : list'[k] = Conf[a]
      <3> SUFFICES ASSUME NEW a \in 1..(p + 1), tried'[Conf[a]] # "offline"
                   PROVE  tried'[Conf[a]] = "online" /\ \E k \in 1..m : list'[k] = Conf[a]
        OBVIOUS
      <3>1. a # p + 1
        BY <1>1, <1>3
      <3>2. a \in 1..p /\ a \in 1..N
        BY <1>1, <3>1, ConfFacts
      <3>3. tried'[Conf[a]] = tried[Conf[a]]
        BY <2>1, <3>1, <3>2
      <3>4. tried[Conf[a]] = "online" /\ \E k \in 1..m : list[k] = Conf[a]
        BY <1>1, <3>2, <3>3 DEF Passed
      <3> QED  BY <2>2, <3>3, <3>4
    <2>5. \A a \in ((p + 1) + 1)..N : tried'[Conf[a]] = "no"
      BY <1>1, <2>1, ConfFacts DEF Passed
    <2>6. m \in 0..(p + 1) /\ Len(list') = m + (N - (p + 1))
      <3>1. N \in Nat /\ Len(list') = (m + (N - p)) - 1
        BY <1>4, <1>6, ConfFacts
      <3> QED  BY <1>1, <1>4, <3>1
    <2>7. \A k \in 1..(N - (p + 1)) : list'[m + k] = Conf[(p + 1) + k]
      <3> SUFFICES ASSUME NEW k \in 1..(N - (p + 1)) PROVE list'[m + k] = Conf[(p + 1) + k]
        OBVIOUS
      <3>1. k + 1 \in 1..(N - p) /\ m + (k + 1) = m + k + 1 /\ p + (k + 1) = (p + 1) + k
        BY <1>1, ConfFacts
      <3>2. list[m + (k + 1)] = Conf[p + (k + 1)]
        BY <1>1, <3>1 DEF Passed
      <3>3. m + k \in 1..Len(list') /\ ~(m + k < m + 1)
        BY <1>1, <2>6, ConfFacts
      <3>4. list'[m + k] = list[m + k + 1]
        BY <1>6, <3>3
      <3> QED  BY <3>1, <3>2, <3>4
    <2>8. p + 1 \in 0..N
      BY <1>4, ConfFacts
    <2>9. \A k \in 1..m : (\E a \in 1..(p + 1) : list'[k] = Conf[a]) /\ tried'[list'[k]] = "online"
      <3> SUFFICES ASSUME NEW k \in 1..m
                   PROVE  (\E a \in 1..(p + 1) : list'[k] = Conf[a]) /\ tried'[list'[k]] = "online"
        OBVIOUS
      <3>1. PICK a \in 1..p : list[k] = Conf[a] /\ tried'[list[k]] = "online"
        BY <2>3
      <3>2. a \in 1..(p + 1) /\ list'[k] = list[k]
        BY <1>1, <2>2
      <3> QED  BY <3>1, <3>2
    <2> DEFINE p1 == p + 1
    <2>10. /\ p1 \in 0..N /\ m \in 0..p1 /\ Len(list') = m + (N - p1)
           /\ \A k \in 1..(N - p1) : list'[m + k] = Conf[p1 + k]
           /\ \A k \in 1..m : \E a \in 1..p1 : list'[k] = Conf[a]
           /\ \A k \in 1..m : tried'[list'[k]] = "online"
           /\ \A a \in (p1 + 1)..N : tried'[Conf[a]] = "no"
      BY <2>5, <2>6, <2>7, <2>8, <2>9
    <2>11. \A a \in 1..p1 : tried'[Conf[a]] # "offline" =>
              tried'[Conf[a]] = "online" /\ \E k \in 1..m : list'[k] = Conf[a]
      BY <2>4
    <2> HIDE DEF p1
    <2>12. Passed(m, p1)'
      BY <2>10, <2>11 DEF Passed
    <2> QED  BY <2>12 DEF p1
  <1>10. AtFreed'
    BY <1>1, <1>4, <1>7, <1>8, <1>9 DEF AtFreed, Following
  <1>11. Ordered'
    <2> SUFFICES ASSUME NEW i \in 1..Len(list'), NEW j \in 1..Len(list'), i < j
                 PROVE  \E a, b \in 1..N : a < b /\ list'[i] = Conf[a] /\ list'[j] = Conf[b]
      BY DEF Ordered
    <2> DEFINE Old(k) == IF k < m + 1 THEN k ELSE k + 1
    <2>1. /\ Old(i) \in 1..Len(list) /\ Old(j) \in 1..Len(list) /\ Old(i) < Old(j)
          /\ list'[i] = list[Old(i)] /\ list'[j] = list[Old(j)]
      BY <1>2, <1>4, <1>6
    <2> HIDE DEF Old
    <2> QED  BY <1>2, <2>1 DEF Ordered
  <1>12. TypeOK'
    <2>1. freed_next' \in Repos \cup {Null}
      BY <1>4, <1>7, ConfFacts DEF Following
    <2>2. size' \in Nat
      BY <1>2, <1>4, <1>6
    <2>3. tried' \in [Repos -> {"no", "online", "offline"}]
      BY <1>2
    <2> QED  BY <1>6, <2>1, <2>2, <2>3 DEF TypeOK, Phases
  <1>13. ListInv'
    BY <1>2, <1>6, <1>10, <1>11 DEF ListInv
  <1>14. ClientInv' /\ DatabaseInv'
    BY DEF ClientInv, DatabaseInv, Settled
  <1> QED  BY <1>12, <1>13, <1>14

-------------------------------------------------------------------------------
\* The steps that leave the list alone.
LEMMA AnswerListStep ==
    ASSUME StartupInv, UNCHANGED nodes, line' = line,
           \/ phase \in {"ask", "update"} /\ phase' \in {"ask", "update", "next"}
           \/ phase' = "down"
    PROVE  ListInv'
  <1> USE DEF StartupInv, nodes
  <1>1. AtAnswer => AtAnswer'
    BY ListFrame DEF AtAnswer
  <1> QED  BY <1>1, ListFrame DEF ListInv

LEMMA AskStep ==
    ASSUME StartupInv, Answered \/ NotAnswered
    PROVE  StartupInv'
  <1> USE DEF StartupInv
  <1>1. CASE Answered
    <2>1. ListInv'
      BY <1>1, AnswerListStep DEF Answered
    <2>2. reported' \in SUBSET Repos
      <3>1. node \in Repos
        BY <1>1, ConfFacts DEF Answered, ListInv, AtAnswer
      <3> QED  BY <1>1, <3>1 DEF Answered, TypeOK
    <2>3. Len(reply') \in Nat
      BY <1>1, ConfAssumption DEF Answered
    <2>4. TypeOK'
      <3>1. UNCHANGED <<line, list, size, node, freed_next, tried, database, client>>
            /\ reply' \in Answers \cup {<< >>} /\ inside' = FALSE /\ phase' = "update"
        BY <1>1 DEF Answered, nodes
      <3>2. tok' \in 0..Len(reply')
        BY <1>1, <2>3 DEF Answered
      <3> QED  BY <2>2, <3>1, <3>2 DEF TypeOK, Phases
    <2>5. ClientInv' /\ DatabaseInv'
      BY <1>1 DEF Answered, ClientInv, DatabaseInv, Settled
    <2> QED  BY <2>1, <2>4, <2>5
  <1>2. CASE NotAnswered
    <2>1. ListInv'
      BY <1>2, AnswerListStep DEF NotAnswered
    <2>2. TypeOK'
      BY <1>2 DEF NotAnswered, TypeOK, Phases, nodes, answer
    <2>3. ClientInv' /\ DatabaseInv'
      BY <1>2 DEF NotAnswered, ClientInv, DatabaseInv, Settled, answer
    <2> QED  BY <2>1, <2>2, <2>3
  <1> QED  BY <1>1, <1>2

LEMMA RoundStep ==
    ASSUME StartupInv, RoundFile \/ RoundBlock \/ RoundNoFile \/ EndOfAnswer
    PROVE  StartupInv'
  <1> USE DEF StartupInv
  <1>1. ListInv'
    BY AnswerListStep DEF RoundFile, RoundBlock, RoundNoFile, EndOfAnswer, Round, nodes
  <1>2. phase = "update" /\ Len(reply) \in Nat /\ tok \in Nat
    BY ConfAssumption DEF RoundFile, RoundBlock, RoundNoFile, EndOfAnswer, Round, TypeOK
  <1>3. reply # << >> => /\ reply \in Seq(Token) /\ Len(reply) >= 2
                         /\ reply[1].kind = "F" /\ reply[2].kind = "B"
    BY ConfAssumption DEF TypeOK
  <1>4. CASE RoundFile
    <2>1. /\ tok < Len(reply) /\ ~inside /\ reply[tok + 1].kind = "F" /\ tok' = tok + 1
          /\ UNCHANGED <<phase, line, nodes, reply, inside, reported, client>>
          /\ database' = IF Found(reply[tok + 1].file) # {} THEN database
                         ELSE Append(database, [place |-> tok + 1, blocks |-> << >>])
      BY <1>4 DEF RoundFile, Round
    <2>2. tok = 0 /\ reply # << >> /\ reported # {} /\ database \in {<< >>, OneRecord}
      BY <1>2, <1>3, <2>1 DEF DatabaseInv
    <2>3. database' = OneRecord
      <3>1. CASE database = << >>
        <4>1. Found(reply[tok + 1].file) = {}
          BY <3>1 DEF Found
        <4> QED  BY <2>1, <2>2, <3>1, <4>1 DEF OneRecord
      <3>2. CASE database = OneRecord
        <4>1. database[1].place = 1 /\ Len(database) = 1
          BY <3>2 DEF OneRecord
        <4>2. reply[1] = [kind |-> "F", file |-> reply[1].file]
          <5>1. reply[1] \in Token /\ reply[1].kind = "F"
            BY <1>3, <2>2
          <5> QED  BY <5>1 DEF Token
        <4>3. 1 \in Found(reply[tok + 1].file)
          BY <2>2, <4>1, <4>2 DEF Found, Reads
        <4> QED  BY <2>1, <3>2, <4>3
      <3> QED  BY <2>2, <3>1, <3>2
    <2>4. OneRecord \in Seq(Grid_File)
      BY EmptySeq DEF OneRecord, Grid_File
    <2>5. TypeOK'
      BY <1>2, <2>1, <2>3, <2>4 DEF TypeOK, nodes
    <2>6. ClientInv' /\ DatabaseInv'
      BY <1>2, <2>1, <2>2, <2>3 DEF ClientInv, DatabaseInv
    <2> QED  BY <1>1, <2>5, <2>6
  <1>5. CASE RoundBlock
    <2>1. /\ tok < Len(reply) /\ ~inside /\ reply[tok + 1].kind = "B" /\ tok' = tok + 1
          /\ UNCHANGED <<phase, line, nodes, reply, reported, client>>
          /\ database' = database /\ inside' = TRUE
      BY <1>5 DEF RoundBlock, Round, append_block, strtok_moves
    <2>2. tok = 1 /\ reply # << >> /\ reported # {} /\ database = OneRecord
      BY <1>2, <1>3, <2>1 DEF DatabaseInv
    <2>3. TypeOK'
      BY <1>2, <2>1 DEF TypeOK, nodes
    <2>4. ClientInv' /\ DatabaseInv'
      BY <1>2, <2>1, <2>2 DEF ClientInv, DatabaseInv
    <2> QED  BY <1>1, <2>3, <2>4
  <1>6. CASE RoundNoFile
    <2>1. TypeOK'
      BY <1>2, <1>6 DEF RoundNoFile, Round, TypeOK, Phases, nodes
    <2>2. ClientInv' /\ DatabaseInv'
      BY <1>6 DEF RoundNoFile, ClientInv, DatabaseInv
    <2> QED  BY <1>1, <2>1, <2>2
  <1>7. CASE EndOfAnswer
    <2>1. Settled
      BY <1>2, <1>3, <1>7 DEF EndOfAnswer, DatabaseInv, Settled
    <2>2. TypeOK'
      <3>1. UNCHANGED <<line, list, size, node, freed_next, tried, reported, database, client>>
            /\ reply' = << >> /\ inside' = FALSE /\ phase' = "next" /\ tok' = 0
        BY <1>7 DEF EndOfAnswer, nodes
      <3>2. tok' \in 0..Len(reply')
        BY <3>1
      <3> QED  BY <3>1, <3>2 DEF TypeOK, Phases
    <2>3. ClientInv' /\ DatabaseInv'
      BY <1>2, <1>7, <2>1 DEF EndOfAnswer, ClientInv, DatabaseInv, Settled
    <2> QED  BY <1>1, <2>2, <2>3
  <1> QED  BY <1>4, <1>5, <1>6, <1>7

\* The client reads the list back as the server has it.
LEMMA ClientReads ==
    ASSUME NEW l \in Seq(Repos)
    PROVE  LET c == get_data_repositories(list_to_string(l))
           IN  /\ c \in Client
               /\ IF l = << >> THEN ~c.runs
                  ELSE /\ c.runs /\ Len(c.list) = Len(l)
                       /\ \A i \in 1..Len(l) : c.list[i] = [id |-> l[i], ip |-> l[i], port |-> l[i]]
  <1> DEFINE s == list_to_string(l)
             c == get_data_repositories(s)
             n == Len(l)
  <1>1. CASE l = << >>
    <2>1. Len(s) = 1
      BY <1>1 DEF list_to_string
    <2>2. Len(s) % 3 # 0
      BY <2>1
    <2>3. c = [runs |-> FALSE, list |-> << >>]
      BY <2>2 DEF get_data_repositories
    <2>4. c \in Client /\ ~c.runs
      <3> HIDE DEF c
      <3> QED  BY <2>3, EmptyClient
    <2> QED  BY <1>1, <2>4
  <1>2. CASE l # << >>
    <2>1. n \in Nat /\ 3 * n \in Nat /\ s = [k \in 1..3 * n |-> l[(k + 2) \div 3]]
      BY <1>2 DEF list_to_string
    <2>2. \A k \in 1..3 * n : (k + 2) \div 3 \in 1..n
      BY <2>1
    <2>3. s \in Seq(Repos) /\ Len(s) = 3 * n
      <3>1. s \in [1..3 * n -> Repos]
        BY <2>1, <2>2
      <3> QED  BY <2>1, <3>1
    <2>4. Len(s) % 3 = 0 /\ Len(s) \div 3 = n
      BY <2>1, <2>3
    <2>5. c = [runs |-> TRUE,
               list |-> [i \in 1..n |->
                           [id |-> s[3 * i - 2], ip |-> s[3 * i - 1], port |-> s[3 * i]]]]
      BY <2>4 DEF get_data_repositories
    <2>6. \A i \in 1..n : s[3 * i - 2] = l[i] /\ s[3 * i - 1] = l[i] /\ s[3 * i] = l[i]
      <3> SUFFICES ASSUME NEW i \in 1..n
                   PROVE  s[3 * i - 2] = l[i] /\ s[3 * i - 1] = l[i] /\ s[3 * i] = l[i]
        OBVIOUS
      <3>1. 3 * i - 2 \in 1..3 * n /\ 3 * i - 1 \in 1..3 * n /\ 3 * i \in 1..3 * n
        BY <2>1
      <3>2. (3 * i - 2 + 2) \div 3 = i /\ (3 * i - 1 + 2) \div 3 = i /\ (3 * i + 2) \div 3 = i
        BY <2>1
      <3> HIDE DEF s, n
      <3> QED  BY <2>1, <3>1, <3>2
    <2>7. c.runs /\ c.list = [i \in 1..n |-> [id |-> l[i], ip |-> l[i], port |-> l[i]]]
      BY <2>5, <2>6
    <2>8. c.list \in Seq(Client_Node) /\ Len(c.list) = n
      <3>1. \A i \in 1..n : l[i] \in Repos
        OBVIOUS
      <3>2. c.list \in [1..n -> Client_Node]
        BY <2>7, <3>1 DEF Client_Node
      <3>3. \A f \in [1..n -> Client_Node] : f \in Seq(Client_Node) /\ Len(f) = n
        BY <2>1
      <3> QED  BY <3>2, <3>3
    <2>9. c \in Client
      BY <2>5, <2>7, <2>8 DEF Client
    <2> QED  BY <1>2, <2>7, <2>8, <2>9
  <1> QED  BY <1>1, <1>2

LEMMA ServeStep ==
    ASSUME StartupInv, GetDr \/ Halt
    PROVE  StartupInv'
  <1> USE DEF StartupInv, nodes, answer
  <1>1. CASE GetDr
    <2>1. /\ phase = "serve" /\ phase' = phase /\ list' = list /\ list \in Seq(Repos)
          /\ UNCHANGED <<line, nodes, answer>>
          /\ client' = get_data_repositories(list_to_string(list))
      BY <1>1 DEF GetDr, TypeOK
    <2>2. TypeOK'
      BY <2>1, ClientReads DEF TypeOK
    <2>3. ListInv'
      BY <2>1, ListFrame DEF ListInv
    <2>4. ClientKnowsList'
      BY <2>1, ClientReads DEF ClientKnowsList
    <2>5. ClientInv' /\ DatabaseInv'
      BY <2>1, <2>4 DEF ClientInv, DatabaseInv, Settled
    <2> QED  BY <2>2, <2>3, <2>5
  <1>2. CASE Halt
    <2>1. ListInv'
      BY <1>2, AnswerListStep DEF Halt
    <2>2. TypeOK'
      BY <1>2 DEF Halt, TypeOK, Phases
    <2>3. ClientInv' /\ DatabaseInv'
      BY <1>2 DEF Halt, ClientInv, DatabaseInv
    <2> QED  BY <2>1, <2>2, <2>3
  <1> QED  BY <1>1, <1>2

LEMMA StutterStep ==
    ASSUME StartupInv, UNCHANGED vars
    PROVE  StartupInv'
  <1> USE DEF StartupInv, vars, nodes, answer
  <1>1. TypeOK'
    BY DEF TypeOK
  <1>2. ListInv'
    <2>1. (AtConnect => AtConnect') /\ (AtAnswer => AtAnswer') /\ (AtFreed => AtFreed')
      BY ListFrame DEF AtConnect, AtAnswer, AtFreed
    <2> QED  BY <2>1, ListFrame DEF ListInv
  <1>3. ClientInv' /\ DatabaseInv'
    BY DEF ClientInv, ClientKnowsList, DatabaseInv, Settled
  <1> QED  BY <1>1, <1>2, <1>3

\* The inductive invariant holds in every state of the start-up.
THEOREM StartupInductive == Spec => []StartupInv
  <1>1. StartupInv /\ [Next]_vars => StartupInv'
    BY ReadLineStep, EndOfConfStep, NextNodeStep, OnlineStep, OfflineStep, AskStep, RoundStep,
       ServeStep, StutterStep DEF Next, Main
  <1> QED  BY StartupInit, <1>1, PTL DEF Spec

\* Every variable of the start-up keeps its type.
THEOREM StartupTyping == Spec => []TypeOK
  <1>1. StartupInv => TypeOK
    BY DEF StartupInv
  <1> QED  BY StartupInductive, <1>1, PTL

\* The list the server serves with is who is online, and clients get that list.
THEOREM OnlineList == Spec => []ListIsOnline
  <1>1. StartupInv => ListIsOnline
    <2> SUFFICES ASSUME StartupInv, phase = "serve" PROVE ListIsOnline
      BY DEF ListIsOnline
    <2>1. PICK m \in 0..N : Passed(m, N)
      BY DEF StartupInv, ListInv
    <2>2. Len(list) = m
      BY <2>1, ConfFacts DEF Passed
    <2>3. \A r \in Repos : tried[r] # "no" /\ (tried[r] = "online" => r \in InList)
      <3> SUFFICES ASSUME NEW r \in Repos
                   PROVE  tried[r] # "no" /\ (tried[r] = "online" => r \in InList)
        OBVIOUS
      <3>1. PICK a \in 1..N : r = Conf[a]
        BY ConfFacts
      <3>2. tried[r] = "offline" \/ (tried[r] = "online" /\ \E k \in 1..Len(list) : list[k] = r)
        BY <2>1, <2>2, <3>1 DEF Passed
      <3> QED  BY <3>2 DEF InList
    <2>4. \A r \in InList : r \in Repos /\ tried[r] = "online"
      BY <2>1, <2>2, ConfFacts DEF Passed, InList
    <2> QED  BY <2>3, <2>4 DEF ListIsOnline, StartupInv, ListInv, ClientInv, Ordered, N
  <1> QED  BY StartupInductive, <1>1, PTL

\* Whatever the repositories report, the server registers one file without blocks.
THEOREM OneFile == Spec => []OneFileKnown
  <1>1. StartupInv => OneFileKnown
    BY DEF StartupInv, DatabaseInv, Settled, OneRecord, OneFileKnown
  <1> QED  BY StartupInductive, <1>1, PTL

-------------------------------------------------------------------------------
\* The place of a repository in rep.conf.
Place(r) == CHOOSE p \in 1..N : Conf[p] = r

\* The steps that main has left before it serves, at most.
StepsLeft ==
    CASE phase = "read"    -> 6 * N + 1 + (N - line)
      [] phase = "connect" -> 6 * (N - Place(node)) + 6
      [] phase = "ask"     -> 6 * (N - Place(node)) + 5
      [] phase = "update"  -> 6 * (N - Place(node)) + 4 - tok
      [] phase = "next"    -> 6 * (N - Place(node)) + 1
      [] OTHER             -> 0

LEMMA PlaceFact == \A p \in 1..N : Place(Conf[p]) = p
  <1> SUFFICES ASSUME NEW p \in 1..N PROVE Place(Conf[p]) = p
    OBVIOUS
  <1>1. \E q \in 1..N : Conf[q] = Conf[p]
    OBVIOUS
  <1>2. Place(Conf[p]) \in 1..N /\ Conf[Place(Conf[p])] = Conf[p]
    BY <1>1 DEF Place
  <1> QED  BY <1>2, ConfFacts

\* Where the loop's node is in rep.conf.
LEMMA NodePlace ==
    ASSUME StartupInv, phase \in {"connect", "ask", "update", "next"}
    PROVE  Place(node) \in 1..N /\ N \in Nat /\ Conf[Place(node)] = node
  <1> USE PlaceFact, ConfFacts DEF StartupInv, ListInv
  <1>1. CASE AtConnect
    <2>1. PICK p \in 0..N : p < N /\ node = Conf[p + 1]
      BY <1>1 DEF AtConnect
    <2>2. p + 1 \in 1..N
      BY <2>1
    <2> QED  BY <2>1, <2>2
  <1>2. CASE AtAnswer \/ AtFreed
    <2>1. PICK p \in 1..N : node = Conf[p]
      BY <1>2 DEF AtAnswer, AtFreed
    <2> QED  BY <2>1
  <1> QED  BY <1>1, <1>2

\* The loop goes from a node to the one that follows it in rep.conf, whether its
\* next pointer is read in the list or in freed memory.
LEMMA NextFollows ==
    ASSUME StartupInv, NextNode
    PROVE  IF Place(node) < N THEN phase' = "connect" /\ node' = Conf[Place(node) + 1]
           ELSE phase' = "serve"
  <1> USE DEF StartupInv, NextNode
  <1>1. list \in Seq(Repos) /\ Ordered /\ Len(list) \in Nat
    BY DEF TypeOK, ListInv
  <1>2. \E p \in 1..N : node = Conf[p] /\ GoOn(Following(p))
    <2>1. CASE AtAnswer
      <3>1. PICK p \in 1..N, m \in 1..N : Passed(m, p) /\ node = Conf[p] /\ list[m] = node
        BY <2>1 DEF AtAnswer
      <3>2. After(list, m) = Following(p) /\ m \in 1..Len(list)
        BY <1>1, <3>1, ConfFacts, AfterNode
      <3>3. GoOn(After(list, m))
        BY <1>1, <3>1, <3>2, OrderedOnce
      <3> QED  BY <3>1, <3>2, <3>3
    <2>2. CASE AtFreed
      BY <2>2 DEF AtFreed, freed_pointer
    <2> QED  BY <2>1, <2>2 DEF ListInv
  <1>3. PICK p \in 1..N : node = Conf[p] /\ GoOn(Following(p))
    BY <1>2
  <1>4. Place(node) = p
    BY <1>3, PlaceFact
  <1>5. p < N => Conf[p + 1] \in Repos
    BY ConfFacts
  <1> QED  BY <1>3, <1>4, <1>5, ConfFacts DEF GoOn, Following

\* Each step of main leaves it fewer.
LEMMA MainShrinks ==
    ASSUME StartupInv, StartupInv', phase \notin {"serve", "down"}, Next
    PROVE  StepsLeft' \in Nat /\ StepsLeft' < StepsLeft
  <1>1. N \in Nat /\ line \in 0..N /\ tok \in Nat
        /\ (phase = "update" => tok \in 0..2) /\ (phase' = "update" => tok' \in 0..2)
    <2>1. Len(reply) \in Nat
      BY ConfAssumption DEF StartupInv, TypeOK
    <2>2. N \in Nat /\ line \in 0..N /\ tok \in Nat
      BY <2>1, ConfFacts DEF StartupInv, TypeOK, N
    <2>3. (phase = "update" => tok \in 0..2) /\ (phase' = "update" => tok' \in 0..2)
      BY DEF StartupInv, DatabaseInv
    <2> QED  BY <2>2, <2>3
  <1>2. phase \in {"connect", "ask", "update", "next"} => Place(node) \in 1..N
    BY NodePlace
  <1>3. phase' \in {"serve", "down"} => StepsLeft' = 0
    BY DEF StepsLeft
  <1>4. StepsLeft \in Nat /\ StepsLeft > 0
    <2>1. phase \in {"read", "connect", "ask", "update", "next"}
      BY DEF StartupInv, TypeOK, Phases
    <2> QED  BY <1>1, <1>2, <2>1 DEF StepsLeft
  <1>5. CASE ReadLine
    <2>1. phase = "read" /\ phase' = "read" /\ line' = line + 1 /\ line' \in 0..N
      BY <1>5, ConfFacts DEF ReadLine, StartupInv, TypeOK, N
    <2> QED  BY <1>1, <2>1 DEF StepsLeft
  <1>6. CASE EndOfConf
    <2>1. Len(list) = N /\ (\A k \in 1..N : list[k] = Conf[k]) /\ phase = "read" /\ line = N
      BY <1>6 DEF EndOfConf, StartupInv, ListInv, N
    <2>2. CASE list = << >>
      BY <1>3, <1>4, <1>6, <2>2 DEF EndOfConf, GoOn, Head_of
    <2>3. CASE list # << >>
      <3>1. 1 \in 1..N
        BY <1>1, <2>1, <2>3 DEF StartupInv, TypeOK
      <3>2. Conf[1] # Null /\ Head_of(list) = Conf[1]
        BY <2>1, <2>3, <3>1, ConfFacts DEF Head_of
      <3>3. phase' = "connect" /\ Place(node)' = 1
        BY <1>6, <3>1, <3>2, PlaceFact DEF EndOfConf, GoOn
      <3> QED  BY <1>1, <2>1, <3>1, <3>3 DEF StepsLeft
    <2> QED  BY <2>2, <2>3
  <1>7. CASE NextNode
    <2>1. CASE Place(node) < N
      <3>1. phase' = "connect" /\ node' = Conf[Place(node) + 1] /\ phase = "next"
        BY <1>7, <2>1, NextFollows DEF NextNode
      <3>2. Place(node) \in 1..N /\ Place(node) + 1 \in 1..N
        BY <1>1, <1>2, <2>1, <3>1
      <3>3. Place(node)' = Place(node) + 1
        BY <3>1, <3>2, PlaceFact
      <3> QED  BY <1>1, <3>1, <3>2, <3>3 DEF StepsLeft
    <2>2. CASE ~(Place(node) < N)
      BY <1>3, <1>4, <1>7, <2>2, NextFollows
    <2> QED  BY <2>1, <2>2
  <1>8. CASE Offline \/ Online
    <2>1. phase = "connect" /\ phase' \in {"ask", "next"} /\ node' = node
      BY <1>8 DEF Offline, Online
    <2> QED  BY <1>1, <1>2, <2>1 DEF StepsLeft
  <1>9. CASE Answered \/ NotAnswered
    <2>1. phase = "ask" /\ ((phase' = "update" /\ tok' = 0) \/ phase' = "next") /\ node' = node
      BY <1>9 DEF Answered, NotAnswered, nodes
    <2> QED  BY <1>1, <1>2, <2>1 DEF StepsLeft
  <1>10. CASE RoundFile \/ RoundBlock
    <2>1. phase = "update" /\ phase' = "update" /\ tok' = tok + 1 /\ node' = node
      BY <1>10 DEF RoundFile, RoundBlock, Round, nodes
    <2> QED  BY <1>1, <1>2, <2>1 DEF StepsLeft
  <1>11. CASE EndOfAnswer
    <2>1. phase = "update" /\ phase' = "next" /\ node' = node
      BY <1>11 DEF EndOfAnswer, nodes
    <2> QED  BY <1>1, <1>2, <2>1 DEF StepsLeft
  <1>12. CASE RoundNoFile \/ Halt
    BY <1>3, <1>4, <1>12 DEF RoundNoFile, Halt
  <1>13. ~GetDr
    BY DEF GetDr
  <1> QED  BY <1>5, <1>6, <1>7, <1>8, <1>9, <1>10, <1>11, <1>12, <1>13 DEF Next, Main

\* The start-up never goes round in a circle: with each of its steps main has fewer
\* left before it serves or the process ends, seven for each line of rep.conf and
\* one, although it follows pointers of freed nodes and reads answers of any length
\* (server.c:373-374, file_db.c:86-110).
THEOREM StartShrinks ==
    Spec => [][phase \notin {"serve", "down"} => StepsLeft' \in Nat /\ StepsLeft' < StepsLeft]_vars
  <1>1. StartupInv /\ StartupInv' /\ [Next]_vars =>
          [phase \notin {"serve", "down"} => StepsLeft' \in Nat /\ StepsLeft' < StepsLeft]_vars
    BY MainShrinks
  <1> QED  BY StartupInductive, <1>1, PTL DEF Spec

\* The loop comes to no repository twice: the one it is about to connect to has not
\* been tried.
THEOREM ConnectsOnce == Spec => [](phase = "connect" => tried[node] = "no")
  <1>1. StartupInv => (phase = "connect" => tried[node] = "no")
    <2> SUFFICES ASSUME StartupInv, phase = "connect" PROVE tried[node] = "no"
      OBVIOUS
    <2>1. PICK p \in 0..N, m \in 0..N : Passed(m, p) /\ p < N /\ node = Conf[p + 1]
      BY DEF StartupInv, ListInv, AtConnect
    <2>2. p + 1 \in (p + 1)..N
      BY <2>1, ConfFacts
    <2> QED  BY <2>1, <2>2 DEF Passed
  <1> QED  BY StartupInductive, <1>1, PTL

\* With n steps left main gets to fewer, or a repository that accepted its
\* connection never answers: at no other place does the start-up wait
\* (server.c:340-341).
THEOREM StartGoesOn ==
    ASSUME NEW n \in Nat, []GoesOn
    PROVE  FairSpec =>
             (phase \notin {"serve", "down"} /\ StepsLeft = n)
               ~> (StepsLeft \in Nat /\ StepsLeft < n) \/ [](phase = "ask")
  <1> DEFINE Here   == phase \notin {"serve", "down"} /\ StepsLeft = n
             Nearer == StepsLeft \in Nat /\ StepsLeft < n
             Asking == phase = "ask"
  <1>1. ASSUME StartupInv, StartupInv', Here, [Next]_vars
        PROVE  (Here' /\ UNCHANGED vars) \/ Nearer'
    <2>1. CASE UNCHANGED vars
      BY <1>1, <2>1 DEF vars, nodes, answer, StepsLeft
    <2>2. CASE Next
      BY <1>1, <2>2, MainShrinks
    <2> QED  BY <1>1, <2>1, <2>2
  <1>2. StartupInv /\ StartupInv' /\ Here /\ Asking /\ [Next]_vars => (Here' /\ Asking') \/ Nearer'
    BY <1>1 DEF vars
  <1>3. StartupInv /\ StartupInv' /\ Here /\ ~Asking /\ [Next]_vars => (Here' /\ ~Asking') \/ Nearer'
    BY <1>1 DEF vars
  <1>4. StartupInv /\ GoesOn /\ Here => Asking \/ ENABLED <<Main>>_vars
    BY DEF GoesOn, StartupInv, TypeOK, Phases
  <1>5. StartupInv /\ StartupInv' /\ Here /\ [Next]_vars /\ <<Main>>_vars => Nearer'
    BY <1>1
  <1> HIDE DEF Here, Nearer, Asking
  <1>6. FairSpec => (Here ~> Nearer \/ []Asking)
    BY StartupInductive, <1>2, <1>3, <1>4, <1>5, PTL DEF FairSpec, Spec
  <1> QED  BY <1>6 DEF Here, Nearer, Asking

===============================================================================
