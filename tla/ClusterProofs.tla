---------------------------- MODULE ClusterProofs ----------------------------
(***************************************************************************)
(* What the nodes of a cluster can rely on.  The partition of the mirrors  *)
(* by IsHandled, for every finite set of nodes and mirrors and every       *)
(* schedule of announcements and failures; the scan lock, for every set of *)
(* sessions and every lockTTL, lockRefresh and delay bound that satisfy    *)
(* TimingAssumption.                                                       *)
(***************************************************************************)
EXTENDS Cluster, ClusterLock, FiniteSetTheorems, TLAPS

-----------------------------------------------------------------------------
(* Arithmetic of the ranges.                                               *)

LEMMA MulDistributes ==
    ASSUME NEW r \in Nat, NEW p \in Nat, NEW q \in Nat, p <= q
    PROVE  r * p <= r * q
<1>1. q - p \in Nat /\ q = p + (q - p)
    OBVIOUS
<1>2. r * (q - p) \in Nat
    BY <1>1
<1>3. r * q = r * p + r * (q - p)
    BY <1>1
<1>4. r * p \in Nat /\ r * q \in Nat
    OBVIOUS
<1> QED BY <1>2, <1>3, <1>4

\* Whatever the size of the ranges, every index falls in the range of exactly
\* one position: the ranges are consecutive and the last one is unbounded.
LEMMA OnePosition ==
    ASSUME NEW index \in Nat, NEW total \in Nat \ {0}, NEW range \in Nat
    PROVE  /\ \E p \in 0..(total - 1) : InRange(index, p, total, range)
           /\ \A p, q \in 0..(total - 1) :
                 InRange(index, p, total, range) /\ InRange(index, q, total, range)
                    => p = q
<1>1. \E p \in 0..(total - 1) : InRange(index, p, total, range)
    <2>1. CASE index >= range * (total - 1)
        BY <2>1 DEF InRange
    <2>2. CASE index < range * (total - 1)
        <3>1. range > 0
            BY <2>2
        <3> DEFINE p == index \div range
        <3>2. p \in Nat /\ index >= range * p /\ index < range * p + range
            BY <3>1
        <3> HIDE DEF p
        <3>3. p < total - 1
            <4> SUFFICES ASSUME p >= total - 1 PROVE FALSE
                BY <3>2
            <4>1. range * (total - 1) <= range * p
                BY <3>2, MulDistributes
            <4>2. range * (total - 1) \in Nat /\ range * p \in Nat
                BY <3>2
            <4> QED BY <2>2, <3>2, <4>1, <4>2
        <3>4. p \in 0..(total - 1)
            BY <3>2, <3>3
        <3> QED BY <3>2, <3>4 DEF InRange
    <2>3. range * (total - 1) \in Nat
        OBVIOUS
    <2> QED BY <2>1, <2>2, <2>3
<1>2. ASSUME NEW p \in 0..(total - 1), NEW q \in 0..(total - 1), p < q,
             InRange(index, p, total, range), InRange(index, q, total, range)
      PROVE  FALSE
    <2>1. range * (p + 1) <= range * q
        BY <1>2, MulDistributes
    <2>2. range * (p + 1) = range * p + range
        OBVIOUS
    <2>3. index < range * p + range
        BY <1>2 DEF InRange
    <2>4. index >= range * q
        BY <1>2 DEF InRange
    <2>5. range * p \in Nat /\ range * q \in Nat
        OBVIOUS
    <2> QED BY <2>1, <2>2, <2>3, <2>4, <2>5
<1>3. \A p, q \in 0..(total - 1) : p = q \/ p < q \/ q < p
    OBVIOUS
<1> QED BY <1>1, <1>2, <1>3

-----------------------------------------------------------------------------
(* Positions in a sorted list.                                             *)

\* The position of an element is a valid index of the list.
LEMMA PositionType ==
    ASSUME NEW S \in SUBSET Nat, IsFiniteSet(S), NEW x
    PROVE  /\ Position(x, S) \in Nat
           /\ x \in S => Position(x, S) \in 0..(Cardinality(S) - 1)
<1> DEFINE below == {y \in S : y < x}
<1>1. below \in SUBSET S
    OBVIOUS
<1>2. /\ IsFiniteSet(below)
      /\ Cardinality(below) <= Cardinality(S)
      /\ Cardinality(S) = Cardinality(below) => S = below
    BY <1>1, FS_Subset
<1>3. Cardinality(below) \in Nat /\ Cardinality(S) \in Nat
    BY <1>2, FS_CardinalityType
<1>4. ASSUME x \in S PROVE S # below
    BY <1>4
<1> QED BY <1>2, <1>3, <1>4 DEF Position

\* Distinct elements have distinct positions, in their order.
LEMMA PositionIncreases ==
    ASSUME NEW S \in SUBSET Nat, IsFiniteSet(S),
           NEW x \in S, NEW z \in S, x < z
    PROVE  Position(x, S) < Position(z, S)
<1> DEFINE bx == {y \in S : y < x}
           bz == {y \in S : y < z}
<1>1. bz \in SUBSET S /\ bx \in SUBSET bz /\ x \in bz /\ x \notin bx
    <2>1. \A y \in S : y < x => y < z
        OBVIOUS
    <2>2. ~(x < x)
        OBVIOUS
    <2>3. bx \in SUBSET bz
        BY <2>1
    <2> QED BY <2>2, <2>3
<1>2. IsFiniteSet(bz)
    BY <1>1, FS_Subset
<1>3. /\ IsFiniteSet(bx)
      /\ Cardinality(bx) <= Cardinality(bz)
      /\ Cardinality(bz) = Cardinality(bx) => bz = bx
    BY <1>1, <1>2, FS_Subset
<1>4. Cardinality(bx) \in Nat /\ Cardinality(bz) \in Nat
    BY <1>2, <1>3, FS_CardinalityType
<1>5. bz # bx
    BY <1>1
<1> QED BY <1>3, <1>4, <1>5 DEF Position

\* The positions of the elements of a set are exactly 0 .. size - 1.
LEMMA PositionsCover ==
    ASSUME NEW S \in SUBSET Nat, IsFiniteSet(S),
           NEW p \in 0..(Cardinality(S) - 1)
    PROVE  \E x \in S : Position(x, S) = p
<1> DEFINE T == 0..(Cardinality(S) - 1)
           f == [x \in S |-> Position(x, S)]
<1>1. Cardinality(S) \in Nat
    BY FS_CardinalityType
<1>2. IsFiniteSet(T) /\ Cardinality(T) = Cardinality(S)
    BY <1>1, FS_Interval
<1>3. f \in Injection(S, T)
    <2>1. f \in [S -> T]
        BY PositionType
    <2>2. ASSUME NEW x \in S, NEW z \in S, f[x] = f[z] PROVE x = z
        <3>1. x \in Nat /\ z \in Nat
            OBVIOUS
        <3>2. ~(x < z) /\ ~(z < x)
            <4>1. Position(x, S) = Position(z, S)
                BY <2>2
            <4>2. Position(x, S) \in Nat
                BY PositionType
            <4>3. ASSUME x < z PROVE FALSE
                BY <4>1, <4>2, <4>3, PositionIncreases
            <4>4. ASSUME z < x PROVE FALSE
                BY <4>1, <4>2, <4>4, PositionIncreases
            <4> QED BY <4>3, <4>4
        <3> QED BY <3>1, <3>2
    <2> QED BY <2>1, <2>2 DEF Injection, IsInjective
<1>4. f \in Surjection(S, T)
    BY <1>2, <1>3, FS_Injection
<1> QED BY <1>4 DEF Surjection

-----------------------------------------------------------------------------
(* The inductive invariant: a running node is in its own view, and its     *)
(* nodeIndex and nodeTotal are those of that view.                         *)

ViewOK ==
    \A n \in running :
        /\ n \in nodes[n]
        /\ nodeTotal[n] = Cardinality(nodes[n])
        /\ nodeIndex[n] = Position(n, nodes[n])

IInv == TypeOK /\ ViewOK

\* A view has a size and positions.
LEMMA ViewType ==
    ASSUME NEW S \in SUBSET Node
    PROVE  /\ S \in SUBSET Nat /\ IsFiniteSet(S)
           /\ Cardinality(S) \in Nat
           /\ \A x : Position(x, S) \in Nat
<1>1. S \in SUBSET Nat
    BY ClusterAssumption
<1>2. IsFiniteSet(S)
    BY ClusterAssumption, FS_Subset
<1> QED BY <1>1, <1>2, FS_CardinalityType, PositionType

\* refreshNodeList leaves a well-formed view that contains its owner, provided
\* the owner was in it or is the sender.
LEMMA RefreshKeepsView ==
    ASSUME TypeOK, NEW n \in Node, NEW id \in Node, RefreshNodeList(n, id)
    PROVE  /\ nodes' \in [Node -> SUBSET Node]
           /\ age' \in [Node -> [Node -> 0..(ExpireSec + 1)]]
           /\ nodeIndex' \in [Node -> Nat]
           /\ nodeTotal' \in [Node -> Nat]
           /\ n \in nodes[n] \/ n = id => n \in nodes'[n]
           /\ nodeTotal'[n] = Cardinality(nodes'[n])
           /\ nodeIndex'[n] = Position(n, nodes'[n])
           /\ \A m \in Node \ {n} :
                 /\ nodes'[m] = nodes[m]
                 /\ nodeTotal'[m] = nodeTotal[m]
                 /\ nodeIndex'[m] = nodeIndex[m]
<1> DEFINE known == (nodes[n] \ Expired(n, id)) \cup {id}
<1>1. known \in SUBSET Node
    BY DEF TypeOK
<1>2. Cardinality(known) \in Nat /\ Position(n, known) \in Nat
    BY <1>1, ViewType
<1>3. n \in nodes[n] \/ n = id => n \in known
    BY DEF Expired
<1>4. 0 \in 0..(ExpireSec + 1)
    BY ClusterAssumption
<1>5. /\ nodes' = [nodes EXCEPT ![n] = known]
      /\ nodeTotal' = [nodeTotal EXCEPT ![n] = Cardinality(known)]
      /\ nodeIndex' = [nodeIndex EXCEPT ![n] = Position(n, known)]
      /\ age' = [age EXCEPT ![n] =
                   [m \in Node |-> IF m \in known \ {id} THEN age[n][m] ELSE 0]]
    BY DEF RefreshNodeList, TypeOK
<1> HIDE DEF known
<1>6. age' \in [Node -> [Node -> 0..(ExpireSec + 1)]]
    BY <1>4, <1>5 DEF TypeOK
<1> QED BY <1>1, <1>2, <1>3, <1>5, <1>6 DEF TypeOK

LEMMA InitIInv == Init => IInv
<1> SUFFICES ASSUME Init PROVE IInv
    OBVIOUS
<1>1. /\ 0 \in 0..(ExpireSec + 1) /\ 0 \in 0..FaultBudget
      /\ 0 \in 0..ChangeBudget /\ InitCatalog \subseteq Mirror
    BY ClusterAssumption
<1>2. inbox \in [Node -> Seq(Node)]
    BY DEF Init
<1>3. TypeOK
    BY <1>1, <1>2 DEF Init, TypeOK
<1>4. ViewOK
    BY DEF Init, ViewOK
<1> QED BY <1>3, <1>4 DEF IInv

\* A fault stays within the budget.
LEMMA FaultType ==
    ASSUME TypeOK, Fault
    PROVE  faults' \in 0..FaultBudget
BY ClusterAssumption DEF TypeOK, Fault

\* A step that leaves the views alone keeps ViewOK if it starts no node.
LEMMA SameViews ==
    ASSUME ViewOK, UNCHANGED viewVars, running' \subseteq running
    PROVE  ViewOK'
BY DEF ViewOK, viewVars

LEMMA StepIInv == IInv /\ [Next]_vars => IInv'
<1> SUFFICES ASSUME IInv, [Next]_vars PROVE IInv'
    OBVIOUS
<1>0. TypeOK /\ ViewOK
    BY DEF IInv
<1>1. CASE Tick
    <2>1. age' \in [Node -> [Node -> 0..(ExpireSec + 1)]]
        <3>1. ASSUME NEW n \in Node, NEW m \in Node
              PROVE  (IF m \in nodes[n] \ {n} /\ age[n][m] <= ExpireSec
                      THEN age[n][m] + 1 ELSE age[n][m]) \in 0..(ExpireSec + 1)
            <4>1. age[n][m] \in 0..(ExpireSec + 1)
                BY <1>0 DEF TypeOK
            <4> QED BY <4>1, ClusterAssumption
        <3> QED BY <1>1, <3>1 DEF Tick
    <2>2. TypeOK'
        BY <1>0, <1>1, <2>1, FaultType DEF Tick, mirrorVars, TypeOK
    <2>3. ViewOK'
        BY <1>0, <1>1 DEF Tick, ViewOK
    <2> QED BY <2>2, <2>3 DEF IInv
<1>2. ASSUME NEW n \in Node, Start(n) PROVE IInv'
    <2>1. RefreshNodeList(n, n)
        BY <1>2 DEF Start
    <2>2. TypeOK'
        <3>1. PICK skipped \in SUBSET catalog :
                /\ (skipped = {} /\ UNCHANGED faults) \/ Fault
                /\ mirrorsIndex' = [mirrorsIndex EXCEPT ![n] = catalog \ skipped]
                /\ missed' = [missed EXCEPT ![n] = skipped]
            BY <1>2 DEF Start
        <3>2. /\ mirrorsIndex' \in [Node -> SUBSET Listed]
              /\ missed' \in [Node -> SUBSET Listed]
            BY <1>0, <3>1 DEF TypeOK, Listed
        <3>3. faults' \in 0..FaultBudget
            BY <1>0, <3>1, FaultType DEF TypeOK
        <3>4. /\ running' \subseteq Node /\ listening' \subseteq Node
              /\ UNCHANGED <<due, inbox, catalog, pending, changes>>
            BY <1>0, <1>2 DEF Start, TypeOK
        <3>5. /\ nodes' \in [Node -> SUBSET Node]
              /\ age' \in [Node -> [Node -> 0..(ExpireSec + 1)]]
              /\ nodeIndex' \in [Node -> Nat]
              /\ nodeTotal' \in [Node -> Nat]
            BY <1>0, <2>1, RefreshKeepsView
        <3> QED BY <1>0, <3>2, <3>3, <3>4, <3>5 DEF TypeOK
    <2>3. ViewOK'
        <3>1. running' = running \cup {n}
            BY <1>2 DEF Start
        <3> QED BY <1>0, <2>1, <3>1, RefreshKeepsView DEF ViewOK, TypeOK
    <2> QED BY <2>2, <2>3 DEF IInv
<1>3. ASSUME NEW n \in Node, Stop(n) PROVE IInv'
    <2>1. 0 \in 0..(ExpireSec + 1) /\ <<>> \in Seq(Node)
        BY ClusterAssumption
    <2>2. TypeOK'
        BY <1>0, <1>3, <2>1, FaultType DEF Stop, TypeOK
    <2>3. ViewOK'
        BY <1>0, <1>3 DEF Stop, ViewOK, TypeOK
    <2> QED BY <2>2, <2>3 DEF IInv
<1>4. ASSUME NEW n \in Node, Announce(n) PROVE IInv'
    <2>1. inbox' \in [Node -> Seq(Node)]
        BY <1>0, <1>4 DEF Announce, TypeOK
    <2>2. TypeOK'
        BY <1>0, <1>4, <2>1 DEF Announce, TypeOK, viewVars, mirrorVars
    <2> QED BY <1>0, <1>4, <2>2, SameViews DEF Announce, IInv
<1>5. ASSUME NEW n \in Node, AnnounceLost(n) PROVE IInv'
    <2>1. TypeOK'
        BY <1>0, <1>5, FaultType DEF AnnounceLost, TypeOK, viewVars, mirrorVars
    <2> QED BY <1>0, <1>5, <2>1, SameViews DEF AnnounceLost, IInv
<1>6. ASSUME NEW n \in Node, Receive(n) PROVE IInv'
    <2>1. Head(inbox[n]) \in Node /\ Tail(inbox[n]) \in Seq(Node)
        BY <1>0, <1>6 DEF Receive, TypeOK
    <2>2. RefreshNodeList(n, Head(inbox[n]))
        BY <1>6 DEF Receive
    <2>3. inbox' \in [Node -> Seq(Node)]
        BY <1>0, <1>6, <2>1 DEF Receive, TypeOK
    <2>4. TypeOK'
        BY <1>0, <1>6, <2>1, <2>2, <2>3, RefreshKeepsView
        DEF Receive, TypeOK, mirrorVars
    <2>5. ViewOK'
        BY <1>0, <1>6, <2>1, <2>2, RefreshKeepsView DEF Receive, ViewOK, TypeOK
    <2> QED BY <2>4, <2>5 DEF IInv
<1>7. ASSUME NEW n \in Node, Disconnect(n) \/ Reconnect(n) PROVE IInv'
    <2>1. TypeOK'
        BY <1>0, <1>7, FaultType DEF Disconnect, Reconnect, TypeOK, viewVars, mirrorVars
    <2> QED BY <1>0, <1>7, <2>1, SameViews DEF Disconnect, Reconnect, IInv
<1>8. ASSUME NEW id \in Mirror, ChangeMirror(id) PROVE IInv'
    <2>1. changes' \in 0..ChangeBudget
        BY <1>0, <1>8, ClusterAssumption DEF ChangeMirror, TypeOK
    <2>2. TypeOK'
        BY <1>0, <1>8, <2>1 DEF ChangeMirror, NotifyMirror, TypeOK, viewVars, Listed
    <2> QED BY <1>0, <1>8, <2>2, SameViews DEF ChangeMirror, IInv
<1>9. ASSUME NEW n \in Node, NEW id \in Mirror, SyncMirrorList(n, id) PROVE IInv'
    <2>1. TypeOK'
        BY <1>0, <1>9 DEF SyncMirrorList, AddMirrorID, RemoveMirrorID, TypeOK, viewVars,
            Listed
    <2> QED BY <1>0, <1>9, <2>1, SameViews
           DEF SyncMirrorList, IInv
<1>10. ASSUME NEW n \in Node, NEW id \in Mirror, DropEvent(n, id) PROVE IInv'
    <2>1. TypeOK'
        BY <1>0, <1>10, FaultType DEF DropEvent, TypeOK, viewVars, Listed
    <2> QED BY <1>0, <1>10, <2>1, SameViews DEF DropEvent, IInv
<1>12. ASSUME NEW n \in Node, NEW id \in Mirror, SyncFails(n, id) PROVE IInv'
    <2>1. TypeOK'
        BY <1>0, <1>12, FaultType DEF SyncFails, TypeOK, viewVars, Listed
    <2> QED BY <1>0, <1>12, <2>1, SameViews DEF SyncFails, IInv
<1>13. ASSUME NEW n \in Node, NEW id \in Mirror, SyncStale(n, id) PROVE IInv'
    <2>1. PICK found \in {id, NoID} :
            /\ mirrorsIndex' = [mirrorsIndex EXCEPT ![n] = @ \cup {found}]
            /\ missed' = [missed EXCEPT ![n] = @ \cup {id, found}]
        BY <1>13 DEF SyncStale, AddMirrorID
    <2>2. /\ mirrorsIndex' \in [Node -> SUBSET Listed]
          /\ missed' \in [Node -> SUBSET Listed]
        BY <1>0, <2>1 DEF TypeOK, Listed
    <2>3. TypeOK'
        BY <1>0, <1>13, <2>2, FaultType DEF SyncStale, TypeOK, viewVars
    <2> QED BY <1>0, <1>13, <2>3, SameViews DEF SyncStale, IInv
<1>11. CASE UNCHANGED vars
    BY <1>0, <1>11 DEF vars, viewVars, mirrorVars, IInv, TypeOK, ViewOK
<1> QED
    BY <1>1, <1>2, <1>3, <1>4, <1>5, <1>6, <1>7, <1>8, <1>9, <1>10, <1>11, <1>12,
       <1>13
    DEF Next

\* The inductive invariant holds in every reachable state.
THEOREM ClusterInvariant == Spec => []IInv
BY InitIInv, StepIInv, PTL DEF Spec

\* Every variable of the cluster agent keeps its type.
THEOREM ClusterTypeCorrect == Spec => []TypeOK
<1>1. IInv => TypeOK
    BY DEF IInv
<1> QED BY <1>1, ClusterInvariant, PTL

\* While the running nodes agree on the members and on the mirrors, IsHandled
\* gives every mirror to exactly one of them (cluster.go:192-207).
THEOREM ClusterAgreedPartition == Spec => []AgreedPartition
<1>1. IInv => AgreedPartition
    <2> SUFFICES ASSUME IInv, running # {}, Agree, SameMirrors,
                        NEW n \in running, NEW id \in mirrorsIndex[n]
                 PROVE  \E m \in running :
                           /\ IsHandled(m, id)
                           /\ \A o \in running : IsHandled(o, id) => o = m
        BY DEF AgreedPartition
    <2> DEFINE total == Cardinality(running)
               index == Position(id, mirrorsIndex[n])
               range == MirrorRange(total, Cardinality(mirrorsIndex[n]))
    <2>1. running \in SUBSET Node /\ n \in Node
        BY DEF IInv, TypeOK
    <2>2. running \in SUBSET Nat /\ IsFiniteSet(running) /\ total \in Nat
        BY <2>1, ViewType
    <2>3. total # 0
        BY <2>2, FS_EmptySet
    <2>4. mirrorsIndex[n] \in SUBSET Nat /\ IsFiniteSet(mirrorsIndex[n])
        <3>1. Listed \subseteq Nat /\ IsFiniteSet(Listed)
            BY ClusterAssumption, FS_AddElement DEF Listed, NoID
        <3> QED BY <2>1, <3>1, FS_Subset DEF IInv, TypeOK
    <2>5. index \in Nat /\ Cardinality(mirrorsIndex[n]) \in Nat
        BY <2>4, PositionType, FS_CardinalityType
    <2>6. range \in Nat
        BY <2>2, <2>3, <2>5 DEF MirrorRange
    <2>7. ASSUME NEW m \in running
          PROVE  /\ Position(m, running) \in 0..(total - 1)
                 /\ IsHandled(m, id)
                       <=> InRange(index, Position(m, running), total, range)
        <3>1. nodes[m] = running /\ mirrorsIndex[m] = mirrorsIndex[n]
            BY DEF Agree, SameMirrors
        <3>2. nodeTotal[m] = total /\ nodeIndex[m] = Position(m, running)
            BY <3>1 DEF IInv, ViewOK
        <3>3. Position(m, running) \in 0..(total - 1)
            BY <2>2, PositionType
        <3> QED BY <3>1, <3>2, <3>3 DEF IsHandled
    <2> HIDE DEF total, index, range
    <2>8. PICK p \in 0..(total - 1) : InRange(index, p, total, range)
        BY <2>2, <2>3, <2>5, <2>6, OnePosition
    <2>9. PICK m \in running : Position(m, running) = p
        BY <2>2, <2>8, PositionsCover DEF total
    <2>10. IsHandled(m, id)
        BY <2>7, <2>8, <2>9
    <2>11. ASSUME NEW o \in running, IsHandled(o, id) PROVE o = m
        <3>1. Position(o, running) = p
            BY <2>2, <2>3, <2>5, <2>6, <2>7, <2>8, <2>11, OnePosition
        <3>2. o \in Nat /\ m \in Nat
            BY <2>2
        <3>3. ~(o < m) /\ ~(m < o)
            BY <2>2, <2>9, <3>1, PositionIncreases
        <3> QED BY <3>2, <3>3
    <2> QED BY <2>10, <2>11
<1> QED BY <1>1, ClusterInvariant, PTL

-----------------------------------------------------------------------------
(* The mirror lists.  MirrorListsFollow is inductive: a list only changes  *)
(* through an event, and an event that is not queued, or whose fetch does   *)
(* not answer with the state of Redis, is recorded as missed.               *)

LEMMA StepMirrorLists ==
    TypeOK /\ MirrorListsFollow /\ [Next]_vars => MirrorListsFollow'
<1> SUFFICES ASSUME TypeOK, MirrorListsFollow, [Next]_vars
             PROVE  MirrorListsFollow'
    OBVIOUS
<1>1. ASSUME UNCHANGED <<mirrorVars>>, running' \subseteq running
      PROVE  MirrorListsFollow'
    BY <1>1 DEF MirrorListsFollow, mirrorVars
<1>2. CASE Tick
    BY <1>1, <1>2 DEF Tick
<1>3. ASSUME NEW n \in Node, Start(n) PROVE MirrorListsFollow'
    <2>1. PICK skipped \in SUBSET catalog :
            /\ mirrorsIndex' = [mirrorsIndex EXCEPT ![n] = catalog \ skipped]
            /\ missed' = [missed EXCEPT ![n] = skipped]
        BY <1>3 DEF Start
    <2> QED BY <1>3, <2>1 DEF Start, MirrorListsFollow, TypeOK
<1>4. ASSUME NEW n \in Node, Stop(n) PROVE MirrorListsFollow'
    BY <1>4 DEF Stop, MirrorListsFollow, TypeOK
<1>5. ASSUME NEW n \in Node, Announce(n) \/ AnnounceLost(n) \/ Receive(n)
                                \/ Disconnect(n) \/ Reconnect(n)
      PROVE  MirrorListsFollow'
    BY <1>1, <1>5 DEF Announce, AnnounceLost, Receive, Disconnect, Reconnect
<1>6. ASSUME NEW id \in Mirror, ChangeMirror(id) PROVE MirrorListsFollow'
    <2> SUFFICES ASSUME NEW n \in running, NEW m \in Listed,
                        m \notin pending'[n], m \notin missed'[n]
                 PROVE  m \in mirrorsIndex[n] <=> m \in catalog'
        BY <1>6 DEF ChangeMirror, MirrorListsFollow
    <2>1. n \in Node
        BY DEF TypeOK
    <2>2. m # id /\ m \notin pending[n] /\ m \notin missed[n]
        BY <1>6, <2>1 DEF ChangeMirror, NotifyMirror, TypeOK
    <2>3. m \in catalog' <=> m \in catalog
        BY <1>6, <2>2 DEF ChangeMirror
    <2> QED BY <2>2, <2>3 DEF MirrorListsFollow
<1>7. ASSUME NEW n \in Node, NEW id \in Mirror, SyncMirrorList(n, id)
      PROVE  MirrorListsFollow'
    BY <1>7 DEF SyncMirrorList, AddMirrorID, RemoveMirrorID,
                MirrorListsFollow, TypeOK
<1>8. ASSUME NEW n \in Node, NEW id \in Mirror, DropEvent(n, id)
      PROVE  MirrorListsFollow'
    BY <1>8 DEF DropEvent, MirrorListsFollow, TypeOK
<1>10. ASSUME NEW n \in Node, NEW id \in Mirror, SyncFails(n, id)
      PROVE  MirrorListsFollow'
    BY <1>10 DEF SyncFails, MirrorListsFollow, TypeOK
<1>11. ASSUME NEW n \in Node, NEW id \in Mirror, SyncStale(n, id)
      PROVE  MirrorListsFollow'
    <2>1. PICK found \in {id, NoID} :
            /\ mirrorsIndex' = [mirrorsIndex EXCEPT ![n] = @ \cup {found}]
            /\ missed' = [missed EXCEPT ![n] = @ \cup {id, found}]
        BY <1>11 DEF SyncStale, AddMirrorID
    <2> QED BY <1>11, <2>1 DEF SyncStale, MirrorListsFollow, TypeOK
<1>9. CASE UNCHANGED vars
    BY <1>1, <1>9 DEF vars
<1> QED BY <1>2, <1>3, <1>4, <1>5, <1>6, <1>7, <1>8, <1>9, <1>10, <1>11 DEF Next

\* However events are queued, dropped and consumed, the list of mirrors of a
\* running node differs from Redis only by mirrors whose MIRROR_UPDATE is still
\* queued, never reached its monitor, or was consumed by a fetch that failed or
\* found an outdated record (monitor.go:292-307, syncMirrorList).
THEOREM ClusterMirrorListsFollow == Spec => []MirrorListsFollow
<1>1. Init => MirrorListsFollow
    BY DEF Init, MirrorListsFollow
<1> QED BY <1>1, StepMirrorLists, ClusterTypeCorrect, PTL DEF Spec

-----------------------------------------------------------------------------
(* No spurious expiry.  While nothing has gone wrong, a node known to      *)
(* another one has been silent for at most one second, and when it has its *)
(* next announcement is due or waits in the channel.  No channel is full   *)
(* then, because it holds at most one announcement of each node.           *)

Heard(n) == {inbox[n][i] : i \in 1..Len(inbox[n])}

CalmView(n) ==
    \A m \in nodes[n] \ {n} :
        /\ m \in running
        /\ age[n][m] <= 1
        /\ age[n][m] = 1 => m \in due \cup Heard(n)

CalmInbox(n) ==
    /\ Heard(n) \subseteq running \ due
    /\ \A i, j \in 1..Len(inbox[n]) : inbox[n][i] = inbox[n][j] => i = j

Calm ==
    /\ listening = running
    /\ due \subseteq running
    /\ \A n \in Node \ running : nodes[n] = {} /\ inbox[n] = <<>>
    /\ \A n \in Node : CalmView(n) /\ CalmInbox(n)

CalmInv == faults = 0 => Calm

\* A channel that holds distinct announcements, none of them of a given node,
\* has room for one more.
LEMMA RoomInChannel ==
    ASSUME TypeOK, Cardinality(Node) <= ChanCap, NEW n \in Node, NEW m \in Node,
           CalmInbox(m), n \notin Heard(m)
    PROVE  Len(inbox[m]) < ChanCap
<1> DEFINE len == Len(inbox[m])
           others == Node \ {n}
<1>1. inbox[m] \in Seq(Node) /\ len \in Nat
    BY DEF TypeOK
<1>2. IsFiniteSet(others) /\ Cardinality(others) = Cardinality(Node) - 1
    BY ClusterAssumption, FS_RemoveElement
<1>3. IsFiniteSet(1..len) /\ Cardinality(1..len) = len
    BY <1>1, FS_Interval
<1>4. inbox[m] \in Injection(1..len, others)
    <2>1. inbox[m] \in [1..len -> Node]
        BY <1>1
    <2>2. \A i \in 1..len : inbox[m][i] # n
        BY DEF Heard
    <2>3. inbox[m] \in [1..len -> others]
        BY <2>1, <2>2
    <2> QED BY <2>3 DEF CalmInbox, Injection, IsInjective
<1>5. len <= Cardinality(others)
    BY <1>2, <1>3, <1>4, FS_Injection
<1>6. Cardinality(Node) \in Nat /\ ChanCap \in Nat
    BY ClusterAssumption, FS_CardinalityType
<1> QED BY <1>1, <1>2, <1>5, <1>6

\* A counted fault leaves the fault-free prefix of the behaviour.
LEMMA FaultEndsCalm ==
    ASSUME TypeOK, Fault
    PROVE  faults' # 0
BY DEF TypeOK, Fault

\* In a calm state refreshNodeList expires nobody, and leaves a calm view if the
\* sender runs and was the head of the channel or the owner itself.
LEMMA CalmRefresh ==
    ASSUME TypeOK, ExpireSec # 0, NEW n \in Node, NEW id \in Node,
           CalmView(n), RefreshNodeList(n, id)
    PROVE  /\ nodes' = [nodes EXCEPT ![n] = @ \cup {id}]
           /\ age'[n][id] = 0
           /\ \A m \in nodes[n] \ {id} : age'[n][m] = age[n][m]
           /\ \A o \in Node \ {n} : age'[o] = age[o]
<1>1. Expired(n, id) = {}
    <2> SUFFICES ASSUME NEW m \in nodes[n], age[n][m] > ExpireSec, m # n
                 PROVE  FALSE
        BY DEF Expired
    <2>1. m \in Node /\ age[n][m] \in Nat
        BY DEF TypeOK
    <2>2. age[n][m] <= 1
        BY DEF CalmView
    <2> QED BY <2>1, <2>2, ClusterAssumption
<1>2. nodes' = [nodes EXCEPT ![n] = @ \cup {id}]
    BY <1>1 DEF RefreshNodeList, TypeOK
<1>3. age' = [age EXCEPT ![n] = [m \in Node |->
                IF m \in (nodes[n] \cup {id}) \ {id} THEN age[n][m] ELSE 0]]
    BY <1>1 DEF RefreshNodeList, TypeOK
<1>4. nodes[n] \subseteq Node
    BY DEF TypeOK
<1> QED BY <1>2, <1>3, <1>4 DEF TypeOK

LEMMA StepCalm ==
    ASSUME ExpireSec # 0, Cardinality(Node) <= ChanCap
    PROVE  TypeOK /\ CalmInv /\ [Next]_vars => CalmInv'
<1> SUFFICES ASSUME TypeOK, CalmInv, [Next]_vars, faults' = 0
             PROVE  Calm'
    BY DEF CalmInv
<1>0. faults = 0
    BY FaultEndsCalm
    DEF TypeOK, Next, vars, Tick, Start, Stop, Announce, AnnounceLost, Receive,
        Disconnect, Reconnect, ChangeMirror, SyncMirrorList,
        SyncFails, SyncStale, DropEvent, Fault
<1>a. Calm
    BY <1>0 DEF CalmInv
<1>b. ASSUME UNCHANGED <<running, listening, viewVars, due, inbox>> PROVE Calm'
    BY <1>a, <1>b DEF Calm, CalmView, CalmInbox, Heard, viewVars
<1>1. CASE Tick
    <2>1. due = {} /\ due' = running /\ \A n \in Node : inbox[n] = <<>>
        BY <1>1, FaultEndsCalm DEF Tick
    <2>2. \A n \in Node : Heard(n) = {}
        BY <2>1 DEF Heard
    <2>3. /\ running' = running /\ listening' = listening
          /\ nodes' = nodes /\ inbox' = inbox
        BY <1>1 DEF Tick
    <2>4. ASSUME NEW n \in Node PROVE CalmView(n)'
        <3> SUFFICES ASSUME NEW m \in nodes[n] \ {n}
                     PROVE  m \in running /\ age'[n][m] <= 1
            BY <2>1, <2>3 DEF CalmView
        <3>1. m \in Node /\ age[n][m] \in Nat
            BY DEF TypeOK
        <3>2. m \in running /\ age[n][m] <= 1 /\ age[n][m] # 1
            BY <1>a, <2>1, <2>2 DEF Calm, CalmView
        <3>3. age'[n][m] = age[n][m] + 1
            BY <1>1, <3>1, <3>2, ClusterAssumption DEF Tick
        <3> QED BY <3>1, <3>2, <3>3
    <2>5. ASSUME NEW n \in Node PROVE CalmInbox(n)'
        BY <2>1, <2>3 DEF CalmInbox, Heard
    <2> QED BY <1>a, <2>1, <2>3, <2>4, <2>5 DEF Calm
<1>2. ASSUME NEW n \in Node, Start(n) PROVE Calm'
    <2>1. /\ n \notin running /\ nodes[n] = {} /\ inbox[n] = <<>>
          /\ running' = running \cup {n} /\ listening' = listening \cup {n}
          /\ due' = due /\ inbox' = inbox /\ RefreshNodeList(n, n)
        BY <1>a, <1>2 DEF Start, Calm
    <2>2. /\ nodes' = [nodes EXCEPT ![n] = @ \cup {n}]
          /\ \A o \in Node \ {n} : age'[o] = age[o]
        BY <1>a, <2>1, CalmRefresh DEF Calm
    <2>3. \A m \in Node : Heard(m)' = Heard(m)
        BY <2>1 DEF Heard
    <2>4. ASSUME NEW m \in Node PROVE CalmView(m)'
        <3>1. CASE m = n
            BY <2>1, <2>2, <3>1 DEF CalmView, TypeOK
        <3>2. CASE m # n
            <4>1. nodes'[m] = nodes[m] /\ age'[m] = age[m]
                BY <2>2, <3>2 DEF TypeOK
            <4> QED BY <1>a, <2>1, <2>3, <4>1 DEF Calm, CalmView
        <3> QED BY <3>1, <3>2
    <2>5. ASSUME NEW m \in Node PROVE CalmInbox(m)'
        BY <1>a, <2>1, <2>3 DEF Calm, CalmInbox
    <2>6. \A m \in Node \ running' : nodes'[m] = {} /\ inbox'[m] = <<>>
        BY <1>a, <2>1, <2>2 DEF Calm, TypeOK
    <2> QED BY <1>a, <2>1, <2>4, <2>5, <2>6 DEF Calm
<1>3. ASSUME NEW n \in Node, Announce(n) PROVE Calm'
    <2>1. /\ n \in due /\ n \in running /\ due' = due \ {n}
          /\ running' = running /\ listening' = listening
          /\ nodes' = nodes /\ age' = age
        BY <1>a, <1>3 DEF Announce, Calm, viewVars
    <2>2. ASSUME NEW m \in running
          PROVE  inbox'[m] = Append(inbox[m], n)
        <3>1. m \in Node /\ m \in listening
            BY <1>a DEF Calm, TypeOK
        <3>2. CalmInbox(m) /\ n \notin Heard(m)
            BY <1>a, <2>1, <3>1 DEF Calm, CalmInbox
        <3>3. Len(inbox[m]) < ChanCap
            BY <3>1, <3>2, RoomInChannel
        <3> QED BY <1>3, <3>1, <3>3 DEF Announce
    <2>3. ASSUME NEW m \in Node \ running PROVE inbox'[m] = <<>>
        BY <1>a, <1>3 DEF Announce, Calm
    <2>4. ASSUME NEW m \in running PROVE Heard(m)' = Heard(m) \cup {n}
        <3>1. inbox[m] \in Seq(Node)
            BY DEF TypeOK
        <3> QED BY <2>2, <3>1 DEF Heard
    <2>5. ASSUME NEW m \in Node PROVE CalmView(m)'
        <3>1. CASE m \in running
            BY <1>a, <2>1, <2>4, <3>1 DEF Calm, CalmView
        <3>2. CASE m \notin running
            BY <1>a, <2>1, <3>2 DEF Calm, CalmView
        <3> QED BY <3>1, <3>2
    <2>6. ASSUME NEW m \in Node PROVE CalmInbox(m)'
        <3>1. CASE m \in running
            <4>1. Heard(m)' \subseteq running' \ due'
                BY <1>a, <2>1, <2>4, <3>1 DEF Calm, CalmInbox
            <4>2. inbox[m] \in Seq(Node) /\ n \notin Heard(m) /\ CalmInbox(m)
                BY <1>a, <2>1 DEF TypeOK, Calm, CalmInbox
            <4>3. \A i \in 1..Len(inbox[m]) : inbox[m][i] # n
                BY <4>2 DEF Heard
            <4>4. \A i, j \in 1..Len(inbox'[m]) :
                     inbox'[m][i] = inbox'[m][j] => i = j
                <5>1. Len(inbox'[m]) = Len(inbox[m]) + 1
                    BY <2>2, <3>1, <4>2
                <5>2. \A i \in 1..Len(inbox[m]) : inbox'[m][i] = inbox[m][i]
                    BY <2>2, <3>1, <4>2
                <5>3. inbox'[m][Len(inbox[m]) + 1] = n
                    BY <2>2, <3>1, <4>2
                <5>4. \A i, j \in 1..Len(inbox[m]) :
                         inbox[m][i] = inbox[m][j] => i = j
                    BY <4>2 DEF CalmInbox
                <5>5. Len(inbox[m]) \in Nat
                    BY <4>2
                <5> QED BY <4>3, <5>1, <5>2, <5>3, <5>4, <5>5
            <4> QED BY <4>1, <4>4 DEF CalmInbox
        <3>2. CASE m \notin running
            BY <2>3, <3>2 DEF CalmInbox, Heard
        <3> QED BY <3>1, <3>2
    <2> QED BY <1>a, <2>1, <2>3, <2>5, <2>6 DEF Calm
<1>4. ASSUME NEW n \in Node, Receive(n) PROVE Calm'
    <2> DEFINE id == Head(inbox[n])
    <2>1. /\ inbox[n] # <<>> /\ RefreshNodeList(n, id)
          /\ inbox' = [inbox EXCEPT ![n] = Tail(@)]
          /\ running' = running /\ listening' = listening /\ due' = due
        BY <1>4 DEF Receive
    <2>2. inbox[n] \in Seq(Node) /\ inbox'[n] = Tail(inbox[n])
        BY <2>1 DEF TypeOK
    <2>3. /\ id \in Node /\ id = inbox[n][1]
          /\ Len(Tail(inbox[n])) = Len(inbox[n]) - 1 /\ Len(inbox[n]) \in Nat \ {0}
          /\ \A i \in 1..(Len(inbox[n]) - 1) : Tail(inbox[n])[i] = inbox[n][i + 1]
        BY <2>1, <2>2
    <2>4. Heard(n) = Heard(n)' \cup {id} /\ id \in Heard(n)
        <3>1. Heard(n)' = {inbox[n][i + 1] : i \in 1..(Len(inbox[n]) - 1)}
            BY <2>2, <2>3 DEF Heard
        <3>2. \A i \in 1..Len(inbox[n]) :
                 i = 1 \/ (i - 1 \in 1..(Len(inbox[n]) - 1) /\ i = (i - 1) + 1)
            BY <2>3
        <3>3. \A i \in 1..(Len(inbox[n]) - 1) : i + 1 \in 1..Len(inbox[n])
            BY <2>3
        <3>4. 1 \in 1..Len(inbox[n])
            BY <2>3
        <3>5. id \in Heard(n)
            BY <2>3, <3>4 DEF Heard
        <3>6. Heard(n)' \subseteq Heard(n)
            BY <3>1, <3>3 DEF Heard
        <3>7. ASSUME NEW m \in Heard(n), m # id PROVE m \in Heard(n)'
            <4>1. PICK i \in 1..Len(inbox[n]) : m = inbox[n][i]
                BY DEF Heard
            <4>2. i - 1 \in 1..(Len(inbox[n]) - 1) /\ m = inbox[n][(i - 1) + 1]
                BY <2>3, <3>2, <3>7, <4>1
            <4> QED BY <3>1, <4>2
        <3> QED BY <3>5, <3>6, <3>7
    <2>5. id \in running /\ n \in running
        BY <1>a, <2>1, <2>4 DEF Calm, CalmInbox
    <2>6. /\ nodes' = [nodes EXCEPT ![n] = @ \cup {id}]
          /\ age'[n][id] = 0
          /\ \A m \in nodes[n] \ {id} : age'[n][m] = age[n][m]
          /\ \A o \in Node \ {n} : age'[o] = age[o]
        BY <1>a, <2>1, <2>3, CalmRefresh DEF Calm
    <2> HIDE DEF id
    <2>7. \A o \in Node \ {n} : inbox'[o] = inbox[o] /\ nodes'[o] = nodes[o]
        BY <2>1, <2>6 DEF TypeOK
    <2>8. CalmView(n)'
        <3> SUFFICES ASSUME NEW m \in nodes'[n] \ {n}
                     PROVE  /\ m \in running
                            /\ age'[n][m] <= 1
                            /\ age'[n][m] = 1 => m \in due \cup Heard(n)'
            BY <2>1 DEF CalmView
        <3>1. CASE m = id
            BY <2>5, <2>6, <3>1
        <3>2. CASE m # id
            <4>1. m \in nodes[n] \ {n}
                BY <2>6, <3>2 DEF TypeOK
            <4> QED BY <1>a, <2>4, <2>6, <3>2, <4>1 DEF Calm, CalmView
        <3> QED BY <3>1, <3>2
    <2>9. CalmInbox(n)'
        <3>1. Heard(n)' \subseteq running' \ due'
            BY <1>a, <2>1, <2>4 DEF Calm, CalmInbox
        <3>2. \A i, j \in 1..Len(inbox[n]) : inbox[n][i] = inbox[n][j] => i = j
            BY <1>a DEF Calm, CalmInbox
        <3>3. \A i, j \in 1..Len(inbox'[n]) : inbox'[n][i] = inbox'[n][j] => i = j
            BY <2>2, <2>3, <3>2
        <3> QED BY <3>1, <3>3 DEF CalmInbox
    <2>10. ASSUME NEW o \in Node \ {n} PROVE CalmView(o)' /\ CalmInbox(o)'
        <3>1. Heard(o)' = Heard(o)
            BY <2>7 DEF Heard
        <3> QED BY <1>a, <2>1, <2>6, <2>7, <3>1 DEF Calm, CalmView, CalmInbox
    <2>11. \A o \in Node \ running' : nodes'[o] = {} /\ inbox'[o] = <<>>
        BY <1>a, <2>1, <2>5, <2>7 DEF Calm
    <2> QED BY <1>a, <2>1, <2>8, <2>9, <2>10, <2>11 DEF Calm
<1>5. ASSUME NEW n \in Node,
             Stop(n) \/ AnnounceLost(n) \/ Disconnect(n)
                \/ \E id \in Mirror : DropEvent(n, id) \/ SyncFails(n, id) \/ SyncStale(n, id)
      PROVE  FALSE
    BY <1>5, FaultEndsCalm
    DEF Stop, AnnounceLost, Disconnect, DropEvent, SyncFails, SyncStale
<1>6. ASSUME NEW n \in Node, Reconnect(n) PROVE FALSE
    BY <1>a, <1>6 DEF Reconnect, Calm
<1>7. ASSUME NEW id \in Mirror,
             ChangeMirror(id) \/ \E n \in Node : SyncMirrorList(n, id)
      PROVE  Calm'
    BY <1>b, <1>7 DEF ChangeMirror, SyncMirrorList
<1>8. CASE UNCHANGED vars
    BY <1>b, <1>8 DEF vars
<1> QED BY <1>1, <1>2, <1>3, <1>4, <1>5, <1>6, <1>7, <1>8 DEF Next

\* A step of a calm system that is not a fault drops nobody from a view.
LEMMA StepNoExpiry ==
    ASSUME ExpireSec # 0
    PROVE  TypeOK /\ CalmInv /\ [Next]_vars
              => [faults' = 0 => \A n \in Node : nodes[n] \subseteq nodes'[n]]_vars
<1> SUFFICES ASSUME TypeOK, CalmInv, Next, faults' = 0, NEW o \in Node
             PROVE  nodes[o] \subseteq nodes'[o]
    OBVIOUS
<1>0. faults = 0
    BY FaultEndsCalm
    DEF TypeOK, Next, Tick, Start, Stop, Announce, AnnounceLost, Receive,
        Disconnect, Reconnect, ChangeMirror, SyncMirrorList,
        SyncFails, SyncStale, DropEvent, Fault
<1>1. \A n \in Node : CalmView(n)
    BY <1>0 DEF CalmInv, Calm
<1>2. ASSUME NEW n \in Node, Start(n) PROVE nodes[o] \subseteq nodes'[o]
    <2>1. nodes' = [nodes EXCEPT ![n] = @ \cup {n}]
        BY <1>1, <1>2, CalmRefresh DEF Start
    <2> QED BY <2>1 DEF TypeOK
<1>3. ASSUME NEW n \in Node, Receive(n) PROVE nodes[o] \subseteq nodes'[o]
    <2>1. Head(inbox[n]) \in Node
        BY <1>3 DEF Receive, TypeOK
    <2>2. nodes' = [nodes EXCEPT ![n] = @ \cup {Head(inbox[n])}]
        BY <1>1, <1>3, <2>1, CalmRefresh DEF Receive
    <2> QED BY <2>2 DEF TypeOK
<1>4. ASSUME NEW n \in Node, Stop(n) PROVE FALSE
    BY <1>4, FaultEndsCalm DEF Stop
<1>5. CASE nodes' = nodes
    BY <1>5
<1> QED BY <1>2, <1>3, <1>4, <1>5
    DEF Next, viewVars, Tick, Announce, AnnounceLost, Disconnect, Reconnect,
        ChangeMirror, SyncMirrorList, SyncFails, SyncStale, DropEvent

\* Until something goes wrong, no node drops another one from its view of the
\* cluster, for any number of nodes that the channel has room for (clusterChan
\* holds 10 announcements, cluster.go:99) and an expiry of at least one second
\* (5 seconds, cluster.go:135).  With more nodes it would be false: a
\* full channel drops announcements although nothing failed.
THEOREM ClusterNoSpuriousExpiry ==
    ASSUME ExpireSec # 0, Cardinality(Node) <= ChanCap
    PROVE  Spec => NoSpuriousExpiry
<1>1. Init => CalmInv
    BY DEF Init, CalmInv, Calm, CalmView, CalmInbox, Heard
<1> QED BY <1>1, StepCalm, StepNoExpiry, ClusterTypeCorrect, PTL
        DEF Spec, NoSpuriousExpiry

-----------------------------------------------------------------------------
(* The scan lock: the inductive invariant.                                 *)

Alive(s) == keeper[s] \in {"starting", "select"}

\* The caller and the keeper of a session agree on whether a lock is in use.
KeeperMatchesCall ==
    \A s \in Session : keeper[s] = "none" <=> pc[s] \in {"idle", "named"}

\* How much of its lease a session has left when its keeper still runs: the
\* keeper starts within MaxDelay, waits LockRefresh, and acts within MaxDelay.
KeeperInTime ==
    \A s \in Session :
        /\ keeper[s] = "starting" =>
              left[s] + MaxDelay >= LockTTL + lag[s]
        /\ keeper[s] = "select" =>
              left[s] + MaxDelay + LockRefresh + MaxDelay
                  >= LockTTL + timer[s] + lag[s]

\* The key exists exactly when it has an owner.
KeyHasOwner == owner = NoSession <=> ttl = 0

\* A session that may still delete the key, or holds a fresh lease, owns it.
LeaseIsKey ==
    ~removed =>
        \A s \in Session :
            Alive(s) \/ (pc[s] = "holding" /\ left[s] > 0)
                => owner = s /\ ttl = left[s]

LockIInv ==
    /\ LockTypeOK
    /\ KeeperMatchesCall
    /\ KeeperInTime
    /\ KeyHasOwner
    /\ LeaseIsKey

-----------------------------------------------------------------------------

\* A keeper that still runs watches a lease that has not expired.
LEMMA AliveHasLease ==
    ASSUME LockIInv, NEW s \in Session, Alive(s)
    PROVE  left[s] > 0
BY TimingAssumption DEF LockIInv, LockTypeOK, KeeperInTime, Alive

\* Nobody can be alive, or hold a fresh lease, when the key does not exist.
LEMMA FreeKeyMeansNoLease ==
    ASSUME LockIInv, ~removed, ttl = 0, NEW s \in Session
    PROVE  ~Alive(s) /\ ~(pc[s] = "holding" /\ left[s] > 0)
BY AliveHasLease, TimingAssumption DEF LockIInv, LockTypeOK, LeaseIsKey

\* The initial states satisfy the invariant.
LEMMA LockStart == LockInit => LockIInv
<1> SUFFICES ASSUME LockInit PROVE LockIInv
    OBVIOUS
<1>1. LockTypeOK
    <2>1. 0 \in 0..LockTTL /\ 0 \in 0..LockRefresh /\ 0 \in 0..MaxDelay
        BY TimingAssumption
    <2> QED BY <2>1 DEF LockInit, LockTypeOK
<1>2. KeeperMatchesCall /\ KeeperInTime /\ KeyHasOwner
    BY DEF LockInit, KeeperMatchesCall, KeeperInTime, KeyHasOwner
<1>3. LeaseIsKey
    BY DEF LockInit, LeaseIsKey, Alive
<1> QED BY <1>1, <1>2, <1>3 DEF LockIInv

\* One second passing keeps the invariant: leases, TTL and clocks run down
\* together, and LockTick waits for a keeper whose delay is exhausted.
LEMMA TickIInv == LockIInv /\ LockTick => LockIInv'
<1> SUFFICES ASSUME LockIInv, LockTick PROVE LockIInv'
    OBVIOUS
<1> USE TimingAssumption, NoSessionAssumption
<1>1. LockTypeOK'
    BY DEF LockIInv, LockTypeOK, LockTick, ExpireKey, Pred
<1>2. KeeperMatchesCall'
    BY DEF LockIInv, KeeperMatchesCall, LockTick
<1>3. ASSUME NEW s \in Session, Alive(s)
      PROVE  left'[s] = left[s] - 1
    BY <1>3, AliveHasLease DEF LockIInv, LockTypeOK, LockTick, Pred
<1>4. KeeperInTime'
    <2> SUFFICES ASSUME NEW s \in Session
                 PROVE  /\ keeper'[s] = "starting" =>
                              left'[s] + MaxDelay >= LockTTL + lag'[s]
                        /\ keeper'[s] = "select" =>
                              left'[s] + MaxDelay + LockRefresh + MaxDelay
                                  >= LockTTL + timer'[s] + lag'[s]
        BY DEF KeeperInTime
    <2>1. CASE keeper[s] = "starting"
        <3>1. lag[s] > 0 /\ lag'[s] = lag[s] - 1
            BY <2>1 DEF LockIInv, LockTypeOK, LockTick, Runnable, Pred
        <3> QED BY <2>1, <3>1, <1>3 DEF LockIInv, LockTypeOK, KeeperInTime, Alive, LockTick
    <2>2. CASE keeper[s] = "select"
        <3>1. timer'[s] = Pred(timer[s])
            BY <2>2 DEF LockTick
        <3>2. timer'[s] + lag'[s] + 1 <= timer[s] + lag[s]
            BY <2>2, <3>1 DEF LockIInv, LockTypeOK, LockTick, Runnable, Pred
        <3> QED BY <2>2, <3>1, <3>2, <1>1, <1>3
                DEF LockIInv, LockTypeOK, KeeperInTime, Alive, LockTick
    <2>3. CASE keeper[s] \notin {"starting", "select"}
        BY <2>3 DEF LockTick
    <2> QED BY <2>1, <2>2, <2>3
<1>5. KeyHasOwner'
    BY DEF LockIInv, LockTypeOK, KeyHasOwner, LockTick, ExpireKey, Pred
<1>6. LeaseIsKey'
    <2> SUFFICES ASSUME ~removed, NEW s \in Session,
                        Alive(s)' \/ (pc'[s] = "holding" /\ left'[s] > 0)
                 PROVE  owner' = s /\ ttl' = left'[s]
        BY DEF LeaseIsKey, LockTick
    <2>1. left'[s] > 0
        <3>1. CASE Alive(s)'
            BY <3>1, <1>1, <1>4 DEF LockTypeOK, KeeperInTime, Alive
        <3> QED BY <3>1
    <2>2. Alive(s) \/ (pc[s] = "holding" /\ left[s] > 0)
        BY <2>1 DEF LockIInv, LockTypeOK, LockTick, Alive, Pred
    <2>3. owner = s /\ ttl = left[s]
        BY <2>2 DEF LockIInv, LeaseIsKey
    <2> QED BY <2>1, <2>3 DEF LockIInv, LockTypeOK, LockTick, ExpireKey, Pred
<1> QED BY <1>1, <1>2, <1>4, <1>5, <1>6 DEF LockIInv

\* Every other step keeps the invariant, one case per action.
LEMMA LockStep == LockIInv /\ [LockNext]_lockVars => LockIInv'
<1> SUFFICES ASSUME LockIInv, [LockNext]_lockVars PROVE LockIInv'
    OBVIOUS
<1> USE TimingAssumption, NoSessionAssumption
<1>1. CASE LockTick
    BY <1>1, TickIInv
<1>2. CASE RemoveMirror
    BY <1>2 DEF RemoveMirror, DelKey, LockIInv, LockTypeOK, KeeperMatchesCall,
                KeeperInTime, KeyHasOwner, LeaseIsKey
<1>3. ASSUME NEW s \in Session, LookupName(s) PROVE LockIInv'
    BY <1>3 DEF LookupName, LockIInv, LockTypeOK, KeeperMatchesCall, KeeperInTime,
                KeyHasOwner, LeaseIsKey, Alive
<1>4. ASSUME NEW s \in Session, GetGranted(s) PROVE LockIInv'
    <2>1. LockTypeOK' /\ KeeperMatchesCall' /\ KeyHasOwner'
        BY <1>4 DEF GetGranted, SetKey, LockIInv, LockTypeOK, KeeperMatchesCall, KeyHasOwner
    <2>2. KeeperInTime'
        BY <1>4 DEF GetGranted, SetKey, LockIInv, LockTypeOK, KeeperInTime
    <2>3. LeaseIsKey'
        <3> SUFFICES ASSUME ~removed, NEW t \in Session,
                            Alive(t)' \/ (pc'[t] = "holding" /\ left'[t] > 0)
                     PROVE  owner' = t /\ ttl' = left'[t]
            BY <1>4 DEF LeaseIsKey, GetGranted
        <3>1. CASE t = s
            BY <1>4, <3>1 DEF GetGranted, SetKey, LockIInv, LockTypeOK
        <3>2. CASE t # s
            BY <1>4, <3>2, FreeKeyMeansNoLease
            DEF GetGranted, SetKey, LockIInv, LockTypeOK, Alive
        <3> QED BY <3>1, <3>2
    <2> QED BY <2>1, <2>2, <2>3 DEF LockIInv
<1>5. ASSUME NEW s \in Session, GetBusy(s) PROVE LockIInv'
    BY <1>5 DEF GetBusy, LockIInv, LockTypeOK, KeeperMatchesCall, KeeperInTime,
                KeyHasOwner, LeaseIsKey, Alive
<1>6. ASSUME NEW s \in Session, GetFailed(s) PROVE LockIInv'
    <2>1. CASE UNCHANGED <<ttl, owner, left>>
        BY <1>6, <2>1 DEF GetFailed, LockIInv, LockTypeOK, KeeperMatchesCall,
                          KeeperInTime, KeyHasOwner, LeaseIsKey, Alive
    <2>2. CASE SetKey(s)
        <3>1. LockTypeOK' /\ KeeperMatchesCall' /\ KeyHasOwner'
            BY <1>6, <2>2 DEF GetFailed, SetKey, LockIInv, LockTypeOK,
                              KeeperMatchesCall, KeyHasOwner
        <3>2. KeeperInTime'
            BY <1>6, <2>2 DEF GetFailed, SetKey, LockIInv, LockTypeOK,
                              KeeperMatchesCall, KeeperInTime
        <3>3. LeaseIsKey'
            <4> SUFFICES ASSUME ~removed, NEW t \in Session
                         PROVE  ~(Alive(t)' \/ (pc'[t] = "holding" /\ left'[t] > 0))
                BY <1>6 DEF LeaseIsKey, GetFailed
            <4>1. ~Alive(t) /\ ~(pc[t] = "holding" /\ left[t] > 0)
                BY <2>2, FreeKeyMeansNoLease DEF SetKey
            <4> QED BY <1>6, <2>2, <4>1 DEF GetFailed, SetKey, LockIInv, LockTypeOK, Alive
        <3> QED BY <3>1, <3>2, <3>3 DEF LockIInv
    <2> QED BY <1>6, <2>1, <2>2 DEF GetFailed
<1>7. ASSUME NEW s \in Session, Release(s) PROVE LockIInv'
    BY <1>7 DEF Release, LockIInv, LockTypeOK, KeeperMatchesCall, KeeperInTime,
                KeyHasOwner, LeaseIsKey, Alive
<1>8. ASSUME NEW s \in Session, KeeperStart(s) PROVE LockIInv'
    BY <1>8 DEF KeeperStart, LockIInv, LockTypeOK, KeeperMatchesCall, KeeperInTime,
                KeyHasOwner, LeaseIsKey, Alive
<1>9. ASSUME NEW s \in Session, KeeperDone(s) PROVE LockIInv'
    <2>1. LockTypeOK' /\ KeeperMatchesCall' /\ KeyHasOwner'
        BY <1>9 DEF KeeperDone, StopKeeperClock, DelKey, LockIInv, LockTypeOK,
                    KeeperMatchesCall, KeyHasOwner
    <2>2. KeeperInTime'
        BY <1>9 DEF KeeperDone, StopKeeperClock, LockIInv, LockTypeOK, KeeperInTime
    <2>3. LeaseIsKey'
        <3> SUFFICES ASSUME ~removed, NEW t \in Session,
                            Alive(t)' \/ (pc'[t] = "holding" /\ left'[t] > 0)
                     PROVE  owner' = t /\ ttl' = left'[t]
            BY <1>9 DEF LeaseIsKey, KeeperDone
        <3>1. owner = s
            BY <1>9 DEF KeeperDone, LockIInv, LeaseIsKey, Alive
        <3>2. t # s /\ (Alive(t) \/ (pc[t] = "holding" /\ left[t] > 0))
            BY <1>9 DEF KeeperDone, LockIInv, LockTypeOK, Alive
        <3>3. owner = t
            BY <3>2 DEF LockIInv, LeaseIsKey
        <3> QED BY <3>1, <3>2, <3>3
    <2> QED BY <2>1, <2>2, <2>3 DEF LockIInv
<1>10. ASSUME NEW s \in Session, KeeperTimer(s) PROVE LockIInv'
    BY <1>10 DEF KeeperTimer, StopKeeperClock, LockIInv, LockTypeOK, KeeperMatchesCall,
                 KeeperInTime, KeyHasOwner, LeaseIsKey, Alive
<1>11. ASSUME NEW s \in Session, Crash(s) PROVE LockIInv'
    BY <1>11 DEF Crash, StopKeeperClock, LockIInv, LockTypeOK, KeeperMatchesCall,
                 KeeperInTime, KeyHasOwner, LeaseIsKey, Alive
<1>12. CASE UNCHANGED lockVars
    BY <1>12 DEF lockVars, LockIInv, LockTypeOK, KeeperMatchesCall, KeeperInTime,
                 KeyHasOwner, LeaseIsKey, Alive
<1> QED
    BY <1>1, <1>2, <1>3, <1>4, <1>5, <1>6, <1>7, <1>8, <1>9, <1>10, <1>11, <1>12
    DEF LockNext

\* The inductive invariant holds in every reachable state.
THEOREM LockInvariant == LockSpec => []LockIInv
BY LockStart, LockStep, PTL DEF LockSpec

\* Every variable of the lock keeps its type.
THEOREM LockTypeCorrect == LockSpec => []LockTypeOK
<1>1. LockIInv => LockTypeOK
    BY DEF LockIInv
<1> QED BY <1>1, LockInvariant, PTL

\* At most one scan of a mirror that has run for less than lockTTL seconds runs
\* at any time, on all the nodes together (Get, clusterlock.go:42).
THEOREM LockFreshExclusion == LockSpec => []FreshExclusion
<1>1. LockIInv => FreshExclusion
    BY DEF LockIInv, LeaseIsKey, FreshExclusion
<1> QED BY <1>1, LockInvariant, PTL

\* IsScanning sees every scan that has run for less than lockTTL seconds.
THEOREM LockFreshIsVisible == LockSpec => []FreshIsVisible
<1>1. LockIInv => FreshIsVisible
    BY DEF LockIInv, LeaseIsKey, FreshIsVisible
<1> QED BY <1>1, LockInvariant, PTL

\* The keeper's DEL never removes the key of another session, although it does
\* not look at the value stored in the key (clusterlock.go:72).
THEOREM LockDeletesOwnKey == LockSpec => DeletesOwnKey
<1>1. ASSUME LockIInv, [LockNext]_lockVars
      PROVE  [ \A s \in Session :
                 ~removed /\ KeeperDone(s) /\ owner # NoSession
                     /\ owner' = NoSession
                   => owner = s ]_lockVars
    BY <1>1 DEF KeeperDone, LockIInv, LeaseIsKey, Alive
<1> QED BY <1>1, LockInvariant, PTL DEF LockSpec, DeletesOwnKey
=============================================================================
