--------------------------- MODULE PipelineLemmas ---------------------------
(***************************************************************************)
(* One node's pipeline: every operator of Execute keeps Piped.             *)
(*                                                                         *)
(* What execution on one node needs to know of the rest of the cluster is  *)
(* a set V of nodes on one chain that holds every decided node and the     *)
(* parent of every node of the tree.                                       *)
(***************************************************************************)
EXTENDS Pipeline, HotStuffProofs

OnOneChain(V) ==
    V \subseteq Nodes /\ \A a, b \in V : Len(a) <= Len(b) => a = SubSeq(b, 1, Len(a))

Grounded(ex, V) ==
    /\ ex.decided_nodes \subseteq V
    /\ \A n \in ex.tree : Parent(n) = GENESIS_HASH \/ Parent(n) \in V

-----------------------------------------------------------------------------
\* Prefixes of a workload directory.
LEMMA OwnFacts ==
    ASSUME NEW id \in Replicas, NEW k \in 0 .. NumBlocks
    PROVE  /\ Own(id, k) \in Seq(Cmds) /\ Len(Own(id, k)) = k
           /\ \A j \in 1 .. k : Own(id, k)[j] = Workload[id][j]
           /\ k >= 1 => Own(id, k) \in Nodes /\ Height(Own(id, k)) = k - 1
           /\ k = 0 => Own(id, k) = << >>
<1>1. k \in Int /\ k >= 0 /\ NumBlocks \in Nat
  BY SizeAssumption
<1>2. Workload[id] \in Seq(Cmds) /\ Len(Workload[id]) = NumBlocks
  BY WorkloadAssumption
<1>3. \A j \in 1 .. k : Workload[id][j] \in Cmds
  BY <1>1, <1>2, SeqElement
<1>4. /\ Own(id, k) \in Seq(Cmds) /\ Len(Own(id, k)) = k
      /\ \A j \in 1 .. k : Own(id, k)[j] = Workload[id][j]
  BY <1>1, <1>3, SeqSub DEF Own
<1>5. k = 0 => Own(id, k) = << >>
  BY <1>4, SeqEmpty
<1>. QED  BY <1>1, <1>4, <1>5 DEF Nodes, Height

\* A prefix of a prefix.
LEMMA OwnPrefix ==
    ASSUME NEW id \in Replicas, NEW k \in 0 .. NumBlocks, NEW j \in 0 .. k
    PROVE  SubSeq(Own(id, k), 1, j) = Own(id, j)
<1>1. j \in 0 .. NumBlocks /\ j \in Int /\ k \in Int
  BY SizeAssumption
<1>2. Own(id, k) \in Seq(Cmds) /\ Len(Own(id, k)) = k
  BY OwnFacts
<1>3. \A m \in 1 .. j : Own(id, k)[m] \in Cmds /\ Own(id, k)[m] = Workload[id][m]
  <2>. SUFFICES ASSUME NEW m \in 1 .. j
                PROVE  Own(id, k)[m] \in Cmds /\ Own(id, k)[m] = Workload[id][m]
    OBVIOUS
  <2>1. m \in 1 .. k
    BY <1>1
  <2>. QED  BY <1>2, <2>1, OwnFacts, SeqElement
<1>. DEFINE s == SubSeq(Own(id, k), 1, j)
<1>4. s \in Seq(Cmds) /\ Len(s) = j /\ \A m \in 1 .. j : s[m] = Workload[id][m]
  BY <1>1, <1>3, SeqSub
<1>5. /\ Own(id, j) \in Seq(Cmds) /\ Len(Own(id, j)) = j
      /\ \A m \in 1 .. j : Own(id, j)[m] = Workload[id][m]
  BY <1>1, OwnFacts
<1>. HIDE DEF s
<1>6. s = Own(id, j)
  BY <1>4, <1>5, SameSeq
<1>. QED  BY <1>6 DEF s

\* The parent of a replica's own node of height k + 1 is its own node of height k.
LEMMA OwnParent ==
    ASSUME NEW id \in Replicas, NEW k \in 0 .. NumBlocks - 1
    PROVE  Parent(Own(id, k + 1)) = Own(id, k)
<1>1. k \in 0 .. k + 1 /\ k + 1 \in 0 .. NumBlocks /\ k + 1 - 1 = k
  BY SizeAssumption
<1>2. Len(Own(id, k + 1)) = k + 1
  BY <1>1, OwnFacts
<1>. QED  BY <1>1, <1>2, OwnPrefix DEF Parent

\* The child of a prefix that names the local block is the next prefix.
LEMMA OwnChild ==
    ASSUME NEW id \in Replicas, NEW k \in 0 .. NumBlocks, NEW n \in Nodes,
           Parent(n) = Own(id, k), Block(id, Height(n)) = n[Len(n)]
    PROVE  k < NumBlocks /\ n = Own(id, k + 1)
<1>1. k \in Int /\ NumBlocks \in Nat /\ Len(n) \in 1 .. NumBlocks /\ n \in Seq(Cmds)
  BY SizeAssumption DEF Nodes
<1>2. Len(n) - 1 = k
  BY ParentLength, OwnFacts
<1>3. k < NumBlocks /\ Len(n) = k + 1 /\ k + 1 \in 0 .. NumBlocks
  BY <1>1, <1>2
<1>4. /\ Own(id, k + 1) \in Seq(Cmds) /\ Len(Own(id, k + 1)) = k + 1
      /\ \A j \in 1 .. k + 1 : Own(id, k + 1)[j] = Workload[id][j]
  BY <1>3, OwnFacts
<1>5. n[k + 1] = Workload[id][k + 1]
  BY <1>1, <1>3 DEF Block, Height
<1>6. ASSUME NEW j \in 1 .. k
      PROVE  n[j] = Workload[id][j]
  <2>1. \A m \in 1 .. k : n[m] \in Cmds
    BY <1>1, <1>3, SeqElement
  <2>2. SubSeq(n, 1, k)[j] = n[1 + j - 1]
    BY <1>1, <2>1, SeqSub
  <2>3. SubSeq(n, 1, k) = Own(id, k)
    BY <1>2 DEF Parent
  <2>4. Own(id, k)[j] = Workload[id][j]
    BY OwnFacts
  <2>5. 1 + j - 1 = j
    BY <1>1
  <2>. QED  BY <2>2, <2>3, <2>4, <2>5
<1>7. \A j \in 1 .. Len(n) : n[j] = Own(id, k + 1)[j]
  <2>. SUFFICES ASSUME NEW j \in 1 .. k + 1 PROVE n[j] = Workload[id][j]
    BY <1>3, <1>4
  <2>1. CASE j = k + 1
    BY <1>5, <2>1
  <2>2. CASE j # k + 1
    BY <1>1, <1>6, <2>2
  <2>. QED  BY <2>1, <2>2
<1>. QED  BY <1>1, <1>3, <1>4, <1>7, SameSeq

\* A prefix of a prefix of any node.
LEMMA SubSeqOfPrefix ==
    ASSUME NEW d \in Seq(Cmds), NEW k \in 0 .. Len(d), NEW j \in 0 .. k
    PROVE  SubSeq(SubSeq(d, 1, k), 1, j) = SubSeq(d, 1, j)
<1>1. Len(d) \in Nat /\ k \in Int /\ j \in Int /\ \A m \in 1 .. k : d[m] \in Cmds
  BY SeqLen, SeqElement
<1>. DEFINE a == SubSeq(d, 1, k)
            b == SubSeq(a, 1, j)
            c == SubSeq(d, 1, j)
<1>2. \A m \in 1 .. k : a[m] = d[m]
  <2>1. \A m \in 1 .. k - 1 + 1 : a[m] = d[1 + m - 1]
    BY <1>1, SeqSub
  <2>. HIDE DEF a
  <2>. QED  BY <1>1, <2>1
<1>. HIDE DEF a
<1>3. \A m \in 1 .. j : a[m] \in Cmds /\ d[m] \in Cmds /\ a[m] = d[m]
  BY <1>1, <1>2
<1>4. /\ b \in Seq(Cmds) /\ Len(b) = j /\ \A m \in 1 .. j - 1 + 1 : b[m] = a[1 + m - 1]
      /\ c \in Seq(Cmds) /\ Len(c) = j /\ \A m \in 1 .. j - 1 + 1 : c[m] = d[1 + m - 1]
  BY <1>1, <1>3, SeqSub
<1>. HIDE DEF b, c
<1>5. \A m \in 1 .. j : b[m] = c[m]
  BY <1>1, <1>3, <1>4
<1>6. b = c
  BY <1>4, <1>5, SameSeq
<1>. QED  BY <1>6 DEF a, b, c

\* A prefix is known by its length.
LEMMA OwnMember ==
    ASSUME NEW id \in Replicas, NEW S, S \subseteq 0 .. NumBlocks
    PROVE  /\ \A n \in OwnNodes(id, S) : Len(n) \in S /\ n = Own(id, Len(n))
           /\ \A k \in S : Own(id, k) \in OwnNodes(id, S)
           /\ \A k \in 0 .. NumBlocks : Own(id, k) \in OwnNodes(id, S) => k \in S
<1>1. \A k \in 0 .. NumBlocks : Len(Own(id, k)) = k
  BY OwnFacts
<1>2. \A n \in OwnNodes(id, S) : Len(n) \in S /\ n = Own(id, Len(n))
  BY <1>1 DEF OwnNodes
<1>3. \A k \in S : Own(id, k) \in OwnNodes(id, S)
  BY DEF OwnNodes
<1>4. \A k \in 0 .. NumBlocks : Own(id, k) \in OwnNodes(id, S) => k \in S
  BY <1>1, <1>2
<1>. QED  BY <1>2, <1>3, <1>4

-----------------------------------------------------------------------------
\* How far a node in step with its directory can have come.
LEMMA PipedBounds ==
    ASSUME NEW id, NEW ex, ExecutionOK(ex), NEW K, Piped(id, ex, K)
    PROVE  /\ ex.last_executed_height \in -1 .. NumBlocks - 1 /\ NumBlocks \in Nat
           /\ K \in 0 .. NumBlocks /\ ex.last_executed_height + 1 <= K
           /\ 1 .. K \subseteq 0 .. NumBlocks
           /\ ex.last_executed_height + 2 .. K \subseteq 0 .. NumBlocks
<1>1. ex.last_executed_height \in -1 .. NumBlocks - 1
  BY DEF ExecutionOK
<1>2. K \in 0 .. NumBlocks /\ ex.last_executed_height + 1 <= K
  BY DEF Piped
<1>. QED  BY <1>1, <1>2, SizeAssumption

\* What it has validated and executed.
LEMMA PipedNodes ==
    ASSUME NEW id, NEW ex, ExecutionOK(ex), NEW K, Piped(id, ex, K)
    PROVE  /\ ex.tree \subseteq Nodes /\ ex.valid = OwnNodes(id, 1 .. K)
           /\ ex.last_executed_height >= 0 =>
                 \E d \in ex.decided_nodes :
                    /\ Height(d) >= ex.last_executed_height
                    /\ Ancestor(d, ex.last_executed_height) =
                          Own(id, ex.last_executed_height + 1)
<1>1. ex.tree \subseteq Nodes
  BY DEF ExecutionOK
<1>. QED  BY <1>1 DEF Piped

\* Two nodes of one chain have the same ancestors.
LEMMA SameAncestor ==
    ASSUME NEW V, OnOneChain(V), NEW a \in V, NEW b \in V,
           NEW h \in Nat, h <= Height(a), h <= Height(b)
    PROVE  Ancestor(a, h) = Ancestor(b, h)
<1>1. ASSUME NEW c \in V, NEW d \in V, Len(c) <= Len(d), h <= Height(c)
      PROVE  Ancestor(c, h) = Ancestor(d, h)
  <2>1. c = SubSeq(d, 1, Len(c)) /\ d \in Seq(Cmds) /\ Len(d) \in Nat /\ Len(c) \in 1 .. Len(d)
    BY <1>1 DEF OnOneChain, Nodes
  <2>2. Len(c) \in 0 .. Len(d) /\ h + 1 \in 0 .. Len(c)
    BY <1>1, <2>1 DEF Height
  <2>3. SubSeq(SubSeq(d, 1, Len(c)), 1, h + 1) = SubSeq(d, 1, h + 1)
    BY <2>1, <2>2, SubSeqOfPrefix
  <2>. QED  BY <2>1, <2>3 DEF Ancestor
<1>2. Len(a) \in Nat /\ Len(b) \in Nat
  BY DEF OnOneChain, Nodes
<1>3. CASE Len(a) <= Len(b)
  BY <1>1, <1>3
<1>4. CASE Len(b) <= Len(a)
  BY <1>1, <1>4
<1>. QED  BY <1>2, <1>3, <1>4

\* What a node has executed is the part of every decided chain up to that height,
\* and a valid node.
LEMMA ExecutedAncestor ==
    ASSUME NEW id \in Replicas, NEW ex, ExecutionOK(ex), NEW K, Piped(id, ex, K),
           NEW V, OnOneChain(V), Grounded(ex, V), NEW d \in ex.decided_nodes,
           ex.last_executed_height >= 0, ex.last_executed_height <= Height(d)
    PROVE  LET own == Own(id, ex.last_executed_height + 1)
           IN  Ancestor(d, ex.last_executed_height) = own /\ own \in ex.valid
<1>. DEFINE h == ex.last_executed_height
<1>0. h \in -1 .. NumBlocks - 1 /\ K \in 0 .. NumBlocks /\ h + 1 <= K /\ NumBlocks \in Nat
  BY PipedBounds
<1>1. h \in Nat /\ h + 1 \in 1 .. K
  BY <1>0
<1>2. PICK e \in ex.decided_nodes : Height(e) >= h /\ Ancestor(e, h) = Own(id, h + 1)
  BY PipedNodes
<1>3. d \in V /\ e \in V /\ V \subseteq Nodes
  BY DEF Grounded, OnOneChain
<1>4. Height(e) \in Int
  BY <1>3 DEF Nodes, Height
<1>5. h <= Height(e)
  BY <1>1, <1>2, <1>4
<1>6. Ancestor(d, h) = Ancestor(e, h)
  BY <1>1, <1>3, <1>5, SameAncestor
<1>7. Own(id, h + 1) \in OwnNodes(id, 1 .. K)
  BY <1>1 DEF OwnNodes
<1>. QED  BY <1>2, <1>6, <1>7, PipedNodes

\* A node of V no longer than what has been executed is what has been executed.
LEMMA ExecutedIsOwn ==
    ASSUME NEW id \in Replicas, NEW ex, ExecutionOK(ex), NEW K, Piped(id, ex, K),
           NEW V, OnOneChain(V), Grounded(ex, V),
           NEW n \in V, Len(n) <= ex.last_executed_height + 1
    PROVE  n = Own(id, Len(n))
<1>. DEFINE h == ex.last_executed_height
<1>1. h \in -1 .. NumBlocks - 1 /\ NumBlocks \in Nat /\ K \in 0 .. NumBlocks
  BY SizeAssumption DEF ExecutionOK, Piped
<1>2. n \in Seq(Cmds) /\ Len(n) \in 1 .. NumBlocks
  BY DEF OnOneChain, Nodes
<1>3. h >= 0
  BY <1>1, <1>2
<1>4. PICK d \in ex.decided_nodes : Height(d) >= h /\ Ancestor(d, h) = Own(id, h + 1)
  BY <1>3 DEF Piped
<1>5. d \in V /\ d \in Seq(Cmds) /\ Len(d) \in 1 .. NumBlocks /\ Len(d) >= h + 1
  BY <1>1, <1>4 DEF Grounded, OnOneChain, Nodes, Height
<1>6. n = SubSeq(d, 1, Len(n))
  BY <1>1, <1>2, <1>5 DEF OnOneChain
<1>7. SubSeq(d, 1, h + 1) = Own(id, h + 1)
  BY <1>4 DEF Ancestor
<1>8. h + 1 \in 0 .. NumBlocks /\ Len(n) \in 0 .. h + 1
  BY <1>1, <1>2
<1>9. SubSeq(SubSeq(d, 1, h + 1), 1, Len(n)) = SubSeq(d, 1, Len(n))
  BY <1>1, <1>5, <1>8, SubSeqOfPrefix
<1>. QED  BY <1>6, <1>7, <1>8, <1>9, OwnPrefix

\* maybe_kick_validation submits the block after the last valid one, and only
\* when nothing is in flight; its input is the state that block starts from.
LEMMA KickIsNext ==
    ASSUME NEW id \in Replicas, NEW ex, ExecutionOK(ex), NEW K, Piped(id, ex, K),
           NEW V, OnOneChain(V), Grounded(ex, V),
           NEW leaf, CanKick(id, ex, leaf)
    PROVE  /\ K < NumBlocks /\ leaf = Own(id, K + 1) /\ ex.invalid = {}
           /\ ex.queue = << >> /\ ex.pending_validation = NoPending
           /\ id \in Reexecutes => InputState(ex, leaf) = Own(id, K)
<1>. DEFINE h == ex.last_executed_height
            p == Parent(leaf)
<1>1. /\ h \in -1 .. NumBlocks - 1 /\ NumBlocks \in Nat /\ K \in 0 .. NumBlocks
      /\ h + 1 <= K /\ 1 .. K \subseteq 0 .. NumBlocks /\ h + 2 .. K \subseteq 0 .. NumBlocks
  BY SizeAssumption DEF ExecutionOK, Piped
<1>2. /\ leaf \in Nodes /\ leaf \notin ex.valid /\ leaf \notin ex.invalid
      /\ leaf # ex.pending_validation /\ leaf \in ex.tree
      /\ Block(id, Height(leaf)) = leaf[Len(leaf)]
  BY DEF CanKick, ExecutionOK
<1>3. p \in Seq(Cmds) /\ Len(p) = Len(leaf) - 1 /\ Len(leaf) \in 1 .. NumBlocks
  BY <1>2, ParentLength DEF Nodes
<1>4. p = Own(id, Len(p)) /\ Len(p) <= K
  <2>1. CASE p = GENESIS_HASH
    BY <1>1, <2>1, OwnFacts DEF GENESIS_HASH
  <2>2. CASE p # GENESIS_HASH /\ ParentCommitted(ex, leaf)
    <3>1. p \in V /\ Height(leaf) - 1 <= h
      BY <1>2, <2>2 DEF ParentCommitted, Grounded
    <3>2. Len(p) <= h + 1
      BY <1>1, <1>3, <3>1 DEF Height
    <3>. QED  BY <1>1, <1>3, <3>1, <3>2, ExecutedIsOwn
  <2>3. CASE ParentValidated(ex, leaf)
    <3>1. p \in DOMAIN ex.post_state_by_node
      BY <2>3 DEF ParentValidated
    <3>2. p \in OwnNodes(id, h + 2 .. K)
      BY <3>1 DEF Piped, StatesOK, RootsOK, AfterEach
    <3>3. Len(p) \in h + 2 .. K /\ p = Own(id, Len(p))
      BY <1>1, <3>2, OwnMember
    <3>. QED  BY <1>1, <1>3, <3>3
  <2>. QED  BY <2>1, <2>2, <2>3 DEF CanKick
<1>5. Len(p) \in 0 .. NumBlocks
  BY <1>1, <1>3, <1>4
<1>6. Len(p) < NumBlocks /\ leaf = Own(id, Len(p) + 1)
  BY <1>2, <1>4, <1>5, OwnChild
<1>7. Len(p) = K
  <2>. SUFFICES ASSUME Len(p) < K PROVE FALSE
    BY <1>1, <1>4, <1>5
  <2>1. Len(p) + 1 \in 1 .. K
    BY <1>1, <1>5
  <2>2. leaf \in OwnNodes(id, 1 .. K)
    BY <1>1, <1>6, <2>1, OwnMember
  <2>. QED  BY <1>2, <2>2 DEF Piped
<1>8. K < NumBlocks /\ leaf = Own(id, K + 1)
  BY <1>6, <1>7
<1>9. ex.invalid = {}
  BY <1>2, <1>8 DEF Piped
<1>10. ex.queue = << >> /\ ex.pending_validation = NoPending
  BY <1>2, <1>8 DEF Piped, InFlight
<1>11. ASSUME id \in Reexecutes
       PROVE  InputState(ex, leaf) = Own(id, K)
  <2>1. StatesOK(id, ex, K)
    BY <1>11 DEF Piped
  <2>2. CASE ParentCommitted(ex, leaf)
    <3>1. h + 1 = K
      <4>1. CASE p = GENESIS_HASH
        <5>1. h < 0 /\ Len(p) = 0
          BY <2>2, <4>1, SeqEmpty DEF ParentCommitted, GENESIS_HASH
        <5>. QED  BY <1>1, <1>7, <5>1
      <4>2. CASE p # GENESIS_HASH
        <5>1. Height(leaf) - 1 <= h
          BY <2>2, <4>2 DEF ParentCommitted
        <5>. QED  BY <1>1, <1>3, <1>7, <5>1 DEF Height
      <4>. QED  BY <4>1, <4>2
    <3>. QED  BY <2>1, <2>2, <3>1 DEF InputState, StatesOK
  <2>3. CASE ~ParentCommitted(ex, leaf)
    <3>1. p \in DOMAIN ex.post_state_by_node
      BY <2>3 DEF CanKick, ParentValidated
    <3>2. ex.post_state_by_node[p] = p
      BY <2>1, <3>1 DEF StatesOK, AfterEach
    <3>. QED  BY <1>4, <1>7, <2>3, <3>2 DEF InputState
  <2>. QED  BY <2>2, <2>3
<1>. QED  BY <1>8, <1>9, <1>10, <1>11

\* Starting a validation keeps the pipeline of the execution.
LEMMA MaybeKickPiped ==
    ASSUME NEW id \in Replicas, NEW ex, ExecutionOK(ex), NEW K, Piped(id, ex, K),
           NEW V, OnOneChain(V), Grounded(ex, V), NEW leaf
    PROVE  Piped(id, MaybeKickValidation(id, ex, leaf), K)
<1>1. CASE ~CanKick(id, ex, leaf)
  BY <1>1 DEF MaybeKickValidation
<1>2. CASE CanKick(id, ex, leaf)
  <2>. DEFINE new == MaybeKickValidation(id, ex, leaf)
              req == [node |-> leaf, input |-> InputState(ex, leaf)]
  <2>1. /\ K < NumBlocks /\ leaf = Own(id, K + 1) /\ ex.invalid = {} /\ ex.queue = << >>
        /\ id \in Reexecutes => InputState(ex, leaf) = Own(id, K)
    BY <1>2, KickIsNext
  <2>2. /\ new.pending_validation = leaf /\ new.queue = Append(<< >>, req)
        /\ new.valid = ex.valid /\ new.invalid = ex.invalid
        /\ new.last_executed_height = ex.last_executed_height
        /\ new.live_state = ex.live_state /\ new.chained_root = ex.chained_root
        /\ new.post_state_by_node = ex.post_state_by_node
        /\ new.pre_root_by_node = ex.pre_root_by_node
        /\ new.post_root_by_node = ex.post_root_by_node
        /\ new.panicked = ex.panicked /\ new.decided_nodes = ex.decided_nodes
    BY <1>2, <2>1 DEF MaybeKickValidation, ExecutionOK, ExecutionFields
  <2>3. Len(new.queue) = 1 /\ new.queue[1] = req
    BY <2>2
  <2>. HIDE DEF new
  <2>4. InFlight(id, new, K)
    BY <2>1, <2>2, <2>3 DEF InFlight
  <2>5. /\ StatesOK(id, ex, K) => StatesOK(id, new, K)
        /\ RootsOK(id, ex, K) => RootsOK(id, new, K)
    BY <2>2 DEF StatesOK, RootsOK
  <2>6. Piped(id, new, K)
    BY <2>2, <2>4, <2>5 DEF Piped
  <2>. QED  BY <2>6 DEF new
<1>. QED  BY <1>1, <1>2

\* So does trying every pending validation.
LEMMA TryKickPiped ==
    ASSUME NEW id \in Replicas, NEW ex, ExecutionOK(ex), NEW K, Piped(id, ex, K),
           NEW V, OnOneChain(V), Grounded(ex, V)
    PROVE  Piped(id, TryKickPendingValidations(id, ex), K)
  BY MaybeKickPiped DEF TryKickPendingValidations

\* What the loop of try_execute_chain applies are the next blocks of the node's
\* own directory.
LEMMA AppliedIsOwn ==
    ASSUME NEW id \in Replicas, NEW ex, ExecutionOK(ex), NEW K, Piped(id, ex, K),
           NEW d \in Nodes, Height(d) > ex.last_executed_height,
           NEW top, top = AppliedTo(ex, d)
    PROVE  /\ top \in ex.last_executed_height .. Height(d) /\ top + 1 <= K
           /\ \A k \in ex.last_executed_height + 1 .. top : Ancestor(d, k) = Own(id, k + 1)
<1>. DEFINE h == ex.last_executed_height
            S == {x \in h .. Height(d) : \A k \in h + 1 .. x : Ancestor(d, k) \in ex.valid}
<1>1. /\ h \in -1 .. NumBlocks - 1 /\ Height(d) \in 0 .. NumBlocks - 1 /\ NumBlocks \in Nat
      /\ K \in 0 .. NumBlocks /\ h + 1 <= K /\ 1 .. K \subseteq 0 .. NumBlocks
  BY SizeAssumption DEF ExecutionOK, Nodes, Height, Piped
<1>2. h \in S /\ S \subseteq Int /\ \A x \in S : x <= Height(d)
  BY <1>1
<1>3. top \in S
  <2>1. top = Highest(S) /\ S # {} /\ Height(d) \in Int
    BY <1>1, <1>2 DEF AppliedTo
  <2>. HIDE DEF S
  <2>. QED  BY <1>2, <2>1, HighestIsGreatest
<1>4. ASSUME NEW k \in h + 1 .. top
      PROVE  Ancestor(d, k) = Own(id, k + 1) /\ k + 1 <= K
  <2>1. k \in 0 .. Height(d) /\ Ancestor(d, k) \in OwnNodes(id, 1 .. K)
    BY <1>1, <1>3 DEF Piped
  <2>2. Len(Ancestor(d, k)) = k + 1
    BY <1>1, <2>1, AncestorIsNode DEF Height, Nodes
  <2>. QED  BY <1>1, <2>1, <2>2, OwnMember
<1>5. top + 1 <= K
  <2>1. CASE top = h
    BY <1>1, <2>1
  <2>2. CASE top # h
    <3>1. top \in h + 1 .. top
      BY <1>1, <1>3, <2>2
    <3>. QED  BY <1>4, <3>1
  <2>. QED  BY <2>1, <2>2
<1>. QED  BY <1>3, <1>4, <1>5

\* chained_root at every height the loop reaches.
LEMMA ChainedIsOwn ==
    ASSUME NEW id \in Replicas, NEW ex, ExecutionOK(ex), NEW K, Piped(id, ex, K),
           NEW d \in Nodes, NEW top \in ex.last_executed_height .. Height(d), top + 1 <= K,
           \A k \in ex.last_executed_height + 1 .. top : Ancestor(d, k) = Own(id, k + 1),
           NEW x \in ex.last_executed_height + 1 .. top + 1
    PROVE  ChainedBefore(ex, d, x) =
             IF id \in Reexecutes \/ x = 0 THEN ZeroRoot ELSE Own(id, x)
<1>. DEFINE h == ex.last_executed_height
            rooted == {k \in h + 1 .. x - 1 :
                         Ancestor(d, k) \in DOMAIN ex.pre_root_by_node
                                            \cap DOMAIN ex.post_root_by_node}
<1>1. /\ h \in -1 .. NumBlocks - 1 /\ Height(d) \in 0 .. NumBlocks - 1 /\ NumBlocks \in Nat
      /\ K \in 0 .. NumBlocks /\ h + 1 <= K
      /\ 1 .. K \subseteq 0 .. NumBlocks /\ h + 2 .. K \subseteq 0 .. NumBlocks
  <2>1. h \in -1 .. NumBlocks - 1 /\ NumBlocks \in Nat
    BY SizeAssumption DEF ExecutionOK
  <2>2. Height(d) \in 0 .. NumBlocks - 1
    BY SizeAssumption DEF Nodes, Height
  <2>3. K \in 0 .. NumBlocks /\ h + 1 <= K
    BY DEF Piped
  <2>. HIDE DEF h
  <2>4. 1 .. K \subseteq 0 .. NumBlocks /\ h + 2 .. K \subseteq 0 .. NumBlocks
    BY <2>1, <2>3
  <2>. QED  BY <2>1, <2>2, <2>3, <2>4
<1>2. CASE id \in Reexecutes
  <2>1. rooted = {} /\ ex.chained_root = ZeroRoot
    BY <1>2 DEF Piped, StatesOK
  <2>. QED  BY <1>2, <2>1 DEF ChainedBefore
<1>3. CASE id \notin Reexecutes
  <2>1. RootsOK(id, ex, K)
    BY <1>3 DEF Piped
  <2>2. ASSUME NEW k \in h + 1 .. x - 1
        PROVE  k \in rooted
    <3>1. k \in h + 1 .. top /\ k + 1 \in 1 .. K /\ k + 1 \in h + 2 .. K
      BY <1>1
    <3>2. Own(id, k + 1) \in OwnNodes(id, 1 .. K) /\ Own(id, k + 1) \in OwnNodes(id, h + 2 .. K)
      BY <1>1, <3>1, OwnMember
    <3>. QED  BY <2>1, <3>1, <3>2 DEF RootsOK, AfterEach
  <2>3. CASE x = h + 1
    <3>1. rooted = {}
      BY <1>1, <2>3
    <3>2. ChainedBefore(ex, d, x) = ex.chained_root
      BY <3>1 DEF ChainedBefore
    <3>3. ex.chained_root = IF h < 0 THEN ZeroRoot ELSE Own(id, h + 1)
      BY <2>1 DEF RootsOK
    <3>. QED  BY <1>1, <1>3, <2>3, <3>2, <3>3
  <2>4. CASE x # h + 1
    <3>1. x - 1 \in h + 1 .. x - 1 /\ x \in Int
      BY <1>1, <2>4
    <3>2. x - 1 \in rooted /\ rooted # {} /\ rooted \subseteq Int
          /\ \A k \in rooted : k <= x - 1
      BY <1>1, <2>2, <3>1
    <3>. HIDE DEF rooted
    <3>3. Highest(rooted) \in rooted /\ \A k \in rooted : k <= Highest(rooted)
      BY <3>1, <3>2, HighestIsGreatest
    <3>4. Highest(rooted) = x - 1
      <4>1. Highest(rooted) \in Int /\ Highest(rooted) <= x - 1 /\ x - 1 <= Highest(rooted)
        BY <3>2, <3>3
      <4>. QED  BY <3>1, <4>1
    <3>5. ChainedBefore(ex, d, x) = ex.post_root_by_node[Ancestor(d, x - 1)]
      BY <3>2, <3>4 DEF ChainedBefore, rooted
    <3>6. x - 1 \in h + 1 .. top /\ x - 1 + 1 = x /\ x \in h + 2 .. K /\ x > 0
      BY <1>1, <3>1
    <3>7. Ancestor(d, x - 1) = Own(id, x)
      BY <3>6
    <3>8. Own(id, x) \in OwnNodes(id, h + 2 .. K)
      BY <1>1, <3>6, OwnMember
    <3>9. ex.post_root_by_node[Own(id, x)] = Own(id, x)
      BY <2>1, <3>8 DEF RootsOK, AfterEach
    <3>. QED  BY <1>3, <3>5, <3>6, <3>7, <3>9
  <2>. QED  BY <2>3, <2>4
<1>. QED  BY <1>2, <1>3

\* HashMap::remove of the applied prefixes leaves those after them.
LEMMA DropOwn ==
    ASSUME NEW id \in Replicas, NEW a \in Int, NEW b \in Int, NEW K \in 0 .. NumBlocks,
           1 <= a, a <= b, b - 1 <= K,
           NEW f, AfterEach(f, OwnNodes(id, a .. K)),
           NEW gone, gone = OwnNodes(id, a .. b - 1)
    PROVE  AfterEach(Drop(f, gone), OwnNodes(id, b .. K))
<1>1. NumBlocks \in Nat /\ a .. K \subseteq 0 .. NumBlocks /\ b .. K \subseteq 0 .. NumBlocks
      /\ a .. b - 1 \subseteq 0 .. NumBlocks
  BY SizeAssumption
<1>2. OwnNodes(id, a .. K) \ gone = OwnNodes(id, b .. K)
  <2>1. ASSUME NEW n \in OwnNodes(id, a .. K), n \notin gone
        PROVE  n \in OwnNodes(id, b .. K)
    <3>1. Len(n) \in a .. K /\ n = Own(id, Len(n))
      BY <1>1, OwnMember
    <3>2. Len(n) \notin a .. b - 1
      BY <1>1, <2>1, <3>1, OwnMember
    <3>3. Len(n) \in b .. K
      BY <1>1, <3>1, <3>2
    <3>. QED  BY <1>1, <3>1, <3>3, OwnMember
  <2>2. ASSUME NEW n \in OwnNodes(id, b .. K)
        PROVE  n \in OwnNodes(id, a .. K) /\ n \notin gone
    <3>1. Len(n) \in b .. K /\ n = Own(id, Len(n))
      BY <1>1, OwnMember
    <3>2. Len(n) \in a .. K /\ Len(n) \notin a .. b - 1
      BY <1>1, <3>1
    <3>. QED  BY <1>1, <3>1, <3>2, OwnMember
  <2>. QED  BY <2>1, <2>2
<1>. QED  BY <1>2 DEF AfterEach, Drop

\* The loop of try_execute_chain keeps states, roots and heights in step.
LEMMA ApplyChainPiped ==
    ASSUME NEW id \in Replicas, NEW ex, ExecutionOK(ex), NEW K, Piped(id, ex, K),
           NEW d \in Nodes, d \in ex.decided_nodes,
           NEW top \in ex.last_executed_height .. Height(d), top + 1 <= K,
           \A k \in ex.last_executed_height + 1 .. top : Ancestor(d, k) = Own(id, k + 1)
    PROVE  Piped(id, ApplyChain(ex, d, top), K)
<1>. DEFINE h == ex.last_executed_height
            applied == h + 1 .. top
            nodes == {Ancestor(d, x) : x \in applied}
            stated == {x \in applied : Ancestor(d, x) \in DOMAIN ex.post_state_by_node}
            new == ApplyChain(ex, d, top)
            live == IF stated = {} THEN ex.live_state
                    ELSE ex.post_state_by_node[Ancestor(d, Highest(stated))]
<1>1. /\ h \in -1 .. NumBlocks - 1 /\ Height(d) \in 0 .. NumBlocks - 1 /\ NumBlocks \in Nat
      /\ K \in 0 .. NumBlocks /\ h + 1 <= K /\ top \in -1 .. NumBlocks - 1 /\ h <= top
      /\ 1 .. K \subseteq 0 .. NumBlocks /\ h + 2 .. K \subseteq 0 .. NumBlocks
  BY SizeAssumption DEF ExecutionOK, Nodes, Height, Piped
<1>2. /\ new.last_executed_height = top
      /\ new.valid = ex.valid /\ new.invalid = ex.invalid /\ new.queue = ex.queue
      /\ new.pending_validation = ex.pending_validation
      /\ new.decided_nodes = ex.decided_nodes
      /\ new.pre_root_by_node = ex.pre_root_by_node
      /\ new.post_state_by_node = Drop(ex.post_state_by_node, nodes)
      /\ new.post_root_by_node =
            Drop(ex.post_root_by_node, nodes \cap DOMAIN ex.pre_root_by_node)
      /\ new.chained_root = ChainedBefore(ex, d, top + 1)
      /\ new.live_state = live
  BY DEF ApplyChain, ExecutionOK, ExecutionFields
<1>3. new.panicked <=> (ex.panicked \/ \E x \in applied : ChainBreak(ex, d, x))
  BY DEF ApplyChain, ExecutionOK, ExecutionFields
<1>. HIDE DEF new
<1>4. nodes = OwnNodes(id, h + 2 .. top + 1)
  <2>1. ASSUME NEW x \in applied
        PROVE  Ancestor(d, x) \in OwnNodes(id, h + 2 .. top + 1)
    <3>1. x + 1 \in h + 2 .. top + 1 /\ Ancestor(d, x) = Own(id, x + 1)
      BY <1>1
    <3>. QED  BY <3>1 DEF OwnNodes
  <2>2. ASSUME NEW k \in h + 2 .. top + 1
        PROVE  Own(id, k) \in nodes
    <3>1. k - 1 \in applied /\ k - 1 + 1 = k
      BY <1>1
    <3>2. Ancestor(d, k - 1) = Own(id, k)
      BY <3>1
    <3>. QED  BY <3>1, <3>2
  <2>. QED  BY <2>1, <2>2 DEF OwnNodes
<1>5. /\ h + 2 \in Int /\ top + 2 \in Int /\ 1 <= h + 2 /\ h + 2 <= top + 2
      /\ top + 2 - 1 = top + 1 /\ top + 2 - 1 <= K /\ top + 1 \in h + 1 .. top + 1
  BY <1>1
<1>6. ASSUME NEW f, AfterEach(f, OwnNodes(id, h + 2 .. K))
      PROVE  AfterEach(Drop(f, nodes), OwnNodes(id, top + 2 .. K))
  <2>. DEFINE a == h + 2
              b == top + 2
  <2>1. a \in Int /\ b \in Int /\ 1 <= a /\ a <= b /\ b - 1 <= K /\ K \in 0 .. NumBlocks
    BY <1>1, <1>5
  <2>2. nodes = OwnNodes(id, a .. b - 1)
    BY <1>4, <1>5
  <2>3. AfterEach(f, OwnNodes(id, a .. K))
    BY <1>6
  <2>. HIDE DEF a, b, nodes
  <2>4. AfterEach(Drop(f, nodes), OwnNodes(id, b .. K))
    BY <2>1, <2>2, <2>3, DropOwn
  <2>. QED  BY <2>4 DEF b
<1>7. new.chained_root = IF id \in Reexecutes \/ top + 1 = 0 THEN ZeroRoot
                         ELSE Own(id, top + 1)
  BY <1>2, <1>5, ChainedIsOwn
<1>8. ASSUME id \in Reexecutes
      PROVE  StatesOK(id, new, K) /\ \A x \in applied : ~ChainBreak(ex, d, x)
  <2>1. StatesOK(id, ex, K)
    BY <1>8 DEF Piped
  <2>2. new.live_state = Own(id, top + 1)
    <3>1. CASE top = h
      <4>1. stated = {}
        BY <1>1, <3>1
      <4>. QED  BY <1>2, <2>1, <3>1, <4>1 DEF StatesOK
    <3>2. CASE top # h
      <4>1. top \in applied /\ top + 1 \in h + 2 .. K
        BY <1>1, <3>2
      <4>2. Ancestor(d, top) = Own(id, top + 1)
            /\ Own(id, top + 1) \in OwnNodes(id, h + 2 .. K)
        BY <1>1, <4>1, OwnMember
      <4>3. top \in stated
        BY <2>1, <4>1, <4>2 DEF StatesOK, AfterEach
      <4>4. stated \subseteq Int /\ \A x \in stated : x <= top
        BY <1>1
      <4>. HIDE DEF stated
      <4>5. Highest(stated) \in stated /\ \A x \in stated : x <= Highest(stated)
        BY <1>1, <4>3, <4>4, HighestIsGreatest
      <4>6. Highest(stated) \in Int /\ Highest(stated) <= top /\ top <= Highest(stated)
        BY <4>3, <4>4, <4>5
      <4>7. Highest(stated) = top
        BY <1>1, <4>6
      <4>8. new.live_state = ex.post_state_by_node[Own(id, top + 1)]
        BY <1>2, <4>2, <4>3, <4>7
      <4>. QED  BY <2>1, <4>2, <4>8 DEF StatesOK, AfterEach
    <3>. QED  BY <3>1, <3>2
  <2>3. DOMAIN new.pre_root_by_node = {} /\ DOMAIN new.post_root_by_node = {}
    BY <1>2, <2>1 DEF StatesOK, Drop
  <2>4. AfterEach(new.post_state_by_node, OwnNodes(id, top + 2 .. K))
    BY <1>2, <1>6, <2>1 DEF StatesOK
  <2>5. \A x \in applied : ~ChainBreak(ex, d, x)
    BY <2>1 DEF StatesOK, ChainBreak
  <2>. QED  BY <1>2, <1>7, <1>8, <2>2, <2>3, <2>4, <2>5 DEF StatesOK
<1>9. ASSUME id \notin Reexecutes
      PROVE  RootsOK(id, new, K) /\ \A x \in applied : ~ChainBreak(ex, d, x)
  <2>1. RootsOK(id, ex, K)
    BY <1>9 DEF Piped
  <2>2. stated = {} /\ DOMAIN new.post_state_by_node = {}
    BY <1>2, <2>1 DEF RootsOK, Drop
  <2>3. new.live_state = << >>
    BY <1>2, <2>1, <2>2 DEF RootsOK
  <2>4. nodes \cap DOMAIN ex.pre_root_by_node = nodes
    <3>1. h + 2 .. top + 1 \subseteq 1 .. K
      BY <1>1
    <3>. QED  BY <1>4, <2>1, <3>1 DEF RootsOK, OwnNodes
  <2>5. AfterEach(new.post_root_by_node, OwnNodes(id, top + 2 .. K))
    BY <1>2, <1>6, <2>1, <2>4 DEF RootsOK
  <2>6. new.chained_root = IF top < 0 THEN ZeroRoot ELSE Own(id, top + 1)
    BY <1>1, <1>7, <1>9
  <2>7. ASSUME NEW x \in applied
        PROVE  ~ChainBreak(ex, d, x)
    <3>1. x \in Int /\ x \in h + 1 .. top + 1 /\ x + 1 \in 1 .. K /\ x + 1 - 1 = x
      BY <1>1
    <3>2. Ancestor(d, x) = Own(id, x + 1)
      OBVIOUS
    <3>3. ex.pre_root_by_node[Own(id, x + 1)] = Own(id, x)
      BY <2>1, <3>1 DEF RootsOK
    <3>4. x > 0 => ChainedBefore(ex, d, x) = Own(id, x)
      BY <1>9, <3>1, ChainedIsOwn
    <3>. QED  BY <3>2, <3>3, <3>4 DEF ChainBreak
  <2>. QED  BY <1>2, <2>1, <2>2, <2>3, <2>5, <2>6, <2>7 DEF RootsOK
<1>10. InFlight(id, new, K)
  BY <1>2 DEF Piped, InFlight
<1>11. top >= 0 => \E e \in new.decided_nodes :
                      Height(e) >= top /\ Ancestor(e, top) = Own(id, top + 1)
  <2>1. CASE top = h
    BY <1>2, <2>1 DEF Piped
  <2>2. CASE top # h
    <3>1. top \in applied /\ Height(d) >= top
      BY <1>1, <2>2
    <3>. QED  BY <1>2, <3>1
  <2>. QED  BY <2>1, <2>2
<1>12. IF id \in Reexecutes THEN StatesOK(id, new, K) ELSE RootsOK(id, new, K)
  BY <1>8, <1>9
<1>13. ~new.panicked
  BY <1>3, <1>8, <1>9 DEF Piped
<1>14. Piped(id, new, K)
  BY <1>2, <1>10, <1>11, <1>12, <1>13 DEF Piped
<1>. QED  BY <1>14 DEF new

\* Executing a decided chain keeps the pipeline and never lowers the executed height.
LEMMA TryExecutePiped ==
    ASSUME NEW id \in Replicas, NEW ex, ExecutionOK(ex), NEW K, Piped(id, ex, K),
           NEW V, OnOneChain(V), Grounded(ex, V), NEW d \in ex.decided_nodes
    PROVE  /\ Piped(id, TryExecuteChain(id, ex, d), K)
           /\ ex.last_executed_height <= TryExecuteChain(id, ex, d).last_executed_height
<1>. DEFINE top == AppliedTo(ex, d)
            done == ApplyChain(ex, d, top)
            next == Ancestor(d, top + 1)
            new == TryExecuteChain(id, ex, d)
<1>1. d \in Nodes /\ Height(d) \in Int /\ ex.last_executed_height \in Int
  BY SizeAssumption DEF ExecutionOK, Nodes, Height
<1>2. CASE ~ChainKnown(ex, d) \/ Height(d) <= ex.last_executed_height
  BY <1>1, <1>2 DEF TryExecuteChain
<1>3. CASE ChainKnown(ex, d) /\ Height(d) > ex.last_executed_height
  <2>1. /\ top \in ex.last_executed_height .. Height(d) /\ top + 1 <= K
        /\ \A k \in ex.last_executed_height + 1 .. top : Ancestor(d, k) = Own(id, k + 1)
    BY <1>1, <1>3, AppliedIsOwn
  <2>2. new = IF top < Height(d) /\ next \notin ex.invalid
              THEN MaybeKickValidation(id, done, next) ELSE done
    BY <1>1, <1>3 DEF TryExecuteChain
  <2>. HIDE DEF top, new
  <2>3. ExecutionOK(done) /\ Piped(id, done, K)
    BY <1>1, <2>1, ApplyChainOK, ApplyChainPiped
  <2>4. /\ done.tree = ex.tree /\ done.decided_nodes = ex.decided_nodes
        /\ done.last_executed_height = top
    BY DEF ApplyChain, ExecutionOK, ExecutionFields
  <2>. HIDE DEF done, next
  <2>5. Grounded(done, V)
    BY <2>4 DEF Grounded
  <2>6. Piped(id, MaybeKickValidation(id, done, next), K)
    BY <2>3, <2>5, MaybeKickPiped
  <2>7. MaybeKickValidation(id, done, next).last_executed_height = top
    BY <2>3, <2>4 DEF MaybeKickValidation, ExecutionOK, ExecutionFields
  <2>8. Piped(id, new, K) /\ ex.last_executed_height <= new.last_executed_height
    BY <1>1, <2>1, <2>2, <2>3, <2>4, <2>6, <2>7
  <2>. QED  BY <2>8 DEF new
<1>. QED  BY <1>1, <1>2, <1>3

\* Nor does retrying the executions that were blocked.
LEMMA RetryPiped ==
    ASSUME NEW id \in Replicas, NEW ex, ExecutionOK(ex), NEW K, Piped(id, ex, K),
           NEW V, OnOneChain(V), Grounded(ex, V)
    PROVE  /\ Piped(id, RetryPendingExecute(id, ex), K)
           /\ ex.last_executed_height <= RetryPendingExecute(id, ex).last_executed_height
<1>. DEFINE known == {d \in ex.decided_nodes : ChainKnown(ex, d)}
            longest == CHOOSE d \in known : \A e \in known : Len(e) <= Len(d)
<1>0. ex.last_executed_height \in Int
  BY SizeAssumption DEF ExecutionOK
<1>1. CASE known = {}
  BY <1>0, <1>1 DEF RetryPendingExecute
<1>2. CASE known # {}
  <2>1. known \subseteq Nodes
    BY DEF ExecutionOK
  <2>2. longest \in known
    BY <1>2, <2>1, LongestNode
  <2>3. RetryPendingExecute(id, ex) = TryExecuteChain(id, ex, longest)
    BY <1>2 DEF RetryPendingExecute
  <2>4. longest \in ex.decided_nodes
    BY <2>2
  <2>. HIDE DEF longest, known
  <2>. QED  BY <2>3, <2>4, TryExecutePiped
<1>. QED  BY <1>1, <1>2

\* The pipeline does not look at the tree, and a decision more changes nothing.
LEMMA LearnPiped ==
    ASSUME NEW id \in Replicas, NEW ex, NEW K, Piped(id, ex, K),
           NEW new, new.valid = ex.valid, new.invalid = ex.invalid, new.queue = ex.queue,
           new.pending_validation = ex.pending_validation,
           new.last_executed_height = ex.last_executed_height,
           new.live_state = ex.live_state, new.chained_root = ex.chained_root,
           new.post_state_by_node = ex.post_state_by_node,
           new.pre_root_by_node = ex.pre_root_by_node,
           new.post_root_by_node = ex.post_root_by_node, new.panicked = ex.panicked,
           ex.decided_nodes \subseteq new.decided_nodes
    PROVE  Piped(id, new, K)
<1>1. InFlight(id, new, K)
  BY DEF Piped, InFlight
<1>2. IF id \in Reexecutes THEN StatesOK(id, new, K) ELSE RootsOK(id, new, K)
  BY DEF Piped, StatesOK, RootsOK
<1>3. new.last_executed_height >= 0 =>
        \E d \in new.decided_nodes :
          /\ Height(d) >= new.last_executed_height
          /\ Ancestor(d, new.last_executed_height) = Own(id, new.last_executed_height + 1)
  BY DEF Piped
<1>. QED  BY <1>1, <1>2, <1>3 DEF Piped

\* One block more.
LEMMA OwnNext ==
    ASSUME NEW id \in Replicas, NEW a \in Int, NEW K \in 0 .. NumBlocks - 1, 1 <= a, a <= K + 1
    PROVE  /\ OwnNodes(id, a .. K) \cup {Own(id, K + 1)} = OwnNodes(id, a .. K + 1)
           /\ Own(id, K + 1) \notin OwnNodes(id, a .. K)
           /\ Append(Own(id, K), Block(id, K)) = Own(id, K + 1)
<1>1. NumBlocks \in Nat /\ K \in Int /\ K + 1 \in 0 .. NumBlocks /\ K \in 0 .. NumBlocks
      /\ a .. K \subseteq 0 .. NumBlocks
  BY SizeAssumption
<1>2. a .. K + 1 = (a .. K) \cup {K + 1}
  BY <1>1
<1>3. OwnNodes(id, a .. K) \cup {Own(id, K + 1)} = OwnNodes(id, a .. K + 1)
  BY <1>2 DEF OwnNodes
<1>4. Own(id, K + 1) \notin OwnNodes(id, a .. K)
  BY <1>1, OwnMember
<1>5. Append(Own(id, K), Block(id, K)) = Own(id, K + 1)
  <2>. DEFINE n == Append(Own(id, K), Block(id, K))
  <2>1. Own(id, K) \in Seq(Cmds) /\ Len(Own(id, K)) = K /\ Block(id, K) \in Cmds
    BY <1>1, OwnFacts, BlockIsCmd
  <2>2. /\ n \in Seq(Cmds) /\ Len(n) = K + 1 /\ n[K + 1] = Block(id, K)
        /\ Parent(n) = Own(id, K)
    BY <2>1, SeqAppend, ParentOfAppend
  <2>. HIDE DEF n
  <2>3. n \in Nodes /\ Height(n) = K
    BY <1>1, <2>2 DEF Nodes, Height
  <2>4. Block(id, Height(n)) = n[Len(n)]
    BY <2>2, <2>3
  <2>5. n = Own(id, K + 1)
    BY <1>1, <2>2, <2>3, <2>4, OwnChild
  <2>. QED  BY <2>5 DEF n
<1>. QED  BY <1>3, <1>4, <1>5

\* HashMap::insert of the state after the next block.
LEMMA PutNext ==
    ASSUME NEW id \in Replicas, NEW a \in Int, NEW K \in 0 .. NumBlocks - 1, 1 <= a, a <= K + 1,
           NEW f, AfterEach(f, OwnNodes(id, a .. K))
    PROVE  AfterEach(Put(f, Own(id, K + 1), Own(id, K + 1)), OwnNodes(id, a .. K + 1))
  BY OwnNext DEF AfterEach, Put

\* An outcome makes the next block valid or rejects it.
LEMMA IngestPiped ==
    ASSUME NEW id \in Replicas, NEW ex, ExecutionOK(ex), NEW K, Piped(id, ex, K),
           ex.queue # << >>
    PROVE  /\ \E L \in 0 .. NumBlocks : Piped(id, IngestValidation(id, ex), L)
           /\ IngestValidation(id, ex).last_executed_height = ex.last_executed_height
           /\ IngestValidation(id, ex).decided_nodes = ex.decided_nodes
<1>. DEFINE h == ex.last_executed_height
            req == Head(ex.queue)
            n == Own(id, K + 1)
            new == IngestValidation(id, ex)
            ok == Usable(id, n)
<1>1. /\ K < NumBlocks /\ ex.invalid = {} /\ ex.pending_validation = n
      /\ Len(ex.queue) = 1 /\ ex.queue[1].node = n
      /\ id \in Reexecutes => ex.queue[1].input = Own(id, K)
  BY DEF Piped, InFlight
<1>2. /\ h \in -1 .. NumBlocks - 1 /\ NumBlocks \in Nat /\ K \in 0 .. NumBlocks - 1
      /\ h + 1 <= K /\ K + 1 \in 0 .. NumBlocks /\ K \in 0 .. NumBlocks /\ h + 2 \in Int
      /\ 1 <= h + 2 /\ h + 2 <= K + 1 /\ 1 \in Int /\ 1 <= K + 1 /\ 1 <= 1
  BY <1>1, SizeAssumption DEF ExecutionOK, Piped
<1>3. ex.queue \in Seq(Requests) /\ req = ex.queue[1] /\ Tail(ex.queue) = << >>
  <2>1. ex.queue \in Seq(Requests)
    BY DEF ExecutionOK
  <2>2. Tail(ex.queue) \in Seq(Requests) /\ Len(Tail(ex.queue)) = 0
    BY <1>1, <2>1, SeqHeadTail
  <2>3. Tail(ex.queue) = << >>
    BY <2>2, SeqEmpty
  <2>4. Head(ex.queue) = ex.queue[1]
    BY <2>1
  <2>. QED  BY <2>1, <2>3, <2>4
<1>4. Len(n) = K + 1 /\ Height(n) = K
  <2>1. Len(n) = K + 1
    BY <1>2, OwnFacts
  <2>. HIDE DEF n
  <2>. QED  BY <1>2, <2>1 DEF Height
<1>5. /\ SubSeq(Workload[id], 1, Height(n)) = Own(id, K)
      /\ SubSeq(Workload[id], 1, Height(n) + 1) = n
      /\ id \in Reexecutes => Append(req.input, Block(id, Height(n))) = n
  <2>1. Append(Own(id, K), Block(id, K)) = n
    BY <1>2, OwnNext
  <2>2. id \in Reexecutes => req.input = Own(id, K)
    BY <1>1, <1>3
  <2>3. Height(n) = K
    BY <1>4
  <2>4. Own(id, Height(n)) = Own(id, K) /\ Own(id, Height(n) + 1) = n
    BY <2>3
  <2>5. id \in Reexecutes => Append(req.input, Block(id, Height(n))) = n
    BY <2>1, <2>2, <2>3
  <2>. QED  BY <2>4, <2>5 DEF Own
<1>6. /\ new.queue = << >> /\ new.pending_validation = NoPending
      /\ new.valid = (IF ok THEN ex.valid \cup {n} ELSE ex.valid)
      /\ new.invalid = (IF ok THEN {} ELSE {n})
      /\ new.last_executed_height = h /\ new.decided_nodes = ex.decided_nodes
      /\ new.live_state = ex.live_state /\ new.chained_root = ex.chained_root
      /\ new.panicked = ex.panicked
    BY <1>1, <1>3 DEF IngestValidation, ExecutionOK, ExecutionFields
<1>7. /\ new.post_state_by_node = (IF ok /\ id \in Reexecutes
                                   THEN Put(ex.post_state_by_node, n, n)
                                   ELSE ex.post_state_by_node)
      /\ new.pre_root_by_node = (IF ok /\ id \notin Reexecutes
                                 THEN Put(ex.pre_root_by_node, n, Own(id, K))
                                 ELSE ex.pre_root_by_node)
      /\ new.post_root_by_node = (IF ok /\ id \notin Reexecutes
                                  THEN Put(ex.post_root_by_node, n, n)
                                  ELSE ex.post_root_by_node)
    BY <1>1, <1>3, <1>5 DEF IngestValidation, ExecutionOK, ExecutionFields
<1>. HIDE DEF new, n, ok
<1>8. h >= 0 => \E d \in new.decided_nodes :
                   Height(d) >= h /\ Ancestor(d, h) = Own(id, h + 1)
  BY <1>6 DEF Piped
<1>9. CASE ~ok
  <2>1. IF id \in Reexecutes THEN StatesOK(id, new, K) ELSE RootsOK(id, new, K)
    BY <1>6, <1>7, <1>9 DEF Piped, StatesOK, RootsOK
  <2>2. InFlight(id, new, K)
    BY <1>6 DEF InFlight
  <2>3. Piped(id, new, K)
    BY <1>1, <1>2, <1>6, <1>8, <1>9, <2>1, <2>2 DEF Piped, n
  <2>. QED  BY <1>2, <1>6, <2>3 DEF new
<1>10. CASE ok
  <2>1. new.valid = OwnNodes(id, 1 .. K + 1)
    <3>1. ex.valid = OwnNodes(id, 1 .. K)
      BY DEF Piped
    <3>. QED  BY <1>2, <1>6, <1>10, <3>1, OwnNext DEF n
  <2>2. ASSUME id \in Reexecutes PROVE StatesOK(id, new, K + 1)
    <3>1. StatesOK(id, ex, K)
      BY <2>2 DEF Piped
    <3>2. AfterEach(new.post_state_by_node, OwnNodes(id, h + 2 .. K + 1))
      BY <1>2, <1>7, <1>10, <2>2, <3>1, PutNext DEF StatesOK, n
    <3>3. new.pre_root_by_node = ex.pre_root_by_node
          /\ new.post_root_by_node = ex.post_root_by_node
      BY <1>7, <2>2
    <3>. QED  BY <1>6, <3>1, <3>2, <3>3 DEF StatesOK
  <2>3. ASSUME id \notin Reexecutes PROVE RootsOK(id, new, K + 1)
    <3>1. RootsOK(id, ex, K)
      BY <2>3 DEF Piped
    <3>2. AfterEach(new.post_root_by_node, OwnNodes(id, h + 2 .. K + 1))
      BY <1>2, <1>7, <1>10, <2>3, <3>1, PutNext DEF RootsOK, n
    <3>3. new.post_state_by_node = ex.post_state_by_node
          /\ new.pre_root_by_node = Put(ex.pre_root_by_node, n, Own(id, K))
      BY <1>7, <1>10, <2>3
    <3>4. DOMAIN new.pre_root_by_node = OwnNodes(id, 1 .. K + 1)
      BY <1>2, <3>1, <3>3, OwnNext DEF RootsOK, Put, n
    <3>5. ASSUME NEW k \in 1 .. K + 1
          PROVE  new.pre_root_by_node[Own(id, k)] = Own(id, k - 1)
      <4>0. 1 .. K \subseteq 0 .. NumBlocks
        BY <1>2
      <4>1. CASE k = K + 1
        <5>1. k - 1 = K /\ Own(id, k) = n
          BY <1>2, <4>1 DEF n
        <5>. QED  BY <3>3, <5>1 DEF Put
      <4>2. CASE k # K + 1
        <5>1. k \in 1 .. K
          BY <1>2, <4>2
        <5>2. Own(id, k) \in OwnNodes(id, 1 .. K)
          BY <4>0, <5>1, OwnMember
        <5>3. n \notin OwnNodes(id, 1 .. K)
          BY <1>2, OwnNext DEF n
        <5>4. Own(id, k) \in DOMAIN ex.pre_root_by_node /\ Own(id, k) # n
          BY <3>1, <5>2, <5>3 DEF RootsOK
        <5>. QED  BY <3>1, <3>3, <5>1, <5>4 DEF RootsOK, Put
      <4>. QED  BY <4>1, <4>2
    <3>. QED  BY <1>6, <3>1, <3>2, <3>3, <3>4, <3>5 DEF RootsOK
  <2>4. IF id \in Reexecutes THEN StatesOK(id, new, K + 1) ELSE RootsOK(id, new, K + 1)
    BY <2>2, <2>3
  <2>5. InFlight(id, new, K + 1)
    BY <1>6 DEF InFlight
  <2>6. ~new.panicked /\ new.invalid = {} /\ h + 1 <= K + 1
    BY <1>2, <1>6, <1>10 DEF Piped
  <2>7. Piped(id, new, K + 1)
    BY <1>2, <1>6, <1>8, <2>1, <2>4, <2>5, <2>6 DEF Piped
  <2>. QED  BY <1>2, <1>6, <2>7 DEF new
<1>. QED  BY <1>9, <1>10

-----------------------------------------------------------------------------
\* What a pass leaves behind: with nothing in flight no leaf could be submitted,
\* and no decided block that could be applied is left.
Settled(id, ex) ==
    /\ ex.pending_validation = NoPending => \A n \in ex.tree : ~CanKick(id, ex, n)
    /\ \A d \in ex.decided_nodes :
          ex.last_executed_height < Height(d) /\ ChainKnown(ex, d)
             => Ancestor(d, ex.last_executed_height + 1) \notin ex.valid

\* The height after the last applied one was not validated.
LEMMA AppliedToStops ==
    ASSUME NEW ex, ExecutionOK(ex), NEW d \in Nodes, Height(d) > ex.last_executed_height,
           AppliedTo(ex, d) < Height(d)
    PROVE  Ancestor(d, AppliedTo(ex, d) + 1) \notin ex.valid
<1>. DEFINE h == ex.last_executed_height
            S == {x \in h .. Height(d) : \A k \in h + 1 .. x : Ancestor(d, k) \in ex.valid}
            top == AppliedTo(ex, d)
<1>1. h \in Int /\ Height(d) \in Int
  BY SizeAssumption DEF ExecutionOK, Nodes, Height
<1>2. S \subseteq Int /\ h \in S /\ \A x \in S : x <= Height(d)
  BY <1>1
<1>3. Highest(S) \in S /\ \A x \in S : x <= Highest(S)
  BY <1>1, <1>2, HighestIsGreatest
<1>4. top = Highest(S)
  BY DEF AppliedTo
<1>5. top \in h .. Height(d) /\ \A k \in h + 1 .. top : Ancestor(d, k) \in ex.valid
  BY <1>3, <1>4
<1>6. top + 1 \notin S
  BY <1>1, <1>3, <1>4, <1>5
<1>7. top + 1 \in h .. Height(d)
  BY <1>1, <1>5
<1>. HIDE DEF top
<1>8. PICK k \in h + 1 .. top + 1 : Ancestor(d, k) \notin ex.valid
  BY <1>6, <1>7
<1>9. k = top + 1
  BY <1>1, <1>5, <1>8
<1>. QED  BY <1>8, <1>9 DEF top

\* try_execute_chain marks the validated heights executed.
LEMMA TryExecuteHeight ==
    ASSUME NEW id, NEW ex, ExecutionOK(ex), NEW d \in Nodes,
           ChainKnown(ex, d), ex.last_executed_height < Height(d)
    PROVE  TryExecuteChain(id, ex, d).last_executed_height = AppliedTo(ex, d)
<1>. DEFINE top == AppliedTo(ex, d)
            done == ApplyChain(ex, d, top)
            next == Ancestor(d, top + 1)
<1>1. ~(Height(d) <= ex.last_executed_height)
  BY SizeAssumption DEF ExecutionOK, Nodes, Height
<1>2. TryExecuteChain(id, ex, d) \in {done, MaybeKickValidation(id, done, next)}
  BY <1>1 DEF TryExecuteChain
<1>3. done.last_executed_height = top /\ DOMAIN done = ExecutionFields
  BY DEF ApplyChain, ExecutionOK, ExecutionFields
<1>. HIDE DEF done, next, top
<1>4. MaybeKickValidation(id, done, next).last_executed_height = top
  BY <1>3 DEF MaybeKickValidation, ExecutionFields
<1>5. TryExecuteChain(id, ex, d).last_executed_height = top
  BY <1>2, <1>3, <1>4
<1>. QED  BY <1>5 DEF top

\* retry_pending_execute applies what the longest known decided chain has
\* validated, and with it what any other decided chain has.
LEMMA RetrySettles ==
    ASSUME NEW id \in Replicas, NEW ex, ExecutionOK(ex),
           NEW V, OnOneChain(V), ex.decided_nodes \subseteq V,
           NEW new, new = RetryPendingExecute(id, ex),
           NEW d \in new.decided_nodes, new.last_executed_height < Height(d),
           ChainKnown(new, d)
    PROVE  Ancestor(d, new.last_executed_height + 1) \notin new.valid
<1>. DEFINE known == {e \in ex.decided_nodes : ChainKnown(ex, e)}
            longest == CHOOSE e \in known : \A f \in known : Len(f) <= Len(e)
            h == ex.last_executed_height
            top == AppliedTo(ex, longest)
<1>1. new.tree = ex.tree /\ new.decided_nodes = ex.decided_nodes /\ new.valid = ex.valid
  BY ExecuteSameNodes DEF SameNodes
<1>2. /\ d \in V /\ d \in Nodes /\ Height(d) \in Int /\ Len(d) \in Nat
      /\ h \in Int /\ h >= -1
  BY <1>1, SizeAssumption DEF OnOneChain, Nodes, Height, ExecutionOK
<1>3. known \subseteq Nodes
  BY DEF ExecutionOK
<1>4. CASE new.last_executed_height = h
  <2>1. d \in known
    BY <1>1, <1>4 DEF ChainKnown
  <2>2. longest \in known /\ Len(d) <= Len(longest)
    BY <1>3, <2>1, LongestNode
  <2>3. new = TryExecuteChain(id, ex, longest)
    BY <2>1 DEF RetryPendingExecute
  <2>4. longest \in V /\ longest \in Nodes /\ ChainKnown(ex, longest)
        /\ Len(longest) \in Nat /\ Height(longest) \in Int
    BY <1>3, <2>2 DEF Nodes, Height
  <2>. HIDE DEF longest, known
  <2>5. h < Height(longest) /\ Height(d) <= Height(longest)
    BY <1>2, <1>4, <2>2, <2>4 DEF Height
  <2>6. top = h
    BY <1>2, <1>4, <2>3, <2>4, <2>5, TryExecuteHeight
  <2>7. Ancestor(longest, h + 1) \notin ex.valid
    BY <1>2, <1>4, <2>4, <2>5, <2>6, AppliedToStops
  <2>8. Ancestor(d, h + 1) = Ancestor(longest, h + 1)
    BY <1>2, <1>4, <2>4, <2>5, SameAncestor
  <2>. QED  BY <1>1, <1>4, <2>7, <2>8
<1>5. CASE new.last_executed_height # h
  <2>1. known # {}
    BY <1>5 DEF RetryPendingExecute
  <2>2. longest \in known /\ \A e \in known : Len(e) <= Len(longest)
    BY <1>3, <2>1, LongestNode
  <2>3. new = TryExecuteChain(id, ex, longest)
    BY <2>1 DEF RetryPendingExecute
  <2>4. longest \in V /\ longest \in Nodes /\ ChainKnown(ex, longest)
        /\ Len(longest) \in Nat /\ Height(longest) \in Int
    BY <1>3, <2>2 DEF Nodes, Height
  <2>. HIDE DEF longest
  <2>5. h < Height(longest)
    BY <1>2, <1>5, <2>3, <2>4 DEF TryExecuteChain
  <2>6. new.last_executed_height = top /\ top \in h .. Height(longest)
    BY <2>3, <2>4, <2>5, TryExecuteHeight, AppliedToRange
  <2>. HIDE DEF top
  <2>7. ASSUME NEW k \in h + 1 .. Height(d)
        PROVE  Ancestor(d, k) \in ex.tree
    <3>1. CASE k <= top
      <4>1. k \in Nat /\ k <= Height(longest) /\ k <= Height(d)
        BY <1>2, <2>4, <2>6, <2>7, <3>1
      <4>2. Ancestor(d, k) = Ancestor(longest, k)
        BY <1>2, <2>4, <4>1, SameAncestor
      <4>3. k \in h + 1 .. Height(longest)
        BY <1>2, <2>4, <2>7, <4>1
      <4>. QED  BY <2>4, <4>2, <4>3 DEF ChainKnown
    <3>2. CASE k > top
      <4>1. k \in new.last_executed_height + 1 .. Height(d)
        BY <1>2, <2>4, <2>6, <2>7, <3>2
      <4>. QED  BY <1>1, <4>1 DEF ChainKnown
    <3>. QED  BY <1>2, <2>4, <2>6, <2>7, <3>1, <3>2
  <2>8. d \in known
    BY <1>1, <2>7 DEF ChainKnown
  <2>9. Height(d) <= Height(longest)
    BY <1>2, <2>2, <2>4, <2>8 DEF Height
  <2>10. Ancestor(longest, top + 1) \notin ex.valid
    BY <1>2, <2>4, <2>5, <2>6, <2>9, AppliedToStops DEF top
  <2>11. Ancestor(d, top + 1) = Ancestor(longest, top + 1)
    BY <1>2, <2>4, <2>6, <2>9, SameAncestor
  <2>. QED  BY <1>1, <2>6, <2>10, <2>11
<1>. QED  BY <1>4, <1>5

\* The pass ends with retry_pending_execute and try_kick_pending_validations: the
\* second changes nothing the first settled, and stops only when a validation is
\* in flight or no leaf is ready.
LEMMA PassSettles ==
    ASSUME NEW id \in Replicas, NEW ex, ExecutionOK(ex),
           NEW V, OnOneChain(V), ex.decided_nodes \subseteq V
    PROVE  Settled(id, TryKickPendingValidations(id, RetryPendingExecute(id, ex)))
<1>. DEFINE ex1 == RetryPendingExecute(id, ex)
            ready == {n \in ex1.tree : CanKick(id, ex1, n)}
            leaf == CHOOSE n \in ready : TRUE
            ex2 == TryKickPendingValidations(id, ex1)
<1>1. ExecutionOK(ex1)
  BY RetryPendingExecuteOK
<1>2. \A d \in ex1.decided_nodes :
         ex1.last_executed_height < Height(d) /\ ChainKnown(ex1, d)
            => Ancestor(d, ex1.last_executed_height + 1) \notin ex1.valid
  BY RetrySettles
<1>. HIDE DEF ex1
<1>3. CASE ex1.pending_validation = NoPending /\ ready # {}
  <2>1. ex2 = MaybeKickValidation(id, ex1, leaf)
    BY <1>3 DEF TryKickPendingValidations
  <2>2. leaf \in ex1.tree /\ CanKick(id, ex1, leaf)
    BY <1>3
  <2>3. leaf # NoPending
    BY <1>1, <2>2, SeqEmpty DEF ExecutionOK, Nodes, NoPending
  <2>. HIDE DEF leaf, ready
  <2>4. /\ ex2.pending_validation = leaf /\ ex2.tree = ex1.tree /\ ex2.valid = ex1.valid
        /\ ex2.decided_nodes = ex1.decided_nodes
        /\ ex2.last_executed_height = ex1.last_executed_height
    BY <1>1, <2>1, <2>2 DEF MaybeKickValidation, ExecutionOK, ExecutionFields
  <2>. HIDE DEF ex2
  <2>5. Settled(id, ex2)
    BY <1>2, <2>3, <2>4 DEF Settled, ChainKnown
  <2>. QED  BY <2>5 DEF ex1, ex2
<1>4. CASE ~(ex1.pending_validation = NoPending /\ ready # {})
  <2>1. ex2 = ex1
    BY <1>4 DEF TryKickPendingValidations
  <2>2. ex1.pending_validation = NoPending => \A n \in ex1.tree : ~CanKick(id, ex1, n)
    BY <1>4
  <2>. HIDE DEF ready, ex2
  <2>3. Settled(id, ex2)
    BY <1>2, <2>1, <2>2 DEF Settled
  <2>. QED  BY <2>3 DEF ex1, ex2
<1>. QED  BY <1>3, <1>4

\* The first decided block that is not executed does not wait for an event to
\* come: it is under validation, was rejected, or is not the local block.
LEMMA SettledNeverWaits ==
    ASSUME NEW id \in Replicas, NEW ex, ExecutionOK(ex), NEW K, Piped(id, ex, K),
           NEW V, OnOneChain(V), Grounded(ex, V), Rooted(ex), Settled(id, ex),
           NEW d \in ex.decided_nodes, ex.last_executed_height < Height(d),
           ChainKnown(ex, d),
           NEW n, n = Ancestor(d, ex.last_executed_height + 1)
    PROVE  /\ n \notin ex.valid
           /\ \/ n \in ex.invalid \/ n = ex.pending_validation
              \/ Block(id, Height(n)) # n[Len(n)]
<1>. DEFINE h == ex.last_executed_height
<1>1. /\ h \in -1 .. NumBlocks - 1 /\ NumBlocks \in Nat /\ K \in 0 .. NumBlocks
      /\ h + 1 <= K /\ 1 .. K \subseteq 0 .. NumBlocks
  BY PipedBounds
<1>2. n \notin ex.valid
  BY DEF Settled
<1>3. d \in V /\ d \in Seq(Cmds) /\ Len(d) \in 1 .. NumBlocks /\ h + 2 <= Len(d)
  BY <1>1 DEF Grounded, OnOneChain, Nodes, Height
<1>4. n \in ex.tree
  BY <1>1, <1>3 DEF ChainKnown, Height
<1>5. n \in Nodes /\ Len(n) = h + 2
  <2>1. n = SubSeq(d, 1, h + 2)
    BY <1>1 DEF Ancestor
  <2>2. n \in Nodes
    BY <1>4, PipedNodes
  <2>. QED  BY <1>1, <1>3, <2>1, <2>2, SeqSub
<1>6. Parent(n) = SubSeq(d, 1, h + 1)
  <2>1. n = SubSeq(d, 1, h + 2) /\ Parent(n) = SubSeq(n, 1, h + 1)
    BY <1>1, <1>5 DEF Ancestor, Parent
  <2>2. h + 2 \in 0 .. Len(d) /\ h + 1 \in 0 .. h + 2
    BY <1>1, <1>3
  <2>. QED  BY <1>3, <2>1, <2>2, SubSeqOfPrefix
<1>7. ParentCommitted(ex, n)
  <2>1. CASE h = -1
    <3>1. Parent(n) = GENESIS_HASH
      BY <1>6, <2>1, <1>3, SeqSub, SeqEmpty DEF GENESIS_HASH
    <3>. QED  BY <2>1, <3>1 DEF ParentCommitted
  <2>2. CASE h # -1
    <3>1. h \in Nat /\ h >= 0
      BY <1>1, <2>2
    <3>2. h <= Height(d)
      BY <1>1, <1>3 DEF Height
    <3>3. Ancestor(d, h) = Own(id, h + 1) /\ Own(id, h + 1) \in ex.valid
      BY <3>1, <3>2, ExecutedAncestor
    <3>4. Parent(n) = Own(id, h + 1)
      BY <1>6, <3>3 DEF Ancestor
    <3>5. Parent(n) \in ex.tree
      BY <3>3, <3>4 DEF Rooted
    <3>6. Height(n) - 1 <= h
      BY <1>1, <1>5 DEF Height
    <3>7. Parent(n) # GENESIS_HASH
      <4>1. h + 1 \in 0 .. NumBlocks /\ Len(Own(id, h + 1)) = h + 1
        BY <1>1, OwnFacts
      <4>. QED  BY <3>1, <3>4, <4>1, SeqEmpty DEF GENESIS_HASH
    <3>. QED  BY <3>5, <3>6, <3>7 DEF ParentCommitted
  <2>. QED  BY <2>1, <2>2
<1>8. ASSUME n \notin ex.invalid, n # ex.pending_validation,
             Block(id, Height(n)) = n[Len(n)]
      PROVE  FALSE
  <2>1. CanKick(id, ex, n)
    BY <1>2, <1>4, <1>7, <1>8 DEF CanKick
  <2>2. ex.pending_validation = NoPending
    BY <2>1, KickIsNext
  <2>. QED  BY <1>4, <2>1, <2>2 DEF Settled
<1>. QED  BY <1>2, <1>8

\* A node that re-executes keeps the post-state of every valid block it has not
\* executed, so the child of a valid block never waits for its parent's decision.
LEMMA SettledParentIsEnough ==
    ASSUME NEW id \in Reexecutes, NEW ex, ExecutionOK(ex), NEW K, Piped(id, ex, K),
           Rooted(ex), Settled(id, ex), ex.pending_validation = NoPending,
           NEW n \in ex.tree, Parent(n) \in ex.valid, Block(id, Height(n)) = n[Len(n)]
    PROVE  n \in ex.valid \cup ex.invalid
<1>. DEFINE h == ex.last_executed_height
            p == Parent(n)
<1>0. id \in Replicas
  BY ModeAssumption
<1>1. /\ h \in -1 .. NumBlocks - 1 /\ NumBlocks \in Nat /\ K \in 0 .. NumBlocks
      /\ 1 .. K \subseteq 0 .. NumBlocks /\ h + 2 .. K \subseteq 0 .. NumBlocks
      /\ h + 1 <= K
  BY PipedBounds
<1>2. n \in Nodes /\ Len(p) = Len(n) - 1 /\ Len(n) \in Nat
  <2>1. n \in Nodes
    BY PipedNodes
  <2>. QED  BY <2>1, ParentLength DEF Nodes
<1>3. Len(p) \in 1 .. K /\ p = Own(id, Len(p)) /\ p \in ex.tree
  <2>1. p \in OwnNodes(id, 1 .. K)
    BY PipedNodes
  <2>2. p \in ex.tree
    BY DEF Rooted
  <2>. QED  BY <1>0, <1>1, <2>1, <2>2, OwnMember
<1>4. p # GENESIS_HASH /\ n # NoPending
  BY <1>2, <1>3, SeqEmpty DEF GENESIS_HASH, NoPending
<1>5. CASE Len(p) <= h + 1
  <2>1. ParentCommitted(ex, n)
    BY <1>1, <1>2, <1>3, <1>4, <1>5 DEF ParentCommitted, Height
  <2>. QED  BY <1>4, <2>1 DEF CanKick, Settled
<1>6. CASE Len(p) > h + 1
  <2>1. Len(p) \in h + 2 .. K
    BY <1>1, <1>3, <1>6
  <2>2. p \in OwnNodes(id, h + 2 .. K)
    BY <1>0, <1>1, <1>3, <2>1, OwnMember
  <2>3. ParentValidated(ex, n)
    BY <1>3, <1>4, <2>2 DEF ParentValidated, Piped, StatesOK, AfterEach
  <2>. QED  BY <1>4, <2>3 DEF CanKick, Settled
<1>. QED  BY <1>1, <1>3, <1>5, <1>6
=============================================================================
