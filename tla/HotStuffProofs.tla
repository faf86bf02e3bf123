--------------------------- MODULE HotStuffProofs ---------------------------
(***************************************************************************)
(* Type correctness for every cluster size, workload and schedule.  First  *)
(* the operators of Execute: what Highest returns, and that every          *)
(* operation of execute.rs keeps the execution record well typed.  Then    *)
(* every rule, every handler and a whole try_advance pass of Replica leave *)
(* a well-typed replica with the same id, and so does every step.  Last,   *)
(* a node always has the NEXTVIEW timer of its view to come.               *)
(***************************************************************************)
EXTENDS HotStuff, WellFoundedInduction, TLAPS

-----------------------------------------------------------------------------
\* Sequences, as the provers know them.

\* A sequence is a function on 1 .. Len.
LEMMA SeqLen ==
    ASSUME NEW S, NEW s \in Seq(S)
    PROVE  Len(s) \in Nat /\ s \in [1 .. Len(s) -> S] /\ DOMAIN s = 1 .. Len(s)
  OBVIOUS

\* The elements of a sequence over S are in S.
LEMMA SeqElement ==
    ASSUME NEW S, NEW s \in Seq(S), NEW k \in 1 .. Len(s)
    PROVE  s[k] \in S
  OBVIOUS

\* The empty sequence has length 0, and only it.
LEMMA SeqEmpty ==
    ASSUME NEW S
    PROVE  /\ << >> \in Seq(S) /\ Len(<< >>) = 0
           /\ \A s \in Seq(S) : s # << >> => Len(s) \in Nat \ {0}
  OBVIOUS

\* Sequences of the same length with the same elements are equal.
LEMMA SameSeq ==
    ASSUME NEW S, NEW s \in Seq(S), NEW t \in Seq(S), Len(s) = Len(t),
           \A k \in 1 .. Len(s) : s[k] = t[k]
    PROVE  s = t
  OBVIOUS

\* What Append does to the length and the elements.
LEMMA SeqAppend ==
    ASSUME NEW S, NEW s \in Seq(S), NEW e \in S
    PROVE  /\ Append(s, e) \in Seq(S) /\ Append(s, e) # << >>
           /\ Len(Append(s, e)) = Len(s) + 1 /\ Append(s, e)[Len(s) + 1] = e
           /\ \A k \in 1 .. Len(s) : Append(s, e)[k] = s[k]
  OBVIOUS

\* What Head and Tail of a nonempty sequence are.
LEMMA SeqHeadTail ==
    ASSUME NEW S, NEW s \in Seq(S), s # << >>
    PROVE  /\ Head(s) \in S /\ Tail(s) \in Seq(S) /\ Len(Tail(s)) = Len(s) - 1
           /\ \A k \in 1 .. Len(Tail(s)) : Tail(s)[k] = s[k + 1]
  OBVIOUS

\* The length and the elements of a segment of a sequence.
LEMMA SeqSub ==
    ASSUME NEW S, NEW s, NEW a \in Int, NEW b \in Int, \A k \in a .. b : s[k] \in S
    PROVE  /\ SubSeq(s, a, b) \in Seq(S)
           /\ Len(SubSeq(s, a, b)) = IF a <= b THEN b - a + 1 ELSE 0
           /\ \A k \in 1 .. b - a + 1 : SubSeq(s, a, b)[k] = s[a + k - 1]
  OBVIOUS

\* The empty set has no elements.
LEMMA EmptySize == Cardinality({}) = 0
<1>. DEFINE Is(f) ==
              f = [T \in SUBSET {} |-> IF T = {} THEN 0 ELSE 1 + f[T \ {CHOOSE x : x \in T}]]
            CS == CHOOSE f : Is(f)
<1>1. Is([T \in SUBSET {} |-> 0])
  OBVIOUS
<1>2. Is(CS)
  BY <1>1
<1>3. CS[{}] = 0
  BY <1>2
<1>. QED  BY <1>3 DEF Cardinality

\* A nonempty set of naturals has a least element.
LEMMA LeastNat ==
    ASSUME NEW S, S \subseteq Nat, S # {}
    PROVE  \E x \in S : \A y \in S : x <= y
<1>. DEFINE R == OpToRel(<, Nat)
<1>1. IsWellFoundedOn(R, Nat)
  BY NatLessThanWellFounded
<1>2. \A x, y \in Nat : << y, x >> \in R <=> y < x
  BY DEF R, OpToRel
<1>. HIDE DEF R
<1>3. PICK x \in S : \A y \in S : ~(<< y, x >> \in R)
  BY <1>1, WFMin
<1>4. ASSUME NEW y \in S PROVE x <= y
  <2>1. x \in Nat /\ y \in Nat
    OBVIOUS
  <2>2. ~(y < x)
    BY <1>2, <1>3, <2>1
  <2>. QED  BY <2>1, <2>2
<1>. QED  BY <1>4

\* A nonempty set of integers with an upper bound has a greatest element.
LEMMA GreatestInt ==
    ASSUME NEW S, S \subseteq Int, S # {}, NEW b \in Int, \A x \in S : x <= b
    PROVE  \E x \in S : \A y \in S : y <= x
<1>. DEFINE T == {k \in Nat : b - k \in S}
<1>1. PICK s \in S : TRUE
  OBVIOUS
<1>2. s \in Int /\ b - s \in Nat /\ b - (b - s) = s
  BY <1>1
<1>3. b - s \in T
  BY <1>1, <1>2
<1>4. PICK t \in T : \A u \in T : t <= u
  BY <1>3, LeastNat
<1>5. b - t \in S /\ t \in Nat
  OBVIOUS
<1>6. ASSUME NEW y \in S PROVE y <= b - t
  <2>1. y \in Int /\ b - y \in Nat /\ b - (b - y) = y
    OBVIOUS
  <2>2. b - y \in T
    BY <2>1
  <2>3. t <= b - y
    BY <1>4, <2>2
  <2>. HIDE DEF T
  <2>. QED  BY <1>5, <2>1, <2>3
<1>. QED  BY <1>5, <1>6

\* Highest picks the greatest element.
LEMMA HighestIsGreatest ==
    ASSUME NEW S, S \subseteq Int, S # {}, NEW b \in Int, \A x \in S : x <= b
    PROVE  Highest(S) \in S /\ \A y \in S : y <= Highest(S)
<1>1. \E x \in S : \A y \in S : y <= x
  BY GreatestInt
<1>. QED  BY <1>1 DEF Highest

-----------------------------------------------------------------------------
\* A nonempty prefix of a node is a node.
LEMMA AncestorIsNode ==
    ASSUME NEW d \in Nodes, NEW h \in 0 .. Height(d)
    PROVE  Ancestor(d, h) \in Nodes /\ Height(Ancestor(d, h)) = h
<1>1. d \in Seq(Cmds) /\ Len(d) \in 1 .. NumBlocks /\ NumBlocks \in Nat
  BY SizeAssumption DEF Nodes
<1>2. h \in Int /\ h + 1 \in 1 .. Len(d)
  BY <1>1 DEF Height
<1>3. \A i \in 1 .. h + 1 : d[i] \in Cmds
  BY <1>1, <1>2, SeqElement
<1>4. SubSeq(d, 1, h + 1) \in Seq(Cmds) /\ Len(SubSeq(d, 1, h + 1)) = h + 1
  BY <1>2, <1>3, SeqSub
<1>. QED  BY <1>1, <1>2, <1>4 DEF Ancestor, Nodes, Height

\* A block of a local workload directory is a command.
LEMMA BlockIsCmd ==
    ASSUME NEW i \in Replicas, NEW h \in 0 .. NumBlocks - 1
    PROVE  Block(i, h) \in Cmds
<1>1. Workload[i] \in Seq(Cmds) /\ Len(Workload[i]) = NumBlocks
  BY WorkloadAssumption
<1>2. h + 1 \in 1 .. NumBlocks
  BY SizeAssumption
<1>. QED  BY <1>1, <1>2, SeqElement DEF Block

\* A prefix of a local workload directory is a ledger state.
LEMMA WorkloadPrefix ==
    ASSUME NEW i \in Replicas, NEW h \in 0 .. NumBlocks
    PROVE  SubSeq(Workload[i], 1, h) \in Seq(Cmds)
<1>1. Workload[i] \in Seq(Cmds) /\ Len(Workload[i]) = NumBlocks
  BY WorkloadAssumption
<1>2. h \in Int /\ \A k \in 1 .. h : Workload[i][k] \in Cmds
  BY <1>1, SeqElement, SizeAssumption
<1>. QED  BY <1>2, SeqSub

-----------------------------------------------------------------------------
\* The record a node starts with is well typed.
LEMMA NewExecutionOK == ExecutionOK(NewExecution)
<1>1. IsMap(EmptyMap)
  BY DEF IsMap, EmptyMap
<1>2. << >> \in Seq(Cmds) /\ << >> \in Seq(Requests)
  BY SeqEmpty
<1>. QED  BY <1>1, <1>2, SizeAssumption
          DEF NewExecution, ExecutionOK, ExecutionFields, Roots

\* maybe_kick_validation submits a known node with a ledger state.
LEMMA MaybeKickValidationOK ==
    ASSUME NEW id, NEW ex, ExecutionOK(ex), NEW leaf
    PROVE  ExecutionOK(MaybeKickValidation(id, ex, leaf))
<1>1. CASE ~CanKick(id, ex, leaf)
  BY <1>1 DEF MaybeKickValidation
<1>2. CASE CanKick(id, ex, leaf)
  <2>1. leaf \in Nodes
    BY <1>2 DEF CanKick, ExecutionOK
  <2>2. InputState(ex, leaf) \in Seq(Cmds)
    BY <1>2 DEF CanKick, ExecutionOK, InputState, ParentValidated, IsMap
  <2>. DEFINE req == [node |-> leaf, input |-> InputState(ex, leaf)]
  <2>3. req \in Requests
    BY <2>1, <2>2 DEF Requests
  <2>4. Append(ex.queue, req) \in Seq(Requests)
    BY <2>3, SeqAppend DEF ExecutionOK
  <2>. HIDE DEF req
  <2>5. MaybeKickValidation(id, ex, leaf) =
          [ex EXCEPT !.pending_validation = leaf, !.queue = Append(@, req)]
    BY <1>2 DEF MaybeKickValidation, req
  <2>. QED  BY <2>1, <2>4, <2>5 DEF ExecutionOK, ExecutionFields
<1>. QED  BY <1>1, <1>2

\* So does try_kick_pending_validations.
LEMMA TryKickPendingValidationsOK ==
    ASSUME NEW id, NEW ex, ExecutionOK(ex)
    PROVE  ExecutionOK(TryKickPendingValidations(id, ex))
  BY MaybeKickValidationOK DEF TryKickPendingValidations

-----------------------------------------------------------------------------
\* try_execute_chain stops at a height between last_executed_height and the
\* decided node's.
LEMMA AppliedToRange ==
    ASSUME NEW ex, ExecutionOK(ex), NEW d \in Nodes, Height(d) > ex.last_executed_height
    PROVE  AppliedTo(ex, d) \in ex.last_executed_height .. Height(d)
<1>. DEFINE S == {h \in ex.last_executed_height .. Height(d) :
                    \A k \in ex.last_executed_height + 1 .. h : Ancestor(d, k) \in ex.valid}
<1>1. ex.last_executed_height \in Int /\ Height(d) \in Int
  BY SizeAssumption DEF ExecutionOK, Nodes, Height
<1>2. ex.last_executed_height \in S
  BY <1>1
<1>3. S \subseteq Int /\ \A x \in S : x <= Height(d)
  BY <1>1
<1>4. Highest(S) \in S
  BY <1>1, <1>2, <1>3, HighestIsGreatest
<1>. QED  BY <1>4 DEF AppliedTo

\* chained_root holds a root at every height the loop reaches.
LEMMA ChainedBeforeOK ==
    ASSUME NEW ex, ExecutionOK(ex), NEW d, NEW h \in Int
    PROVE  ChainedBefore(ex, d, h) \in Roots
<1>. DEFINE rooted == {k \in ex.last_executed_height + 1 .. h - 1 :
                         Ancestor(d, k) \in DOMAIN ex.pre_root_by_node
                                            \cap DOMAIN ex.post_root_by_node}
<1>1. CASE rooted = {}
  BY <1>1 DEF ChainedBefore, ExecutionOK
<1>2. CASE rooted # {}
  <2>1. ex.last_executed_height \in Int
    BY SizeAssumption DEF ExecutionOK
  <2>2. rooted \subseteq Int /\ \A x \in rooted : x <= h - 1
    BY <2>1
  <2>3. Highest(rooted) \in rooted
    BY <1>2, <2>2, HighestIsGreatest
  <2>4. ChainedBefore(ex, d, h) = ex.post_root_by_node[Ancestor(d, Highest(rooted))]
    BY <1>2 DEF ChainedBefore
  <2>. QED  BY <2>3, <2>4 DEF ExecutionOK, IsMap, Roots
<1>. QED  BY <1>1, <1>2

\* Removing entries leaves a map.
LEMMA DropIsMap ==
    ASSUME NEW f, IsMap(f), NEW S
    PROVE  IsMap(Drop(f, S))
  BY DEF IsMap, Drop

\* Applying the validated heights leaves a well-typed record.
LEMMA ApplyChainOK ==
    ASSUME NEW ex, ExecutionOK(ex), NEW d \in Nodes,
           NEW top \in ex.last_executed_height .. Height(d)
    PROVE  ExecutionOK(ApplyChain(ex, d, top))
<1>. DEFINE applied == ex.last_executed_height + 1 .. top
            nodes == {Ancestor(d, h) : h \in applied}
            stated == {h \in applied : Ancestor(d, h) \in DOMAIN ex.post_state_by_node}
            live == IF stated = {} THEN ex.live_state
                    ELSE ex.post_state_by_node[Ancestor(d, Highest(stated))]
            broken == \E h \in applied : ChainBreak(ex, d, h)
<1>1. /\ ex.last_executed_height \in -1 .. NumBlocks - 1
      /\ Height(d) \in 0 .. NumBlocks - 1
      /\ NumBlocks \in Nat
  BY SizeAssumption DEF ExecutionOK, Nodes, Height
<1>2. top \in -1 .. NumBlocks - 1
  BY <1>1
<1>3. live \in Seq(Cmds)
  <2>1. CASE stated = {}
    BY <2>1 DEF ExecutionOK
  <2>2. CASE stated # {}
    <3>1. stated \subseteq Int /\ \A x \in stated : x <= top
      BY <1>1, <1>2
    <3>2. Highest(stated) \in stated
      BY <1>2, <2>2, <3>1, HighestIsGreatest
    <3>. QED  BY <2>2, <3>2 DEF ExecutionOK, IsMap
  <2>. QED  BY <2>1, <2>2
<1>4. IsMap(Drop(ex.post_state_by_node, nodes))
  BY DropIsMap DEF ExecutionOK
<1>5. IsMap(Drop(ex.post_root_by_node, nodes \cap DOMAIN ex.pre_root_by_node))
  BY DropIsMap DEF ExecutionOK
<1>6. ChainedBefore(ex, d, top + 1) \in Roots
  BY <1>2, ChainedBeforeOK
<1>7. (ex.panicked \/ broken) \in BOOLEAN
  OBVIOUS
<1>8. ApplyChain(ex, d, top) =
        [ex EXCEPT !.live_state = live,
                   !.post_state_by_node = Drop(@, nodes),
                   !.chained_root = ChainedBefore(ex, d, top + 1),
                   !.post_root_by_node = Drop(@, nodes \cap DOMAIN ex.pre_root_by_node),
                   !.last_executed_height = top,
                   !.panicked = @ \/ broken]
  BY DEF ApplyChain
<1>. HIDE DEF live, nodes, broken
<1>. QED  BY <1>2, <1>3, <1>4, <1>5, <1>6, <1>7, <1>8
          DEF ExecutionOK, ExecutionFields

\* try_execute_chain leaves a well-typed record.
LEMMA TryExecuteChainOK ==
    ASSUME NEW id, NEW ex, ExecutionOK(ex), NEW d \in Nodes
    PROVE  ExecutionOK(TryExecuteChain(id, ex, d))
<1>1. CASE ~ChainKnown(ex, d) \/ Height(d) <= ex.last_executed_height
  BY <1>1 DEF TryExecuteChain
<1>2. CASE ~(~ChainKnown(ex, d) \/ Height(d) <= ex.last_executed_height)
  <2>. DEFINE top == AppliedTo(ex, d)
  <2>1. Height(d) \in Int /\ ex.last_executed_height \in Int
    BY SizeAssumption DEF ExecutionOK, Nodes, Height
  <2>2. top \in ex.last_executed_height .. Height(d)
    BY <1>2, <2>1, AppliedToRange
  <2>3. ExecutionOK(ApplyChain(ex, d, top))
    BY <2>2, ApplyChainOK
  <2>. QED  BY <1>2, <2>3, MaybeKickValidationOK DEF TryExecuteChain
<1>. QED  BY <1>1, <1>2

\* Some node of a set of nodes is as long as any.
LEMMA LongestNode ==
    ASSUME NEW K, K \subseteq Nodes, K # {}
    PROVE  LET longest == CHOOSE d \in K : \A e \in K : Len(e) <= Len(d)
           IN  longest \in K /\ \A e \in K : Len(e) <= Len(longest)
<1>. DEFINE L == {Len(e) : e \in K}
<1>1. \A e \in K : Len(e) \in Int /\ Len(e) <= NumBlocks
  BY SizeAssumption DEF Nodes
<1>2. L \subseteq Int /\ L # {} /\ \A x \in L : x <= NumBlocks
  BY <1>1
<1>3. \E l \in L : \A y \in L : y <= l
  <2>1. NumBlocks \in Int
    BY SizeAssumption
  <2>. HIDE DEF L
  <2>. QED  BY <1>2, <2>1, GreatestInt
<1>4. \E d \in K : \A e \in K : Len(e) <= Len(d)
  BY <1>3
<1>. QED  BY <1>4

\* retry_pending_execute leaves a well-typed record.
LEMMA RetryPendingExecuteOK ==
    ASSUME NEW id, NEW ex, ExecutionOK(ex)
    PROVE  ExecutionOK(RetryPendingExecute(id, ex))
<1>. DEFINE known == {d \in ex.decided_nodes : ChainKnown(ex, d)}
            longest == CHOOSE d \in known : \A e \in known : Len(e) <= Len(d)
<1>1. CASE known = {}
  BY <1>1 DEF RetryPendingExecute
<1>2. CASE known # {}
  <2>1. known \subseteq Nodes
    BY DEF ExecutionOK
  <2>2. longest \in Nodes
    BY <1>2, <2>1, LongestNode
  <2>3. RetryPendingExecute(id, ex) = TryExecuteChain(id, ex, longest)
    BY <1>2 DEF RetryPendingExecute
  <2>. HIDE DEF longest, known
  <2>. QED  BY <2>2, <2>3, TryExecuteChainOK
<1>. QED  BY <1>1, <1>2

\* HashMap::insert of a ledger state leaves a map.
LEMMA PutIsMap ==
    ASSUME NEW f, IsMap(f), NEW n \in Nodes, NEW x \in Seq(Cmds)
    PROVE  IsMap(Put(f, n, x))
  BY DEF IsMap, Put

\* ingest_validation stores the outcome of a request under its node.
LEMMA IngestValidationOK ==
    ASSUME NEW id \in Replicas, NEW ex, ExecutionOK(ex), ex.queue # << >>
    PROVE  ExecutionOK(IngestValidation(id, ex))
<1>. DEFINE req == Head(ex.queue)
            n == req.node
            ok == Usable(id, n)
            states == ok /\ id \in Reexecutes
            proofs == ok /\ id \notin Reexecutes
            post == Append(req.input, Block(id, Height(n)))
            preRoot == SubSeq(Workload[id], 1, Height(n))
            postRoot == SubSeq(Workload[id], 1, Height(n) + 1)
<1>1. req \in Requests /\ Tail(ex.queue) \in Seq(Requests)
  BY SeqHeadTail DEF ExecutionOK
<1>2. n \in Nodes /\ req.input \in Seq(Cmds)
  BY <1>1 DEF Requests
<1>3. Height(n) \in 0 .. NumBlocks - 1 /\ NumBlocks \in Nat
  BY <1>2, SizeAssumption DEF Nodes, Height
<1>4. post \in Seq(Cmds)
  BY <1>2, <1>3, BlockIsCmd, SeqAppend
<1>5. preRoot \in Seq(Cmds) /\ postRoot \in Seq(Cmds)
  <2>1. Height(n) \in 0 .. NumBlocks /\ Height(n) + 1 \in 0 .. NumBlocks
    BY <1>3
  <2>. QED  BY <2>1, WorkloadPrefix
<1>6. IngestValidation(id, ex) =
        [ex EXCEPT
           !.queue = Tail(@),
           !.valid = IF ok THEN @ \cup {n} ELSE @,
           !.invalid = IF ok THEN @ ELSE @ \cup {n},
           !.post_state_by_node = IF states THEN Put(@, n, post) ELSE @,
           !.pre_root_by_node = IF proofs THEN Put(@, n, preRoot) ELSE @,
           !.post_root_by_node = IF proofs THEN Put(@, n, postRoot) ELSE @,
           !.pending_validation = IF @ = n THEN NoPending ELSE @]
  BY DEF IngestValidation
<1>. HIDE DEF n, ok, states, proofs, post, preRoot, postRoot
<1>7. /\ IsMap(Put(ex.post_state_by_node, n, post))
      /\ IsMap(Put(ex.pre_root_by_node, n, preRoot))
      /\ IsMap(Put(ex.post_root_by_node, n, postRoot))
  BY <1>2, <1>4, <1>5, PutIsMap DEF ExecutionOK
<1>. QED  BY <1>1, <1>2, <1>6, <1>7 DEF ExecutionOK, ExecutionFields

-----------------------------------------------------------------------------
\* A parent is one block shorter.
LEMMA ParentLength ==
    ASSUME NEW n \in Nodes
    PROVE  Parent(n) \in Seq(Cmds) /\ Len(Parent(n)) = Len(n) - 1
<1>. DEFINE k == Len(n) - 1
<1>1. n \in Seq(Cmds) /\ Len(n) \in Nat /\ k \in Nat /\ k < Len(n)
  BY SeqLen DEF Nodes
<1>2. \A j \in 1 .. k : n[j] \in Cmds
  BY <1>1, SeqElement
<1>. HIDE DEF k
<1>3. SubSeq(n, 1, k) \in Seq(Cmds) /\ Len(SubSeq(n, 1, k)) = k
  BY <1>1, <1>2, SeqSub
<1>. QED  BY <1>3 DEF Parent, k

\* The parent of a new leaf is what it was appended to.
LEMMA ParentOfAppend ==
    ASSUME NEW n \in Seq(Cmds), NEW c \in Cmds
    PROVE  Parent(Append(n, c)) = n
<1>1. /\ Append(n, c) \in Seq(Cmds) /\ Len(Append(n, c)) = Len(n) + 1
      /\ \A k \in 1 .. Len(n) : Append(n, c)[k] = n[k]
  BY SeqAppend
<1>2. Len(n) \in Nat
  BY SeqLen
<1>. QED  BY <1>1, <1>2, SeqSub DEF Parent

-----------------------------------------------------------------------------
Keeps(r, new) == ReplicaOK(new) /\ new.id = r.id

-----------------------------------------------------------------------------
\* n - f is positive and more than half of n.
LEMMA QuorumIsMajority == Quorum \in 1 .. N /\ 2 * Quorum > N
  BY SizeAssumption DEF Quorum

\* Nobody is no quorum.
LEMMA NoSendersNoQuorum ==
    ASSUME NEW ms, Cardinality(Senders(ms)) >= Quorum
    PROVE  ms # {}
<1>. SUFFICES ASSUME ms = {} PROVE FALSE
  OBVIOUS
<1>1. Cardinality(Senders(ms)) = 0
  BY EmptySize DEF Senders
<1>. QED  BY <1>1, QuorumIsMajority

\* Every view has a leader.
LEMMA LeaderIsReplica ==
    ASSUME NEW v \in Nat
    PROVE  leader_for(v) \in Replicas
  BY SizeAssumption DEF leader_for, Replicas

\* A node's first record is well typed.
LEMMA NewReplicaOK ==
    ASSUME NEW i \in Replicas
    PROVE  ReplicaOK(NewReplica(i)) /\ NewReplica(i).id = i /\ NewReplica(i).out = {}
<1>. DEFINE r == NewReplica(i)
<1>1. /\ DOMAIN r = ReplicaFields
      /\ r.id = i /\ r.view = 0 /\ r.timeout = 1
      /\ r.locked_qc = NoQC /\ r.prepare_qc = NoQC
      /\ r.proposals = {} /\ r.new_view_msgs = {} /\ r.votes = {} /\ r.staged = {}
      /\ r.voted = {} /\ r.broadcast = {} /\ r.timers = {}
      /\ r.ex = NewExecution /\ r.out = {}
  BY DEF NewReplica, ReplicaFields
<1>2. NoQC \in OptQCs /\ NoQC.view = 0
  BY DEF OptQCs, NoQC
<1>. HIDE DEF r
<1>3. ReplicaOK(r)
  BY <1>1, <1>2, NewExecutionOK DEF ReplicaOK
<1>. QED  BY <1>1, <1>3 DEF r

\* NoQC has the fields of a QC.
LEMMA OptQcFields ==
    ASSUME NEW q \in OptQCs
    PROVE  q.view \in Nat /\ q.node \in Nodes \cup {GENESIS_HASH} /\ q.sigs \subseteq Replicas
  BY DEF OptQCs, QCs, NoQC

\* The kind of a message tells which of Wire's variants it is.
LEMMA PacketKinds ==
    ASSUME NEW p \in Packets
    PROVE  /\ p.to \in Replicas /\ p.msg \in Messages
           /\ p.msg.kind = "Proposal" => p.msg \in Proposals
           /\ p.msg.kind = "PhaseQc" => p.msg \in PhaseQcs
           /\ p.msg.kind = "Vote" => p.msg \in Votes
           /\ p.msg.kind = "NewView" => p.msg \in NewViewMsgs
  BY DEF Packets, Messages, Proposals, PhaseQcs, Votes, NewViewMsgs

\* Sending keeps the replica well typed.
LEMMA SendToOK ==
    ASSUME NEW r, ReplicaOK(r), NEW to \in Replicas, NEW m \in Messages
    PROVE  Keeps(r, SendTo(r, to, m))
  BY DEF Keeps, SendTo, ReplicaOK, ReplicaFields, Packets

\* Broadcasting keeps the replica well typed.
LEMMA BroadcastOK ==
    ASSUME NEW r, ReplicaOK(r), NEW m \in Messages
    PROVE  Keeps(r, Broadcast(r, m))
  BY DEF Keeps, Broadcast, ReplicaOK, ReplicaFields, Packets

\* enter_new_view keeps the replica well typed.
LEMMA EnterNewViewOK ==
    ASSUME NEW r, ReplicaOK(r), NEW v \in Nat, v >= r.view
    PROVE  Keeps(r, enter_new_view(r, v))
<1>. DEFINE m == NewView(r.view, r.prepare_qc, r.id)
            moved == [r EXCEPT !.view = v, !.timers = @ \cup {v}]
            self == [moved EXCEPT !.new_view_msgs =
                       {x \in @ : x.view # m.view \/ x.sender # r.id} \cup {m}]
<1>1. m \in NewViewMsgs
  BY DEF NewView, NewViewMsgs, ReplicaOK
<1>2. Keeps(r, moved)
  <2>1. r.prepare_qc.view <= v
    BY OptQcFields DEF ReplicaOK
  <2>. QED  BY <2>1 DEF Keeps, ReplicaOK, ReplicaFields
<1>3. Keeps(r, self)
  <2>. HIDE DEF moved, m
  <2>. QED  BY <1>1, <1>2 DEF Keeps, ReplicaOK, ReplicaFields
<1>4. Keeps(r, SendTo(moved, leader_for(v), m))
  <2>. HIDE DEF moved, m
  <2>. QED  BY <1>1, <1>2, LeaderIsReplica, SendToOK DEF Keeps, Messages
<1>. QED  BY <1>3, <1>4 DEF enter_new_view

-----------------------------------------------------------------------------
\* maybe_kick_validation keeps the replica well typed.
LEMMA KickOK ==
    ASSUME NEW r, ReplicaOK(r), NEW leaf
    PROVE  Keeps(r, Kick(r, leaf))
<1>1. ExecutionOK(MaybeKickValidation(r.id, r.ex, leaf))
  BY MaybeKickValidationOK DEF ReplicaOK
<1>. QED  BY <1>1 DEF Keeps, Kick, ReplicaOK, ReplicaFields

\* Storing a proposal keeps the replica well typed.
LEMMA StoreProposalOK ==
    ASSUME NEW r, ReplicaOK(r), NEW p \in Proposals
    PROVE  Keeps(r, StoreProposal(r, p))
  BY DEF Keeps, StoreProposal, ReplicaOK, ReplicaFields

\* Inserting a node into the tree keeps the replica well typed.
LEMMA LearnOK ==
    ASSUME NEW r, ReplicaOK(r), NEW n \in Nodes
    PROVE  Keeps(r, Learn(r, n))
<1>1. ExecutionOK([r.ex EXCEPT !.tree = @ \cup {n}])
  BY DEF ReplicaOK, ExecutionOK, ExecutionFields
<1>2. Learn(r, n) = [r EXCEPT !.ex = [r.ex EXCEPT !.tree = @ \cup {n}]]
  BY DEF Learn, ReplicaOK, ReplicaFields
<1>. QED  BY <1>1, <1>2 DEF Keeps, ReplicaOK, ReplicaFields

\* max_by_key over the NEW-VIEWs finds one of their QCs, none of them newer.
LEMMA HighQcIsHighest ==
    ASSUME NEW ms, ms \subseteq NewViewMsgs, ms # {}, NEW b \in Int,
           \A m \in ms : m.view <= b
    PROVE  /\ HighQc(ms) \in OptQCs
           /\ \A m \in ms : m.justify.view <= HighQc(ms).view
           /\ \E m \in ms : HighQc(ms) = m.justify
<1>. DEFINE qcs == {m.justify : m \in ms}
            views == {q.view : q \in qcs}
<1>1. \A m \in ms : m.justify \in OptQCs /\ m.justify.view \in Nat /\ m.justify.view <= b
  <2>. SUFFICES ASSUME NEW m \in ms
                PROVE  m.justify \in OptQCs /\ m.justify.view \in Nat /\ m.justify.view <= b
    OBVIOUS
  <2>1. m.justify \in OptQCs /\ m.view \in Nat /\ m.justify.view <= m.view /\ m.view <= b
    BY DEF NewViewMsgs
  <2>2. m.justify.view \in Nat
    BY <2>1, OptQcFields
  <2>. QED  BY <2>1, <2>2
<1>2. views \subseteq Int /\ views # {} /\ \A x \in views : x <= b
  BY <1>1
<1>3. PICK top \in views : \A y \in views : y <= top
  <2>. HIDE DEF views
  <2>. QED  BY <1>2, GreatestInt
<1>4. \E q \in qcs : \A x \in qcs : x.view <= q.view
  BY <1>3
<1>5. HighQc(ms) \in qcs /\ \A x \in qcs : x.view <= HighQc(ms).view
  BY <1>4 DEF HighQc
<1>. QED  BY <1>1, <1>5

\* The leaf leader_prepare builds on highQC is a node of the tree.
LEMMA LeafIsNode ==
    ASSUME NEW i \in Replicas, NEW q \in OptQCs, Len(q.node) < NumBlocks
    PROVE  Append(q.node, Block(i, Len(q.node))) \in Nodes
<1>1. q.node \in Seq(Cmds) /\ Len(q.node) \in Nat
  <2>1. CASE q.node \in Nodes
    BY <2>1, SeqLen DEF Nodes
  <2>2. CASE q.node = GENESIS_HASH
    BY <2>2, SeqEmpty DEF GENESIS_HASH
  <2>. QED  BY <2>1, <2>2, OptQcFields
<1>2. Len(q.node) \in 0 .. NumBlocks - 1 /\ NumBlocks \in Nat
  BY <1>1, SizeAssumption
<1>3. Block(i, Len(q.node)) \in Cmds
  BY <1>2, BlockIsCmd
<1>. QED  BY <1>1, <1>2, <1>3, SeqAppend DEF Nodes

\* leader_prepare keeps the replica well typed: highQC is a QC some NEW-VIEW
\* carried, and the proposal built on it stays within the workload.
LEMMA LeaderPrepareOK ==
    ASSUME NEW r, ReplicaOK(r)
    PROVE  Keeps(r, leader_prepare(r))
<1>. DEFINE ms == NewViews(r)
            high == HighQc(ms)
            leaf == Append(high.node, Block(r.id, Len(high.node)))
            p == Proposal(r.view, leaf, high, r.id)
            r1 == Learn(r, leaf)
            r2 == Broadcast(r1, p)
            r3 == StoreProposal(r2, p)
            r4 == [r3 EXCEPT !.broadcast = @ \cup {<< "proposal", r.view >>}]
            guard == /\ leader_for(r.view) = r.id
                     /\ << "proposal", r.view >> \notin r.broadcast
                     /\ Cardinality(Senders(ms)) >= Quorum
                     /\ high = NoQC \/ high.node \in r.ex.tree
                     /\ Len(high.node) < NumBlocks
<1>1. CASE ~guard
  BY <1>1 DEF leader_prepare, Keeps
<1>2. CASE guard
  <2>1. ms # {}
    BY <1>2, NoSendersNoQuorum
  <2>2. ms \subseteq NewViewMsgs /\ r.view - 1 \in Int /\ \A m \in ms : m.view <= r.view - 1
    BY DEF NewViews, ReplicaOK, NewViewMsgs
  <2>3. high \in OptQCs
    BY <2>1, <2>2, HighQcIsHighest
  <2>4. leaf \in Nodes
    BY <1>2, <2>3, LeafIsNode DEF ReplicaOK
  <2>. HIDE DEF ms, high, leaf
  <2>5. p \in Proposals /\ p \in Messages
    BY <2>3, <2>4 DEF Proposal, Proposals, Messages, ReplicaOK
  <2>. HIDE DEF p
  <2>6. Keeps(r, r1)
    BY <2>4, LearnOK
  <2>. HIDE DEF r1
  <2>7. Keeps(r, r2)
    BY <2>5, <2>6, BroadcastOK DEF Keeps
  <2>. HIDE DEF r2
  <2>8. Keeps(r, r3)
    BY <2>5, <2>7, StoreProposalOK DEF Keeps
  <2>. HIDE DEF r3
  <2>9. Keeps(r, r4)
    BY <2>8 DEF Keeps, ReplicaOK, ReplicaFields, Phases
  <2>. HIDE DEF r4
  <2>10. Keeps(r, Kick(r4, leaf))
    BY <2>9, KickOK DEF Keeps
  <2>11. leader_prepare(r) = Kick(r4, leaf)
    BY <1>2 DEF leader_prepare, r4, r3, r2, r1, p, leaf, high, ms
  <2>. QED  BY <2>10, <2>11
<1>. QED  BY <1>1, <1>2

-----------------------------------------------------------------------------
\* Voting keeps the replica well typed.
LEMMA CastVoteOK ==
    ASSUME NEW r, ReplicaOK(r), NEW type \in VoteTypes, NEW n \in Nodes
    PROVE  Keeps(r, CastVote(r, type, n))
<1>. DEFINE m == Vote(type, r.view, n, r.id)
            marked == [r EXCEPT !.voted = @ \cup {<< type, r.view >>}]
<1>1. m \in Votes /\ m \in Messages
  BY DEF Vote, Votes, Messages, ReplicaOK
<1>2. Keeps(r, marked)
  BY DEF Keeps, ReplicaOK, ReplicaFields
<1>3. leader_for(r.view) \in Replicas
  BY LeaderIsReplica DEF ReplicaOK
<1>4. CastVote(r, type, n) = IF leader_for(r.view) = r.id
                             THEN [marked EXCEPT !.votes = @ \cup {m}]
                             ELSE SendTo(marked, leader_for(r.view), m)
  BY DEF CastVote
<1>. HIDE DEF m, marked
<1>5. Keeps(r, [marked EXCEPT !.votes = @ \cup {m}])
  BY <1>1, <1>2 DEF Keeps, ReplicaOK, ReplicaFields
<1>6. Keeps(r, SendTo(marked, leader_for(r.view), m))
  BY <1>1, <1>2, <1>3, SendToOK DEF Keeps
<1>. QED  BY <1>4, <1>5, <1>6

\* replica_prepare keeps the replica well typed.
LEMMA ReplicaPrepareOK ==
    ASSUME NEW r, ReplicaOK(r)
    PROVE  Keeps(r, replica_prepare(r))
<1>. DEFINE ps == {x \in r.proposals : x.view = r.view}
            p == CHOOSE x \in ps : TRUE
<1>1. ps # {} => p.node \in Nodes
  BY DEF ReplicaOK, Proposals
<1>2. Keeps(r, [r EXCEPT !.voted = @ \cup {<< "prepare", r.view >>}])
  BY DEF Keeps, ReplicaOK, ReplicaFields, VoteTypes
<1>3. ps # {} => Keeps(r, CastVote(r, "prepare", p.node))
  BY <1>1, CastVoteOK DEF VoteTypes
<1>. QED  BY <1>2, <1>3 DEF replica_prepare, Keeps

\* A QC formed from a vote bucket is well typed and has n - f signers.
LEMMA FormQcOK ==
    ASSUME NEW r, ReplicaOK(r), NEW type \in VoteTypes, NEW v \in Nat,
           Certified(r, type, v) # {}
    PROVE  LET q == form_qc(r, type, v)
           IN  /\ q \in QCs /\ q.msg_type = type /\ q.view = v
               /\ Cardinality(q.sigs) >= Quorum
               /\ q.sigs = Voters(r, type, v, q.node)
<1>. DEFINE n == CHOOSE n \in Certified(r, type, v) : TRUE
<1>1. n \in Certified(r, type, v)
  OBVIOUS
<1>2. n \in Nodes
  BY <1>1 DEF Certified, ReplicaOK, Votes
<1>3. Cardinality(Voters(r, type, v, n)) >= Quorum
  BY <1>1 DEF Certified
<1>4. Voters(r, type, v, n) \subseteq Replicas
  BY DEF Voters, ReplicaOK, Votes
<1>5. form_qc(r, type, v) =
        [msg_type |-> type, view |-> v, node |-> n, sigs |-> Voters(r, type, v, n)]
  BY DEF form_qc
<1>. HIDE DEF n
<1>. QED  BY <1>2, <1>3, <1>4, <1>5 DEF QCs

\* Staging a QC keeps the replica well typed.
LEMMA StageOK ==
    ASSUME NEW r, ReplicaOK(r), NEW q \in QCs
    PROVE  Keeps(r, Stage(r, q))
  BY DEF Keeps, Stage, ReplicaOK, ReplicaFields

\* Forming, broadcasting and staging a QC keeps the replica well typed.
LEMMA LeaderAggregateOK ==
    ASSUME NEW r, ReplicaOK(r), NEW vote \in VoteTypes,
           NEW phase \in {"pre_commit", "commit", "decide"}
    PROVE  Keeps(r, LeaderAggregate(r, vote, phase))
<1>. DEFINE qc == form_qc(r, vote, r.view)
            m == PhaseQc(phase, r.view, qc, r.id)
            sent == Broadcast(r, m)
            marked == [sent EXCEPT !.broadcast = @ \cup {<< phase, r.view >>}]
            quiet == \/ leader_for(r.view) # r.id
                     \/ << phase, r.view >> \in r.broadcast
                     \/ Certified(r, vote, r.view) = {}
<1>1. CASE quiet
  BY <1>1 DEF LeaderAggregate, Keeps
<1>2. CASE ~quiet
  <2>1. qc \in QCs
    BY <1>2, FormQcOK DEF ReplicaOK
  <2>. HIDE DEF qc
  <2>2. m \in Messages
    BY <2>1 DEF PhaseQc, PhaseQcs, Messages, ReplicaOK
  <2>. HIDE DEF m
  <2>3. Keeps(r, sent)
    BY <2>2, BroadcastOK
  <2>. HIDE DEF sent
  <2>4. Keeps(r, marked)
    BY <2>3 DEF Keeps, ReplicaOK, ReplicaFields, Phases
  <2>. HIDE DEF marked
  <2>5. Keeps(r, Stage(marked, qc))
    BY <2>1, <2>4, StageOK DEF Keeps
  <2>6. LeaderAggregate(r, vote, phase) = Stage(marked, qc)
    BY <1>2 DEF LeaderAggregate, marked, sent, m, qc
  <2>. QED  BY <2>5, <2>6
<1>. QED  BY <1>1, <1>2

\* leader_pre_commit, leader_commit and leader_decide keep the replica well typed.
LEMMA LeaderRulesOK ==
    ASSUME NEW r, ReplicaOK(r)
    PROVE  /\ Keeps(r, leader_pre_commit(r))
           /\ Keeps(r, leader_commit(r))
           /\ Keeps(r, leader_decide(r))
  BY LeaderAggregateOK DEF leader_pre_commit, leader_commit, leader_decide, VoteTypes

\* A QC a replica rule takes from the staged ones is one of its own view.
LEMMA StagedQc ==
    ASSUME NEW r, ReplicaOK(r), NEW type, Staged(r, type) # {}
    PROVE  LET q == CHOOSE q \in Staged(r, type) : TRUE
           IN  /\ q \in r.staged /\ q \in QCs /\ q \in OptQCs
               /\ q.msg_type = type /\ q.view = r.view /\ q.node \in Nodes
<1>. DEFINE q == CHOOSE q \in Staged(r, type) : TRUE
<1>1. q \in Staged(r, type)
  OBVIOUS
<1>. HIDE DEF q
<1>2. q \in r.staged /\ q.msg_type = type /\ q.view = r.view /\ q \in QCs
  BY <1>1 DEF Staged, ReplicaOK
<1>3. q \in OptQCs /\ q.node \in Nodes
  BY <1>2 DEF QCs, OptQCs
<1>. QED  BY <1>2, <1>3 DEF q

\* replica_pre_commit keeps the replica well typed: the prepareQC it stores is
\* one of the current view.
LEMMA ReplicaPreCommitOK ==
    ASSUME NEW r, ReplicaOK(r)
    PROVE  Keeps(r, replica_pre_commit(r))
<1>. DEFINE qc == CHOOSE q \in Staged(r, "prepare") : TRUE
            stored == [r EXCEPT !.prepare_qc = qc]
<1>1. CASE Staged(r, "prepare") = {}
  BY <1>1 DEF replica_pre_commit, Keeps
<1>2. CASE Staged(r, "prepare") # {}
  <2>1. qc \in OptQCs /\ qc.view = r.view /\ qc.node \in Nodes
    BY <1>2, StagedQc
  <2>2. replica_pre_commit(r) = IF << "pre_commit", r.view >> \in r.voted THEN r
                                ELSE CastVote(stored, "pre_commit", qc.node)
    BY <1>2 DEF replica_pre_commit
  <2>. HIDE DEF qc
  <2>3. Keeps(r, stored)
    BY <2>1 DEF Keeps, ReplicaOK, ReplicaFields
  <2>. HIDE DEF stored
  <2>4. Keeps(r, CastVote(stored, "pre_commit", qc.node))
    BY <2>1, <2>3, CastVoteOK DEF Keeps, VoteTypes
  <2>. QED  BY <2>2, <2>4 DEF Keeps
<1>. QED  BY <1>1, <1>2

\* replica_commit keeps the replica well typed.
LEMMA ReplicaCommitOK ==
    ASSUME NEW r, ReplicaOK(r)
    PROVE  Keeps(r, replica_commit(r))
<1>. DEFINE qc == CHOOSE q \in Staged(r, "pre_commit") : TRUE
            stored == [r EXCEPT !.locked_qc = qc]
<1>1. CASE Staged(r, "pre_commit") = {}
  BY <1>1 DEF replica_commit, Keeps
<1>2. CASE Staged(r, "pre_commit") # {}
  <2>1. qc \in OptQCs /\ qc.node \in Nodes
    BY <1>2, StagedQc
  <2>2. replica_commit(r) = IF << "commit", r.view >> \in r.voted THEN r
                            ELSE CastVote(stored, "commit", qc.node)
    BY <1>2 DEF replica_commit
  <2>. HIDE DEF qc
  <2>3. Keeps(r, stored)
    BY <2>1 DEF Keeps, ReplicaOK, ReplicaFields
  <2>. HIDE DEF stored
  <2>4. Keeps(r, CastVote(stored, "commit", qc.node))
    BY <2>1, <2>3, CastVoteOK DEF Keeps, VoteTypes
  <2>. QED  BY <2>2, <2>4 DEF Keeps
<1>. QED  BY <1>1, <1>2

\* Marking a node decided keeps the execution state well typed.
LEMMA DecidedOK ==
    ASSUME NEW ex, ExecutionOK(ex), NEW n \in Nodes
    PROVE  ExecutionOK(Decided(ex, n))
  BY DEF Decided, ExecutionOK, ExecutionFields

\* replica_decide keeps the replica well typed.
LEMMA ReplicaDecideOK ==
    ASSUME NEW r, ReplicaOK(r)
    PROVE  Keeps(r, replica_decide(r))
<1>. DEFINE qc == CHOOSE q \in Staged(r, "commit") : TRUE
            ex == TryExecuteChain(r.id, Decided(r.ex, qc.node), qc.node)
            executed == [r EXCEPT !.ex = ex, !.timeout = 1]
<1>1. CASE Staged(r, "commit") = {}
  BY <1>1 DEF replica_decide, Keeps
<1>2. CASE Staged(r, "commit") # {}
  <2>1. qc.node \in Nodes
    BY <1>2, StagedQc
  <2>2. replica_decide(r) = enter_new_view(executed, r.view + 1)
    BY <1>2 DEF replica_decide
  <2>. HIDE DEF qc
  <2>3. ExecutionOK(ex)
    BY <2>1, DecidedOK, TryExecuteChainOK DEF ReplicaOK
  <2>. HIDE DEF ex
  <2>4. Keeps(r, executed) /\ executed.view = r.view
    BY <2>3 DEF Keeps, ReplicaOK, ReplicaFields
  <2>. HIDE DEF executed
  <2>5. r.view + 1 \in Nat /\ r.view + 1 >= executed.view
    BY <2>4 DEF ReplicaOK
  <2>. QED  BY <2>2, <2>4, <2>5, EnterNewViewOK DEF Keeps
<1>. QED  BY <1>1, <1>2

\* retry_pending_execute and try_kick_pending_validations keep the replica well
\* typed.
LEMMA ExecutePassOK ==
    ASSUME NEW r, ReplicaOK(r)
    PROVE  Keeps(r, ExecutePass(r))
<1>1. ExecutionOK(TryKickPendingValidations(r.id, RetryPendingExecute(r.id, r.ex)))
  BY RetryPendingExecuteOK, TryKickPendingValidationsOK DEF ReplicaOK
<1>. QED  BY <1>1 DEF Keeps, ExecutePass, ReplicaOK, ReplicaFields

\* One try_advance pass leaves a well-typed replica.
LEMMA TryAdvanceOK ==
    ASSUME NEW r, ReplicaOK(r)
    PROVE  Keeps(r, try_advance(r))
<1>. DEFINE r1 == leader_prepare(r)
            r2 == replica_prepare(r1)
            r3 == leader_pre_commit(r2)
            r4 == replica_pre_commit(r3)
            r5 == leader_commit(r4)
            r6 == replica_commit(r5)
            r7 == leader_decide(r6)
            r8 == replica_decide(r7)
<1>0. try_advance(r) = ExecutePass(r8)
  BY DEF try_advance
<1>1. Keeps(r, r1)
  BY LeaderPrepareOK
<1>. HIDE DEF r1
<1>2. Keeps(r, r2)
  BY <1>1, ReplicaPrepareOK DEF Keeps
<1>. HIDE DEF r2
<1>3. Keeps(r, r3)
  BY <1>2, LeaderRulesOK DEF Keeps
<1>. HIDE DEF r3
<1>4. Keeps(r, r4)
  BY <1>3, ReplicaPreCommitOK DEF Keeps
<1>. HIDE DEF r4
<1>5. Keeps(r, r5)
  BY <1>4, LeaderRulesOK DEF Keeps
<1>. HIDE DEF r5
<1>6. Keeps(r, r6)
  BY <1>5, ReplicaCommitOK DEF Keeps
<1>. HIDE DEF r6
<1>7. Keeps(r, r7)
  BY <1>6, LeaderRulesOK DEF Keeps
<1>. HIDE DEF r7
<1>8. Keeps(r, r8)
  BY <1>7, ReplicaDecideOK DEF Keeps
<1>. HIDE DEF r8
<1>. QED  BY <1>0, <1>8, ExecutePassOK DEF Keeps

-----------------------------------------------------------------------------
\* handle_msg on a PROPOSAL keeps the replica well typed.
LEMMA HandleProposalOK ==
    ASSUME NEW r, ReplicaOK(r), NEW m \in Proposals
    PROVE  Keeps(r, handle_proposal(r, m))
<1>1. m.node \in Nodes
  BY DEF Proposals
<1>2. Keeps(r, Learn(r, m.node))
  BY <1>1, LearnOK
<1>3. Keeps(r, StoreProposal(Learn(r, m.node), m))
  BY <1>2, StoreProposalOK DEF Keeps
<1>4. Keeps(r, Kick(StoreProposal(Learn(r, m.node), m), m.node))
  BY <1>3, KickOK DEF Keeps
<1>. QED  BY <1>4 DEF handle_proposal, Keeps

\* handle_msg on a PRE-COMMIT, COMMIT or DECIDE keeps the replica well typed.
LEMMA HandlePhaseQcOK ==
    ASSUME NEW r, ReplicaOK(r), NEW m \in PhaseQcs
    PROVE  Keeps(r, handle_phase_qc(r, m))
<1>. DEFINE staged == Stage(r, m.justify)
            decided == [staged EXCEPT !.ex = Decided(@, m.justify.node)]
<1>1. m.justify \in QCs /\ m.justify.node \in Nodes
  BY DEF PhaseQcs, QCs
<1>2. Keeps(r, staged)
  BY <1>1, StageOK
<1>3. handle_phase_qc(r, m) \in {r, staged, decided}
  BY DEF handle_phase_qc
<1>. HIDE DEF staged
<1>4. ExecutionOK(Decided(staged.ex, m.justify.node))
  BY <1>1, <1>2, DecidedOK DEF Keeps, ReplicaOK
<1>5. Keeps(r, decided)
  BY <1>2, <1>4 DEF Keeps, ReplicaOK, ReplicaFields
<1>. HIDE DEF decided
<1>. QED  BY <1>2, <1>3, <1>5 DEF Keeps

\* handle_msg on a vote keeps the replica well typed.
LEMMA HandleVoteOK ==
    ASSUME NEW r, ReplicaOK(r), NEW m \in Votes
    PROVE  Keeps(r, handle_vote(r, m))
  BY DEF Keeps, handle_vote, ReplicaOK, ReplicaFields

\* handle_msg on a NEW-VIEW keeps the replica well typed.
LEMMA HandleNewViewOK ==
    ASSUME NEW r, ReplicaOK(r), NEW m \in NewViewMsgs
    PROVE  Keeps(r, handle_new_view(r, m))
  BY DEF Keeps, handle_new_view, ReplicaOK, ReplicaFields

\* handle_timer keeps the replica well typed, whichever view's timer fires.
LEMMA HandleTimerOK ==
    ASSUME NEW r, ReplicaOK(r), NEW v
    PROVE  Keeps(r, handle_timer(r, v))
<1>. DEFINE fired == [r EXCEPT !.timers = @ \ {v}]
            doubled == [fired EXCEPT !.timeout = 2 * @]
<1>1. Keeps(r, fired)
  BY DEF Keeps, ReplicaOK, ReplicaFields
<1>2. Keeps(r, doubled) /\ doubled.view = r.view
  BY DEF Keeps, ReplicaOK, ReplicaFields
<1>3. handle_timer(r, v) \in {fired, enter_new_view(doubled, r.view + 1)}
  BY DEF handle_timer
<1>4. r.view + 1 \in Nat /\ r.view + 1 >= doubled.view
  BY <1>2 DEF ReplicaOK
<1>. HIDE DEF fired, doubled
<1>5. Keeps(r, enter_new_view(doubled, r.view + 1))
  BY <1>2, <1>4, EnterNewViewOK DEF Keeps
<1>. QED  BY <1>1, <1>3, <1>5

\* ingest_validation of an answer keeps the replica well typed.
LEMMA HandleValidationOK ==
    ASSUME NEW r, ReplicaOK(r), r.ex.queue # << >>
    PROVE  Keeps(r, handle_validation(r))
<1>1. ExecutionOK(IngestValidation(r.id, r.ex))
  BY IngestValidationOK DEF ReplicaOK
<1>. QED  BY <1>1 DEF Keeps, handle_validation, ReplicaOK, ReplicaFields

-----------------------------------------------------------------------------
(***************************************************************************)
(* Type correctness of the cluster                                         *)
(***************************************************************************)

\* The end of a turn of the event loop keeps the types, whatever well-typed
\* record the handler left behind.
LEMMA TurnKeepsTypes ==
    ASSUME TypeOK, NEW i \in Replicas, NEW r, Keeps(rs[i], r), NEW received,
           Turn(i, r, received)
    PROVE  TypeOK'
<1>. DEFINE done == try_advance(r)
<1>1. Keeps(r, done)
  BY TryAdvanceOK DEF Keeps
<1>2. done.id = i
  BY <1>1 DEF Keeps, TypeOK
<1>3. rs' = [rs EXCEPT ![i] = Flush(done)] /\ net' = (net \ received) \cup done.out
  BY DEF Turn
<1>. HIDE DEF done
<1>4. ReplicaOK(Flush(done)) /\ Flush(done).id = i /\ Flush(done).out = {}
  BY <1>1, <1>2 DEF Keeps, Flush, ReplicaOK, ReplicaFields
<1>5. done.out \subseteq Packets
  BY <1>1 DEF Keeps, ReplicaOK
<1>. QED  BY <1>3, <1>4, <1>5 DEF TypeOK

\* Every turn starts from what a handler leaves behind: a well-typed record.
LEMMA NextKeepsTypes ==
    ASSUME TypeOK, [Next]_vars
    PROVE  TypeOK'
<1>1. CASE UNCHANGED vars
  BY <1>1 DEF vars, TypeOK
<1>2. ASSUME NEW i \in Replicas, Start(i)
      PROVE  TypeOK'
  <2>1. Keeps(rs[i], enter_new_view(rs[i], 1))
    BY <1>2, EnterNewViewOK DEF Start, TypeOK
  <2>. QED  BY <1>2, <2>1, TurnKeepsTypes DEF Start
<1>3. ASSUME NEW i \in Replicas, ReceiveProposal(i)
      PROVE  TypeOK'
  <2>1. PICK p \in net : /\ p.msg.kind = "Proposal"
                         /\ Turn(i, handle_proposal(rs[i], p.msg), {p})
    BY <1>3 DEF ReceiveProposal
  <2>2. p.msg \in Proposals
    BY <2>1, PacketKinds DEF TypeOK
  <2>3. Keeps(rs[i], handle_proposal(rs[i], p.msg))
    BY <2>2, HandleProposalOK DEF TypeOK
  <2>. QED  BY <2>1, <2>3, TurnKeepsTypes
<1>4. ASSUME NEW i \in Replicas, ReceivePhaseQc(i)
      PROVE  TypeOK'
  <2>1. PICK p \in net : /\ p.msg.kind = "PhaseQc"
                         /\ Turn(i, handle_phase_qc(rs[i], p.msg), {p})
    BY <1>4 DEF ReceivePhaseQc
  <2>2. p.msg \in PhaseQcs
    BY <2>1, PacketKinds DEF TypeOK
  <2>3. Keeps(rs[i], handle_phase_qc(rs[i], p.msg))
    BY <2>2, HandlePhaseQcOK DEF TypeOK
  <2>. QED  BY <2>1, <2>3, TurnKeepsTypes
<1>5. ASSUME NEW i \in Replicas, ReceiveVote(i)
      PROVE  TypeOK'
  <2>1. PICK p \in net : /\ p.msg.kind = "Vote"
                         /\ Turn(i, handle_vote(rs[i], p.msg), {p})
    BY <1>5 DEF ReceiveVote
  <2>2. p.msg \in Votes
    BY <2>1, PacketKinds DEF TypeOK
  <2>3. Keeps(rs[i], handle_vote(rs[i], p.msg))
    BY <2>2, HandleVoteOK DEF TypeOK
  <2>. QED  BY <2>1, <2>3, TurnKeepsTypes
<1>6. ASSUME NEW i \in Replicas, ReceiveNewView(i)
      PROVE  TypeOK'
  <2>1. PICK p \in net : /\ p.msg.kind = "NewView"
                         /\ Turn(i, handle_new_view(rs[i], p.msg), {p})
    BY <1>6 DEF ReceiveNewView
  <2>2. p.msg \in NewViewMsgs
    BY <2>1, PacketKinds DEF TypeOK
  <2>3. Keeps(rs[i], handle_new_view(rs[i], p.msg))
    BY <2>2, HandleNewViewOK DEF TypeOK
  <2>. QED  BY <2>1, <2>3, TurnKeepsTypes
<1>7. ASSUME NEW i \in Replicas, ValidationDone(i)
      PROVE  TypeOK'
  <2>1. Keeps(rs[i], handle_validation(rs[i]))
    BY <1>7, HandleValidationOK DEF ValidationDone, TypeOK
  <2>. QED  BY <1>7, <2>1, TurnKeepsTypes DEF ValidationDone
<1>8. ASSUME NEW i \in Replicas, NextViewTimer(i)
      PROVE  TypeOK'
  <2>1. Keeps(rs[i], handle_timer(rs[i], rs[i].view))
    BY HandleTimerOK DEF TypeOK
  <2>. QED  BY <1>8, <2>1, TurnKeepsTypes DEF NextViewTimer
<1>9. ASSUME NEW i \in Replicas, StaleTimer(i)
      PROVE  TypeOK'
  <2>1. PICK v \in rs[i].timers : Turn(i, handle_timer(rs[i], v), {})
    BY <1>9 DEF StaleTimer
  <2>2. Keeps(rs[i], handle_timer(rs[i], v))
    BY HandleTimerOK DEF TypeOK
  <2>. QED  BY <2>1, <2>2, TurnKeepsTypes
<1>. QED  BY <1>1, <1>2, <1>3, <1>4, <1>5, <1>6, <1>7, <1>8, <1>9 DEF Next, Receive

\* Every field of every replica and every message in flight has its type, in
\* every reachable state of every cluster: among the rest, no proposal is ever
\* built past the workload, last_executed_height never leaves it, and no
\* NEW-VIEW carries a prepareQC from after the view it leaves.
THEOREM TypeCorrectness == Spec => []TypeOK
<1>1. Init => TypeOK
  BY NewReplicaOK DEF Init, TypeOK
<1>2. TypeOK /\ [Next]_vars => TypeOK'
  BY NextKeepsTypes
<1>. QED  BY <1>1, <1>2, PTL DEF Spec

-----------------------------------------------------------------------------
(***************************************************************************)
(* The NEXTVIEW timer                                                      *)
(***************************************************************************)

\* What leaves the view and its timers alone, and no staged QC out.
SameView(r, new) ==
    new.view = r.view /\ new.timers = r.timers /\ r.staged \subseteq new.staged

\* Voting does.
LEMMA CastVoteSameView ==
    ASSUME NEW r, ReplicaOK(r), NEW type, NEW n
    PROVE  SameView(r, CastVote(r, type, n))
  BY DEF CastVote, SendTo, SameView, ReplicaOK, ReplicaFields

\* leader_prepare does.
LEMMA LeaderPrepareSameView ==
    ASSUME NEW r, ReplicaOK(r)
    PROVE  SameView(r, leader_prepare(r))
<1>. DEFINE ms == NewViews(r)
            high == HighQc(ms)
            leaf == Append(high.node, Block(r.id, Len(high.node)))
            p == Proposal(r.view, leaf, high, r.id)
            r1 == Learn(r, leaf)
            r2 == Broadcast(r1, p)
            r3 == StoreProposal(r2, p)
            r4 == [r3 EXCEPT !.broadcast = @ \cup {<< "proposal", r.view >>}]
<1>1. leader_prepare(r) \in {r, Kick(r4, leaf)}
  BY DEF leader_prepare
<1>2. DOMAIN r = ReplicaFields
  BY DEF ReplicaOK
<1>. HIDE DEF ms, high, leaf, p
<1>3. SameView(r, r1) /\ DOMAIN r1 = ReplicaFields
  BY <1>2 DEF Learn, SameView, ReplicaFields
<1>. HIDE DEF r1
<1>4. SameView(r, r2) /\ DOMAIN r2 = ReplicaFields
  BY <1>3 DEF Broadcast, SameView, ReplicaFields
<1>. HIDE DEF r2
<1>5. SameView(r, r3) /\ DOMAIN r3 = ReplicaFields
  BY <1>4 DEF StoreProposal, SameView, ReplicaFields
<1>. HIDE DEF r3
<1>6. SameView(r, r4) /\ DOMAIN r4 = ReplicaFields
  BY <1>5 DEF SameView, ReplicaFields
<1>. HIDE DEF r4
<1>7. SameView(r, Kick(r4, leaf))
  BY <1>6 DEF Kick, SameView, ReplicaFields
<1>. QED  BY <1>1, <1>7 DEF SameView

\* So do the rules that vote.
LEMMA VoteRulesSameView ==
    ASSUME NEW r, ReplicaOK(r)
    PROVE  /\ SameView(r, replica_prepare(r))
           /\ SameView(r, replica_pre_commit(r))
           /\ SameView(r, replica_commit(r))
<1>1. DOMAIN r = ReplicaFields
  BY DEF ReplicaOK
<1>2. SameView(r, replica_prepare(r))
  <2>1. SameView(r, [r EXCEPT !.voted = @ \cup {<< "prepare", r.view >>}])
    BY <1>1 DEF SameView, ReplicaFields
  <2>2. SameView(r, r)
    BY DEF SameView
  <2>. QED  BY <2>1, <2>2, CastVoteSameView DEF replica_prepare
<1>3. SameView(r, replica_pre_commit(r))
  <2>. DEFINE qc == CHOOSE q \in Staged(r, "prepare") : TRUE
              stored == [r EXCEPT !.prepare_qc = qc]
  <2>1. replica_pre_commit(r) \in {r, CastVote(stored, "pre_commit", qc.node)}
    BY DEF replica_pre_commit
  <2>. HIDE DEF qc
  <2>2. SameView(r, stored) /\ DOMAIN stored = ReplicaFields
    BY <1>1 DEF SameView, ReplicaFields
  <2>. HIDE DEF stored
  <2>3. SameView(r, CastVote(stored, "pre_commit", qc.node))
    BY <2>2 DEF CastVote, SendTo, SameView, ReplicaFields
  <2>. QED  BY <2>1, <2>3 DEF SameView
<1>4. SameView(r, replica_commit(r))
  <2>. DEFINE qc == CHOOSE q \in Staged(r, "pre_commit") : TRUE
              stored == [r EXCEPT !.locked_qc = qc]
  <2>1. replica_commit(r) \in {r, CastVote(stored, "commit", qc.node)}
    BY DEF replica_commit
  <2>. HIDE DEF qc
  <2>2. SameView(r, stored) /\ DOMAIN stored = ReplicaFields
    BY <1>1 DEF SameView, ReplicaFields
  <2>. HIDE DEF stored
  <2>3. SameView(r, CastVote(stored, "commit", qc.node))
    BY <2>2 DEF CastVote, SendTo, SameView, ReplicaFields
  <2>. QED  BY <2>1, <2>3 DEF SameView
<1>. QED  BY <1>2, <1>3, <1>4

\* And the three rules with which a leader forms a QC.
LEMMA LeaderRulesSameView ==
    ASSUME NEW r, ReplicaOK(r)
    PROVE  /\ SameView(r, leader_pre_commit(r))
           /\ SameView(r, leader_commit(r))
           /\ SameView(r, leader_decide(r))
<1>1. ASSUME NEW vote, NEW phase PROVE SameView(r, LeaderAggregate(r, vote, phase))
  <2>. DEFINE qc == form_qc(r, vote, r.view)
              sent == Broadcast(r, PhaseQc(phase, r.view, qc, r.id))
              marked == [sent EXCEPT !.broadcast = @ \cup {<< phase, r.view >>}]
  <2>1. LeaderAggregate(r, vote, phase) \in {r, Stage(marked, qc)}
    BY DEF LeaderAggregate
  <2>2. DOMAIN r = ReplicaFields
    BY DEF ReplicaOK
  <2>. HIDE DEF qc
  <2>3. SameView(r, sent) /\ DOMAIN sent = ReplicaFields
    BY <2>2 DEF Broadcast, SameView, ReplicaFields
  <2>. HIDE DEF sent
  <2>4. SameView(r, marked) /\ DOMAIN marked = ReplicaFields
    BY <2>3 DEF SameView, ReplicaFields
  <2>. HIDE DEF marked
  <2>5. SameView(r, Stage(marked, qc))
    BY <2>4 DEF Stage, SameView, ReplicaFields
  <2>. QED  BY <2>1, <2>5 DEF SameView
<1>. QED  BY <1>1 DEF leader_pre_commit, leader_commit, leader_decide

\* The timer of the view is to come, or a DECIDE is staged that ends the view.
Waits(r) == r.view \in r.timers \/ Staged(r, "commit") # {}

\* A wait is kept by what leaves the view and its certificates alone.
LEMMA WaitsOn ==
    ASSUME NEW r, NEW new, Waits(r), SameView(r, new)
    PROVE  Waits(new)
  BY DEF Waits, SameView, Staged

\* enter_new_view arms the timer of the view it enters.
LEMMA EnterArms ==
    ASSUME NEW r, ReplicaOK(r), NEW v
    PROVE  enter_new_view(r, v).view = v /\ v \in enter_new_view(r, v).timers
<1>. DEFINE m == NewView(r.view, r.prepare_qc, r.id)
            moved == [r EXCEPT !.view = v, !.timers = @ \cup {v}]
            self == [moved EXCEPT !.new_view_msgs =
                       {x \in @ : x.view # m.view \/ x.sender # r.id} \cup {m}]
<1>1. enter_new_view(r, v) \in {self, SendTo(moved, leader_for(v), m)}
  BY DEF enter_new_view
<1>. HIDE DEF m
<1>2. moved.view = v /\ v \in moved.timers /\ DOMAIN moved = ReplicaFields
  BY DEF ReplicaOK, ReplicaFields
<1>. HIDE DEF moved
<1>3. self.view = v /\ v \in self.timers
  BY <1>2 DEF ReplicaFields
<1>4. SendTo(moved, leader_for(v), m).view = v /\ v \in SendTo(moved, leader_for(v), m).timers
  BY <1>2 DEF SendTo, ReplicaFields
<1>. QED  BY <1>1, <1>3, <1>4

\* replica_decide makes good for a timer that fired: it leaves the view.
LEMMA DecideArms ==
    ASSUME NEW r, ReplicaOK(r), Waits(r)
    PROVE  replica_decide(r).view \in replica_decide(r).timers
<1>. DEFINE qc == CHOOSE q \in Staged(r, "commit") : TRUE
            ex == TryExecuteChain(r.id, Decided(r.ex, qc.node), qc.node)
            executed == [r EXCEPT !.ex = ex, !.timeout = 1]
<1>1. CASE Staged(r, "commit") = {}
  BY <1>1 DEF replica_decide, Waits
<1>2. CASE Staged(r, "commit") # {}
  <2>1. qc.node \in Nodes
    BY <1>2, StagedQc
  <2>2. replica_decide(r) = enter_new_view(executed, r.view + 1)
    BY <1>2 DEF replica_decide
  <2>. HIDE DEF qc
  <2>3. ExecutionOK(ex)
    BY <2>1, DecidedOK, TryExecuteChainOK DEF ReplicaOK
  <2>. HIDE DEF ex
  <2>4. ReplicaOK(executed)
    BY <2>3 DEF ReplicaOK, ReplicaFields
  <2>. HIDE DEF executed
  <2>. QED  BY <2>2, <2>4, EnterArms
<1>. QED  BY <1>1, <1>2

\* After a pass the timer is armed.
LEMMA TryAdvanceArms ==
    ASSUME NEW r, ReplicaOK(r), Waits(r)
    PROVE  try_advance(r).view \in try_advance(r).timers
<1>. DEFINE r1 == leader_prepare(r)
            r2 == replica_prepare(r1)
            r3 == leader_pre_commit(r2)
            r4 == replica_pre_commit(r3)
            r5 == leader_commit(r4)
            r6 == replica_commit(r5)
            r7 == leader_decide(r6)
            r8 == replica_decide(r7)
<1>0. try_advance(r) = ExecutePass(r8)
  BY DEF try_advance
<1>1. ReplicaOK(r1) /\ Waits(r1)
  BY LeaderPrepareOK, LeaderPrepareSameView, WaitsOn DEF Keeps
<1>. HIDE DEF r1
<1>2. ReplicaOK(r2) /\ Waits(r2)
  BY <1>1, ReplicaPrepareOK, VoteRulesSameView, WaitsOn DEF Keeps
<1>. HIDE DEF r2
<1>3. ReplicaOK(r3) /\ Waits(r3)
  BY <1>2, LeaderRulesOK, LeaderRulesSameView, WaitsOn DEF Keeps
<1>. HIDE DEF r3
<1>4. ReplicaOK(r4) /\ Waits(r4)
  BY <1>3, ReplicaPreCommitOK, VoteRulesSameView, WaitsOn DEF Keeps
<1>. HIDE DEF r4
<1>5. ReplicaOK(r5) /\ Waits(r5)
  BY <1>4, LeaderRulesOK, LeaderRulesSameView, WaitsOn DEF Keeps
<1>. HIDE DEF r5
<1>6. ReplicaOK(r6) /\ Waits(r6)
  BY <1>5, ReplicaCommitOK, VoteRulesSameView, WaitsOn DEF Keeps
<1>. HIDE DEF r6
<1>7. ReplicaOK(r7) /\ Waits(r7)
  BY <1>6, LeaderRulesOK, LeaderRulesSameView, WaitsOn DEF Keeps
<1>. HIDE DEF r7
<1>8. ReplicaOK(r8) /\ r8.view \in r8.timers
  BY <1>7, ReplicaDecideOK, DecideArms DEF Keeps
<1>. HIDE DEF r8
<1>. QED  BY <1>0, <1>8 DEF ExecutePass, ReplicaOK, ReplicaFields

\* Whatever the event, the handler leaves a timer or a staged DECIDE behind.
LEMMA HandlersWait ==
    ASSUME NEW r, ReplicaOK(r), r.view \in r.timers
    PROVE  /\ \A m : /\ Waits(handle_proposal(r, m)) /\ Waits(handle_phase_qc(r, m))
                     /\ Waits(handle_vote(r, m)) /\ Waits(handle_new_view(r, m))
           /\ \A v : Waits(handle_timer(r, v))
           /\ Waits(handle_validation(r))
<1>0. DOMAIN r = ReplicaFields /\ Waits(r) /\ SameView(r, r)
  BY DEF ReplicaOK, Waits, SameView
<1>1. ASSUME NEW m PROVE Waits(handle_proposal(r, m))
  <2>. DEFINE r1 == Learn(r, m.node)
              r2 == StoreProposal(r1, m)
  <2>1. handle_proposal(r, m) \in {r, Kick(r2, m.node)}
    BY DEF handle_proposal
  <2>2. SameView(r, r1) /\ DOMAIN r1 = ReplicaFields
    BY <1>0 DEF Learn, SameView, ReplicaFields
  <2>. HIDE DEF r1
  <2>3. SameView(r, r2) /\ DOMAIN r2 = ReplicaFields
    BY <2>2 DEF StoreProposal, SameView, ReplicaFields
  <2>. HIDE DEF r2
  <2>4. SameView(r, Kick(r2, m.node))
    BY <2>3 DEF Kick, SameView, ReplicaFields
  <2>. QED  BY <1>0, <2>1, <2>4, WaitsOn
<1>2. ASSUME NEW m PROVE Waits(handle_phase_qc(r, m))
  <2>. DEFINE staged == Stage(r, m.justify)
              decided == [staged EXCEPT !.ex = Decided(@, m.justify.node)]
  <2>1. handle_phase_qc(r, m) \in {r, staged, decided}
    BY DEF handle_phase_qc
  <2>2. SameView(r, staged) /\ DOMAIN staged = ReplicaFields
    BY <1>0 DEF Stage, SameView, ReplicaFields
  <2>. HIDE DEF staged
  <2>3. SameView(r, decided)
    BY <2>2 DEF SameView, ReplicaFields
  <2>. HIDE DEF decided
  <2>. QED  BY <1>0, <2>1, <2>2, <2>3, WaitsOn
<1>3. ASSUME NEW m PROVE SameView(r, handle_vote(r, m)) /\ SameView(r, handle_new_view(r, m))
  BY <1>0 DEF handle_vote, handle_new_view, SameView, ReplicaFields
<1>4. SameView(r, handle_validation(r))
  BY <1>0 DEF handle_validation, SameView, ReplicaFields
<1>5. ASSUME NEW v PROVE Waits(handle_timer(r, v))
  <2>. DEFINE fired == [r EXCEPT !.timers = @ \ {v}]
              doubled == [fired EXCEPT !.timeout = 2 * @]
  <2>1. CASE v # r.view \/ Staged(r, "commit") # {}
    <3>1. handle_timer(r, v) = fired
      BY <2>1 DEF handle_timer
    <3>2. fired.view = r.view /\ fired.timers = r.timers \ {v} /\ fired.staged = r.staged
      BY <1>0 DEF ReplicaFields
    <3>3. Staged(fired, "commit") = Staged(r, "commit")
      BY <3>2 DEF Staged
    <3>. HIDE DEF fired
    <3>. QED  BY <2>1, <3>1, <3>2, <3>3 DEF Waits
  <2>2. CASE ~(v # r.view \/ Staged(r, "commit") # {})
    <3>1. handle_timer(r, v) = enter_new_view(doubled, r.view + 1)
      BY <2>2 DEF handle_timer
    <3>2. ReplicaOK(doubled)
      BY DEF ReplicaOK, ReplicaFields
    <3>. HIDE DEF doubled
    <3>. QED  BY <3>1, <3>2, EnterArms DEF Waits
  <2>. QED  BY <2>1, <2>2
<1>. QED  BY <1>0, <1>1, <1>2, <1>3, <1>4, <1>5, WaitsOn

\* A node never waits without a NEXTVIEW timer for the view it is in (handle_timer,
\* replica_decide, enter_new_view), for every cluster and schedule.
THEOREM TimersAreArmed == Spec => []TimerArmed
<1>1. Init => TimerArmed
  BY DEF Init, NewReplica, TimerArmed
<1>2. ASSUME TypeOK, TimerArmed, NEW i \in Replicas, NEW r, Keeps(rs[i], r), Waits(r),
             NEW received, Turn(i, r, received)
      PROVE  TimerArmed'
  <2>1. rs' = [rs EXCEPT ![i] = Flush(try_advance(r))] /\ DOMAIN rs = Replicas
    BY <1>2 DEF Turn, TypeOK
  <2>2. ReplicaOK(try_advance(r)) /\ try_advance(r).view \in try_advance(r).timers
    BY <1>2, TryAdvanceOK, TryAdvanceArms DEF Keeps
  <2>3. Flush(try_advance(r)).view \in Flush(try_advance(r)).timers
    BY <2>2 DEF Flush, ReplicaOK, ReplicaFields
  <2>. QED  BY <1>2, <2>1, <2>3 DEF TimerArmed
<1>3. ASSUME TypeOK, TimerArmed, Next
      PROVE  TimerArmed'
  <2>1. PICK i \in Replicas : Start(i) \/ Receive(i) \/ ValidationDone(i)
                              \/ NextViewTimer(i) \/ StaleTimer(i)
    BY <1>3 DEF Next
  <2>2. ReplicaOK(rs[i]) /\ net \subseteq Packets
    BY <1>3 DEF TypeOK
  <2>3. CASE Start(i)
    <3>1. Keeps(rs[i], enter_new_view(rs[i], 1)) /\ Waits(enter_new_view(rs[i], 1))
      BY <2>2, <2>3, EnterNewViewOK, EnterArms DEF Start, Waits
    <3>. QED  BY <1>2, <1>3, <2>3, <3>1 DEF Start
  <2>4. CASE ~Start(i)
    <3>1. rs[i].view \in rs[i].timers
      BY <1>3, <2>1, <2>2, <2>4 DEF TimerArmed, Receive, ReceiveProposal, ReceivePhaseQc,
            ReceiveVote, ReceiveNewView, ValidationDone, NextViewTimer, StaleTimer, Running,
            ReplicaOK
    <3>2. \E r, received : Keeps(rs[i], r) /\ Waits(r) /\ Turn(i, r, received)
      <4>1. CASE ReceiveProposal(i)
        <5>1. PICK p \in net : p.msg.kind = "Proposal"
                               /\ Turn(i, handle_proposal(rs[i], p.msg), {p})
          BY <4>1 DEF ReceiveProposal
        <5>. QED  BY <2>2, <3>1, <5>1, PacketKinds, HandleProposalOK, HandlersWait
      <4>2. CASE ReceivePhaseQc(i)
        <5>1. PICK p \in net : p.msg.kind = "PhaseQc"
                               /\ Turn(i, handle_phase_qc(rs[i], p.msg), {p})
          BY <4>2 DEF ReceivePhaseQc
        <5>. QED  BY <2>2, <3>1, <5>1, PacketKinds, HandlePhaseQcOK, HandlersWait
      <4>3. CASE ReceiveVote(i)
        <5>1. PICK p \in net : p.msg.kind = "Vote"
                               /\ Turn(i, handle_vote(rs[i], p.msg), {p})
          BY <4>3 DEF ReceiveVote
        <5>. QED  BY <2>2, <3>1, <5>1, PacketKinds, HandleVoteOK, HandlersWait
      <4>4. CASE ReceiveNewView(i)
        <5>1. PICK p \in net : p.msg.kind = "NewView"
                               /\ Turn(i, handle_new_view(rs[i], p.msg), {p})
          BY <4>4 DEF ReceiveNewView
        <5>. QED  BY <2>2, <3>1, <5>1, PacketKinds, HandleNewViewOK, HandlersWait
      <4>5. CASE ValidationDone(i)
        BY <2>2, <3>1, <4>5, HandleValidationOK, HandlersWait DEF ValidationDone
      <4>6. CASE NextViewTimer(i)
        BY <2>2, <3>1, <4>6, HandleTimerOK, HandlersWait DEF NextViewTimer
      <4>7. CASE StaleTimer(i)
        <5>1. PICK v \in rs[i].timers : Turn(i, handle_timer(rs[i], v), {})
          BY <4>7 DEF StaleTimer
        <5>. QED  BY <2>2, <3>1, <5>1, HandleTimerOK, HandlersWait
      <4>. QED  BY <2>1, <2>4, <4>1, <4>2, <4>3, <4>4, <4>5, <4>6, <4>7 DEF Receive
    <3>. QED  BY <1>2, <1>3, <3>2
  <2>. QED  BY <2>3, <2>4
<1>4. TypeOK /\ TimerArmed /\ [Next]_vars => TimerArmed'
  <2>1. CASE UNCHANGED vars
    BY <2>1 DEF vars, TimerArmed
  <2>. QED  BY <1>3, <2>1
<1>. QED  BY <1>1, <1>4, TypeCorrectness, PTL DEF Spec

-----------------------------------------------------------------------------
\* What a rule of execute.rs leaves alone.
SameNodes(ex, new) ==
    new.tree = ex.tree /\ new.decided_nodes = ex.decided_nodes /\ new.valid = ex.valid

\* maybe_kick_validation only submits.
LEMMA KickSameNodes ==
    ASSUME NEW id, NEW ex, ExecutionOK(ex), NEW leaf
    PROVE  SameNodes(ex, MaybeKickValidation(id, ex, leaf))
  BY DEF SameNodes, MaybeKickValidation, ExecutionOK, ExecutionFields

\* try_execute_chain, retry_pending_execute and try_kick_pending_validations
\* learn, decide and validate nothing.
LEMMA ExecuteSameNodes ==
    ASSUME NEW id \in Replicas, NEW ex, ExecutionOK(ex)
    PROVE  /\ \A d \in Nodes : SameNodes(ex, TryExecuteChain(id, ex, d))
           /\ SameNodes(ex, RetryPendingExecute(id, ex))
           /\ SameNodes(ex, TryKickPendingValidations(id, ex))
<1>1. ASSUME NEW d \in Nodes
      PROVE  SameNodes(ex, TryExecuteChain(id, ex, d))
  <2>. DEFINE top == AppliedTo(ex, d)
              done == ApplyChain(ex, d, top)
              next == Ancestor(d, top + 1)
  <2>1. CASE ~ChainKnown(ex, d) \/ Height(d) <= ex.last_executed_height
    BY <2>1 DEF TryExecuteChain, SameNodes
  <2>2. CASE ChainKnown(ex, d) /\ ~(Height(d) <= ex.last_executed_height)
    <3>1. SameNodes(ex, done)
      BY DEF SameNodes, ApplyChain, ExecutionOK, ExecutionFields
    <3>2. DOMAIN done = ExecutionFields
      BY DEF ApplyChain, ExecutionOK
    <3>3. TryExecuteChain(id, ex, d) = IF top < Height(d) /\ next \notin ex.invalid
                                       THEN MaybeKickValidation(id, done, next) ELSE done
      BY <2>2 DEF TryExecuteChain
    <3>. HIDE DEF done, next, top
    <3>4. SameNodes(done, MaybeKickValidation(id, done, next))
      BY <3>2 DEF SameNodes, MaybeKickValidation, ExecutionFields
    <3>. QED  BY <3>1, <3>3, <3>4 DEF SameNodes
  <2>. QED  BY <2>1, <2>2
<1>2. SameNodes(ex, RetryPendingExecute(id, ex))
  <2>. DEFINE known == {d \in ex.decided_nodes : ChainKnown(ex, d)}
              d0 == CHOOSE d \in known : \A e \in known : Len(e) <= Len(d)
  <2>1. CASE RetryPendingExecute(id, ex) = ex
    BY <2>1 DEF SameNodes
  <2>2. CASE known # {}
    <3>0. known \subseteq Nodes
      BY DEF ExecutionOK
    <3>1. d0 \in Nodes
      BY <2>2, <3>0, LongestNode
    <3>2. RetryPendingExecute(id, ex) = TryExecuteChain(id, ex, d0)
      BY <2>2 DEF RetryPendingExecute
    <3>. HIDE DEF d0
    <3>. QED  BY <1>1, <3>1, <3>2
  <2>. QED  BY <2>1, <2>2 DEF RetryPendingExecute
<1>3. SameNodes(ex, TryKickPendingValidations(id, ex))
  BY KickSameNodes DEF TryKickPendingValidations, SameNodes
<1>. QED  BY <1>1, <1>2, <1>3

\* What the validator was given, and what it accepted, is in the tree.
Rooted(ex) ==
    /\ ex.valid \subseteq ex.tree
    /\ \A k \in 1 .. Len(ex.queue) : ex.queue[k].node \in ex.tree

\* maybe_kick_validation submits nodes of the tree only.
LEMMA KickRooted ==
    ASSUME NEW id, NEW ex, DOMAIN ex = ExecutionFields, ex.queue \in Seq(Requests),
           Rooted(ex), NEW leaf
    PROVE  Rooted(MaybeKickValidation(id, ex, leaf))
<1>. DEFINE req == [node |-> leaf, input |-> InputState(ex, leaf)]
            new == [ex EXCEPT !.pending_validation = leaf, !.queue = Append(@, req)]
<1>1. CASE CanKick(id, ex, leaf)
  <2>1. MaybeKickValidation(id, ex, leaf) = new
    BY <1>1 DEF MaybeKickValidation
  <2>2. req.node = leaf /\ leaf \in ex.tree
    BY <1>1 DEF CanKick
  <2>. HIDE DEF req
  <2>3. new.valid = ex.valid /\ new.tree = ex.tree /\ new.queue = Append(ex.queue, req)
    BY DEF ExecutionFields
  <2>4. ex.queue \in Seq(Requests) /\ Len(ex.queue) \in Nat
    OBVIOUS
  <2>5. /\ Len(Append(ex.queue, req)) = Len(ex.queue) + 1
        /\ \A k \in 1 .. Len(ex.queue) : Append(ex.queue, req)[k] = ex.queue[k]
        /\ Append(ex.queue, req)[Len(ex.queue) + 1] = req
    BY <2>4
  <2>. HIDE DEF new
  <2>6. \A k \in 1 .. Len(new.queue) : new.queue[k].node \in ex.tree
    BY <2>2, <2>3, <2>4, <2>5 DEF Rooted
  <2>. QED  BY <2>1, <2>3, <2>6 DEF Rooted
<1>. QED  BY <1>1 DEF MaybeKickValidation

\* try_execute_chain, retry_pending_execute and try_kick_pending_validations
\* submit through it and otherwise leave the tree, the validations and the queue
\* alone.
LEMMA ExecuteRooted ==
    ASSUME NEW id \in Replicas, NEW ex, ExecutionOK(ex), Rooted(ex)
    PROVE  /\ \A d \in Nodes : Rooted(TryExecuteChain(id, ex, d))
           /\ Rooted(RetryPendingExecute(id, ex))
           /\ Rooted(TryKickPendingValidations(id, ex))
<1>1. ASSUME NEW d \in Nodes
      PROVE  Rooted(TryExecuteChain(id, ex, d))
  <2>. DEFINE top == AppliedTo(ex, d)
              done == ApplyChain(ex, d, top)
              next == Ancestor(d, top + 1)
  <2>1. CASE ~ChainKnown(ex, d) \/ Height(d) <= ex.last_executed_height
    BY <2>1 DEF TryExecuteChain
  <2>2. CASE ~(~ChainKnown(ex, d) \/ Height(d) <= ex.last_executed_height)
    <3>1. TryExecuteChain(id, ex, d) \in {done, MaybeKickValidation(id, done, next)}
      BY <2>2 DEF TryExecuteChain
    <3>0. Height(d) > ex.last_executed_height
      BY <2>2, SizeAssumption DEF ExecutionOK, Nodes, Height
    <3>2. top \in ex.last_executed_height .. Height(d)
      BY <3>0, AppliedToRange
    <3>3. ExecutionOK(done)
      BY <2>2, <3>2, ApplyChainOK
    <3>4. done.valid = ex.valid /\ done.tree = ex.tree /\ done.queue = ex.queue
      BY DEF ApplyChain, ExecutionOK, ExecutionFields
    <3>. HIDE DEF done, next, top
    <3>5. Rooted(done)
      BY <3>4 DEF Rooted
    <3>. QED  BY <3>1, <3>3, <3>5, KickRooted DEF ExecutionOK
  <2>. QED  BY <2>1, <2>2
<1>2. Rooted(RetryPendingExecute(id, ex))
  <2>. DEFINE known == {d \in ex.decided_nodes : ChainKnown(ex, d)}
              d0 == CHOOSE d \in known : \A e \in known : Len(e) <= Len(d)
  <2>1. CASE known = {}
    BY <2>1 DEF RetryPendingExecute
  <2>2. CASE known # {}
    <3>1. known \subseteq Nodes
      BY DEF ExecutionOK
    <3>2. d0 \in Nodes
      BY <2>2, <3>1, LongestNode
    <3>3. RetryPendingExecute(id, ex) = TryExecuteChain(id, ex, d0)
      BY <2>2 DEF RetryPendingExecute
    <3>. HIDE DEF d0
    <3>. QED  BY <1>1, <3>2, <3>3
  <2>. QED  BY <2>1, <2>2
<1>3. Rooted(TryKickPendingValidations(id, ex))
  BY KickRooted DEF TryKickPendingValidations, ExecutionOK
<1>. QED  BY <1>1, <1>2, <1>3

\* ingest_validation records the outcome of a request.
LEMMA IngestRooted ==
    ASSUME NEW id, NEW ex, ExecutionOK(ex), Rooted(ex), ex.queue # << >>
    PROVE  Rooted(IngestValidation(id, ex))
<1>. DEFINE new == IngestValidation(id, ex)
            n == Head(ex.queue).node
<1>1. ex.queue \in Seq(Requests) /\ Len(ex.queue) \in Nat \ {0}
  BY SeqEmpty DEF ExecutionOK
<1>2. n \in ex.tree
  BY <1>1, SeqHeadTail DEF Rooted
<1>3. new.valid \subseteq ex.valid \cup {n} /\ new.tree = ex.tree /\ new.queue = Tail(ex.queue)
  BY DEF IngestValidation, ExecutionOK, ExecutionFields
<1>4. /\ Len(Tail(ex.queue)) = Len(ex.queue) - 1
      /\ \A k \in 1 .. Len(ex.queue) - 1 : Tail(ex.queue)[k] = ex.queue[k + 1]
  BY <1>1
<1>. HIDE DEF new, n
<1>5. \A k \in 1 .. Len(new.queue) : new.queue[k].node \in ex.tree
  BY <1>1, <1>3, <1>4 DEF Rooted
<1>6. Rooted(new)
  BY <1>2, <1>3, <1>5 DEF Rooted
<1>. QED  BY <1>6 DEF new

\* The rules that vote, form a QC or change the view leave execute.rs alone.
LEMMA RulesSameEx ==
    ASSUME NEW r, ReplicaOK(r)
    PROVE  /\ \A v : enter_new_view(r, v).ex = r.ex
           /\ replica_prepare(r).ex = r.ex
           /\ replica_pre_commit(r).ex = r.ex
           /\ replica_commit(r).ex = r.ex
           /\ leader_pre_commit(r).ex = r.ex
           /\ leader_commit(r).ex = r.ex
           /\ leader_decide(r).ex = r.ex
<1>1. \A v : enter_new_view(r, v).ex = r.ex
  BY DEF enter_new_view, SendTo, ReplicaOK, ReplicaFields
<1>2. replica_prepare(r).ex = r.ex
  BY DEF replica_prepare, CastVote, SendTo, ReplicaOK, ReplicaFields
<1>3. replica_pre_commit(r).ex = r.ex
  BY DEF replica_pre_commit, CastVote, SendTo, ReplicaOK, ReplicaFields
<1>4. replica_commit(r).ex = r.ex
  BY DEF replica_commit, CastVote, SendTo, ReplicaOK, ReplicaFields
<1>5. ASSUME NEW vote, NEW phase PROVE LeaderAggregate(r, vote, phase).ex = r.ex
  BY DEF LeaderAggregate, Stage, Broadcast, ReplicaOK, ReplicaFields
<1>. QED  BY <1>1, <1>2, <1>3, <1>4, <1>5 DEF leader_pre_commit, leader_commit, leader_decide

\* A node that leader_prepare or handle_proposal learns may be submitted at once.
LEMMA LearnRooted ==
    ASSUME NEW r, ReplicaOK(r), Rooted(r.ex), NEW node
    PROVE  Rooted(MaybeKickValidation(r.id, Learn(r, node).ex, node))
<1>. DEFINE ex == Learn(r, node).ex
<1>1. DOMAIN ex = ExecutionFields /\ ex.queue \in Seq(Requests)
  BY DEF Learn, ReplicaOK, ReplicaFields, ExecutionOK, ExecutionFields
<1>2. ex.tree = r.ex.tree \cup {node} /\ ex.valid = r.ex.valid /\ ex.queue = r.ex.queue
  BY DEF Learn, ReplicaOK, ReplicaFields, ExecutionOK, ExecutionFields
<1>. HIDE DEF ex
<1>3. Rooted(ex)
  BY <1>2 DEF Rooted
<1>4. Rooted(MaybeKickValidation(r.id, ex, node))
  BY <1>1, <1>3, KickRooted
<1>. QED  BY <1>4 DEF ex

\* leader_prepare learns its leaf above the certified node: the tree keeps its ancestors.
LEMMA LeaderPrepareRooted ==
    ASSUME NEW r, ReplicaOK(r), Rooted(r.ex)
    PROVE  Rooted(leader_prepare(r).ex)
<1>. DEFINE ms == NewViews(r)
            high == HighQc(ms)
            leaf == Append(high.node, Block(r.id, Len(high.node)))
            p == Proposal(r.view, leaf, high, r.id)
            r1 == Learn(r, leaf)
            r2 == Broadcast(r1, p)
            r3 == StoreProposal(r2, p)
            r4 == [r3 EXCEPT !.broadcast = @ \cup {<< "proposal", r.view >>}]
<1>1. CASE leader_prepare(r) = r
  BY <1>1
<1>2. CASE leader_prepare(r) # r
  <2>1. leader_prepare(r) = Kick(r4, leaf)
    BY <1>2 DEF leader_prepare
  <2>. HIDE DEF ms, high, leaf, p
  <2>2. Rooted(MaybeKickValidation(r.id, r1.ex, leaf))
    BY LearnRooted
  <2>3. r1.id = r.id /\ DOMAIN r1 = ReplicaFields
    BY DEF Learn, ReplicaOK, ReplicaFields
  <2>. HIDE DEF r1
  <2>4. r2.id = r.id /\ r2.ex = r1.ex /\ DOMAIN r2 = ReplicaFields
    BY <2>3 DEF Broadcast, ReplicaFields
  <2>. HIDE DEF r2
  <2>5. r3.id = r.id /\ r3.ex = r1.ex /\ DOMAIN r3 = ReplicaFields
    BY <2>4 DEF StoreProposal, ReplicaFields
  <2>. HIDE DEF r3
  <2>6. r4.id = r.id /\ r4.ex = r1.ex /\ DOMAIN r4 = ReplicaFields
    BY <2>5 DEF ReplicaFields
  <2>. HIDE DEF r4
  <2>. QED  BY <2>1, <2>2, <2>6 DEF Kick, ReplicaFields
<1>. QED  BY <1>1, <1>2

\* replica_decide adds no node without its ancestors.
LEMMA DecideRooted ==
    ASSUME NEW r, ReplicaOK(r), Rooted(r.ex)
    PROVE  Rooted(replica_decide(r).ex)
<1>. DEFINE qc == CHOOSE q \in Staged(r, "commit") : TRUE
            decided == Decided(r.ex, qc.node)
            ex == TryExecuteChain(r.id, decided, qc.node)
            executed == [r EXCEPT !.ex = ex, !.timeout = 1]
<1>1. CASE Staged(r, "commit") = {}
  BY <1>1 DEF replica_decide
<1>2. CASE Staged(r, "commit") # {}
  <2>1. qc.node \in Nodes
    BY <1>2, StagedQc
  <2>2. replica_decide(r) = enter_new_view(executed, r.view + 1)
    BY <1>2 DEF replica_decide
  <2>. HIDE DEF qc
  <2>3. ExecutionOK(decided)
    BY <2>1, DecidedOK DEF ReplicaOK
  <2>4. Rooted(decided)
    BY DEF Decided, Rooted, ReplicaOK, ExecutionOK, ExecutionFields
  <2>. HIDE DEF decided
  <2>5. ExecutionOK(ex) /\ Rooted(ex)
    BY <2>1, <2>3, <2>4, TryExecuteChainOK, ExecuteRooted DEF ReplicaOK
  <2>. HIDE DEF ex
  <2>6. ReplicaOK(executed) /\ executed.ex = ex
    BY <2>5 DEF ReplicaOK, ReplicaFields
  <2>. HIDE DEF executed
  <2>. QED  BY <2>2, <2>5, <2>6, RulesSameEx
<1>. QED  BY <1>1, <1>2

\* A pass over the rules keeps the work known.
LEMMA TryAdvanceRooted ==
    ASSUME NEW r, ReplicaOK(r), Rooted(r.ex)
    PROVE  Rooted(try_advance(r).ex)
<1>. DEFINE r1 == leader_prepare(r)
            r2 == replica_prepare(r1)
            r3 == leader_pre_commit(r2)
            r4 == replica_pre_commit(r3)
            r5 == leader_commit(r4)
            r6 == replica_commit(r5)
            r7 == leader_decide(r6)
            r8 == replica_decide(r7)
<1>0. try_advance(r) = ExecutePass(r8)
  BY DEF try_advance
<1>1. ReplicaOK(r1) /\ Rooted(r1.ex)
  BY LeaderPrepareOK, LeaderPrepareRooted DEF Keeps
<1>. HIDE DEF r1
<1>2. ReplicaOK(r2) /\ Rooted(r2.ex)
  BY <1>1, ReplicaPrepareOK, RulesSameEx DEF Keeps
<1>. HIDE DEF r2
<1>3. ReplicaOK(r3) /\ Rooted(r3.ex)
  BY <1>2, LeaderRulesOK, RulesSameEx DEF Keeps
<1>. HIDE DEF r3
<1>4. ReplicaOK(r4) /\ Rooted(r4.ex)
  BY <1>3, ReplicaPreCommitOK, RulesSameEx DEF Keeps
<1>. HIDE DEF r4
<1>5. ReplicaOK(r5) /\ Rooted(r5.ex)
  BY <1>4, LeaderRulesOK, RulesSameEx DEF Keeps
<1>. HIDE DEF r5
<1>6. ReplicaOK(r6) /\ Rooted(r6.ex)
  BY <1>5, ReplicaCommitOK, RulesSameEx DEF Keeps
<1>. HIDE DEF r6
<1>7. ReplicaOK(r7) /\ Rooted(r7.ex)
  BY <1>6, LeaderRulesOK, RulesSameEx DEF Keeps
<1>. HIDE DEF r7
<1>8. ReplicaOK(r8) /\ Rooted(r8.ex)
  BY <1>7, ReplicaDecideOK, DecideRooted DEF Keeps
<1>. HIDE DEF r8
<1>9. r8.id \in Replicas /\ ExecutionOK(r8.ex)
  BY <1>8 DEF ReplicaOK
<1>10. Rooted(TryKickPendingValidations(r8.id, RetryPendingExecute(r8.id, r8.ex)))
  BY <1>8, <1>9, RetryPendingExecuteOK, ExecuteRooted
<1>. QED  BY <1>0, <1>8, <1>10 DEF ExecutePass, ReplicaOK, ReplicaFields

\* So does every handler.
LEMMA HandlersRooted ==
    ASSUME NEW r, ReplicaOK(r), Rooted(r.ex)
    PROVE  /\ \A v : Rooted(enter_new_view(r, v).ex) /\ Rooted(handle_timer(r, v).ex)
           /\ \A m : /\ Rooted(handle_proposal(r, m).ex) /\ Rooted(handle_phase_qc(r, m).ex)
                     /\ Rooted(handle_vote(r, m).ex) /\ Rooted(handle_new_view(r, m).ex)
           /\ r.ex.queue # << >> => Rooted(handle_validation(r).ex)
<1>1. ASSUME NEW v PROVE Rooted(enter_new_view(r, v).ex)
  BY RulesSameEx
<1>2. ASSUME NEW v PROVE Rooted(handle_timer(r, v).ex)
  <2>. DEFINE fired == [r EXCEPT !.timers = @ \ {v}]
              doubled == [fired EXCEPT !.timeout = 2 * @]
  <2>1. handle_timer(r, v) \in {fired, enter_new_view(doubled, r.view + 1)}
    BY DEF handle_timer
  <2>2. fired.ex = r.ex /\ doubled.ex = r.ex /\ ReplicaOK(doubled)
    BY DEF ReplicaOK, ReplicaFields
  <2>. HIDE DEF fired, doubled
  <2>. QED  BY <2>1, <2>2, RulesSameEx
<1>3. ASSUME NEW m PROVE Rooted(handle_proposal(r, m).ex)
  <2>. DEFINE r1 == Learn(r, m.node)
              r2 == StoreProposal(r1, m)
  <2>1. handle_proposal(r, m) \in {r, Kick(r2, m.node)}
    BY DEF handle_proposal
  <2>2. Rooted(MaybeKickValidation(r.id, r1.ex, m.node))
    BY LearnRooted
  <2>3. r1.id = r.id /\ DOMAIN r1 = ReplicaFields
    BY DEF Learn, ReplicaOK, ReplicaFields
  <2>. HIDE DEF r1
  <2>4. r2.id = r.id /\ r2.ex = r1.ex /\ DOMAIN r2 = ReplicaFields
    BY <2>3 DEF StoreProposal, ReplicaFields
  <2>. HIDE DEF r2
  <2>5. Rooted(Kick(r2, m.node).ex)
    BY <2>2, <2>4 DEF Kick, ReplicaFields
  <2>. QED  BY <2>1, <2>5
<1>4. ASSUME NEW m PROVE Rooted(handle_phase_qc(r, m).ex)
  <2>. DEFINE staged == Stage(r, m.justify)
              decided == [staged EXCEPT !.ex = Decided(@, m.justify.node)]
  <2>1. handle_phase_qc(r, m) \in {r, staged, decided}
    BY DEF handle_phase_qc
  <2>2. staged.ex = r.ex /\ DOMAIN staged = ReplicaFields
    BY DEF Stage, ReplicaOK, ReplicaFields
  <2>. HIDE DEF staged
  <2>3. decided.ex = Decided(r.ex, m.justify.node)
    BY <2>2 DEF ReplicaFields
  <2>. HIDE DEF decided
  <2>4. Rooted(Decided(r.ex, m.justify.node))
    BY DEF Decided, Rooted, ReplicaOK, ExecutionOK, ExecutionFields
  <2>. QED  BY <2>1, <2>2, <2>3, <2>4
<1>5. ASSUME NEW m PROVE Rooted(handle_vote(r, m).ex) /\ Rooted(handle_new_view(r, m).ex)
  BY DEF handle_vote, handle_new_view, ReplicaOK, ReplicaFields
<1>6. ASSUME r.ex.queue # << >> PROVE Rooted(handle_validation(r).ex)
  <2>1. handle_validation(r).ex = IngestValidation(r.id, r.ex)
    BY DEF handle_validation, ReplicaOK, ReplicaFields
  <2>. QED  BY <1>6, <2>1, IngestRooted DEF ReplicaOK
<1>. QED  BY <1>1, <1>2, <1>3, <1>4, <1>5, <1>6
=============================================================================
