----------------------------- MODULE Transport -----------------------------
(***************************************************************************)
(* How the nodes come to be connected: network.rs and the start of main.   *)
(*                                                                         *)
(* Every node listens and dials every peer, so two nodes open up to two    *)
(* TCP connections, one dialled by each.  Both ends of a connection run    *)
(* install_connection: send Hello, receive the peer's, insert its key,     *)
(* then either insert a writer for the peer or, if there is one, drop the  *)
(* connection.  peer_keys and peer_writers are two mutexes, taken one      *)
(* after the other by tasks that run concurrently.                         *)
(*                                                                         *)
(* An end << x, y, role >> is node x's end of the connection to y that x   *)
(* dialled or accepted.  Frames, back-off and key bytes are left out.      *)
(***************************************************************************)
EXTENDS Integers, FiniteSets

CONSTANTS
    N,            \* number of nodes
    MayExit,      \* nodes whose process may end (crash, or the end of main)
    MaxCuts       \* bound on connections the network breaks

ASSUME TransportAssumption ==
    N \in Nat \ {0} /\ MayExit \subseteq 0 .. N - 1 /\ MaxCuts \in Nat

Replicas == 0 .. N - 1
Roles == {"dial", "accept"}
Ends == {e \in Replicas \X Replicas \X Roles : e[1] # e[2]}

OtherRole(role) == IF role = "dial" THEN "accept" ELSE "dial"
Other(e) == << e[2], e[1], OtherRole(e[3]) >>       \* the peer's end of e
Conn(e) == IF e[3] = "dial" THEN e ELSE Other(e)    \* one name for both ends

VARIABLES
    proc,         \* proc[x]: "off", "waiting" in wait_for_peers, "started", "exited"
    end,          \* end[e]: how far install_connection and its reader task are
    writers,      \* writers[x][y]: the end whose writer peer_writers holds, by role
    keys,         \* keys[x]: the ids in peer_keys
    cut           \* connections the network has broken

transportVars == << proc, end, writers, keys, cut >>

NoWriter == "none"
Runs(x) == proc[x] \in {"waiting", "started"}
Opened == {"hello", "keyed", "live"}                \* the stream is not dropped

TransportInit ==
    /\ proc = [x \in Replicas |-> "off"]
    /\ end = [e \in Ends |-> "none"]
    /\ writers = [x \in Replicas |-> [y \in Replicas |-> NoWriter]]
    /\ keys = [x \in Replicas |-> {}]
    /\ cut = {}

-----------------------------------------------------------------------------
\* main: the own key is inserted, the listener and the dial tasks are spawned
Boot(x) ==
    /\ proc[x] = "off"
    /\ proc' = [proc EXCEPT ![x] = "waiting"]
    /\ keys' = [keys EXCEPT ![x] = @ \cup {x}]
    /\ UNCHANGED << end, writers, cut >>

\* dial_task: connects once the peer listens (until then it retries), and sends
\* the first half of the handshake; listen_task likewise for a connection dialled
Connect(e) ==
    /\ e[3] = "dial" /\ end[e] = "none"
    /\ Runs(e[1]) /\ Runs(e[2])
    /\ end' = [end EXCEPT ![e] = "hello"]
    /\ UNCHANGED << proc, writers, keys, cut >>

Accept(e) ==
    /\ e[3] = "accept" /\ end[e] = "none"
    /\ Runs(e[1]) /\ end[Other(e)] # "none"
    /\ end' = [end EXCEPT ![e] = "hello"]
    /\ UNCHANGED << proc, writers, keys, cut >>

\* install_connection up to the key: the peer's Hello has arrived
InsertKey(e) ==
    /\ Runs(e[1]) /\ end[e] = "hello" /\ end[Other(e)] # "none"
    /\ end' = [end EXCEPT ![e] = "keyed"]
    /\ keys' = [keys EXCEPT ![e[1]] = @ \cup {e[2]}]
    /\ UNCHANGED << proc, writers, cut >>

\* the handshake fails because the connection broke or the peer is gone;
\* dial_task returns, it does not dial again
HandshakeFails(e) ==
    /\ Runs(e[1]) /\ end[e] = "hello"
    /\ Conn(e) \in cut \/ proc[e[2]] = "exited"
    /\ end' = [end EXCEPT ![e] = "dropped"]
    /\ UNCHANGED << proc, writers, keys, cut >>

\* mutant: a duplicate replaces the writer that is there
InsertWriter_Replaces(e) ==
    /\ Runs(e[1]) /\ end[e] = "keyed"
    /\ end' = [end EXCEPT ![e] = "live"]
    /\ writers' = [writers EXCEPT ![e[1]][e[2]] = e[3]]
    /\ UNCHANGED << proc, keys, cut >>

\* mutant: the writer does not wait for the key
InsertWriter_First(e) ==
    /\ Runs(e[1]) /\ end[e] \in {"hello", "keyed"} /\ end[Other(e)] # "none"
    /\ writers[e[1]][e[2]] = NoWriter
    /\ end' = [end EXCEPT ![e] = "live"]
    /\ writers' = [writers EXCEPT ![e[1]][e[2]] = e[3]]
    /\ UNCHANGED << proc, keys, cut >>

\* the rest of install_connection: "dup; drop this conn", or publish the writer
\* and spawn the reader and writer tasks
InsertWriter(e) ==
    LET taken == writers[e[1]][e[2]] # NoWriter
    IN  /\ Runs(e[1]) /\ end[e] = "keyed"
        /\ end' = [end EXCEPT ![e] = IF taken THEN "dropped" ELSE "live"]
        /\ writers' = IF taken THEN writers ELSE [writers EXCEPT ![e[1]][e[2]] = e[3]]
        /\ UNCHANGED << proc, keys, cut >>

\* mutant: the entry stays
ReaderEnds_Keeps(e) ==
    /\ Runs(e[1]) /\ end[e] = "live"
    /\ Conn(e) \in cut \/ end[Other(e)] \in {"dropped", "closed"}
    /\ end' = [end EXCEPT ![e] = "closed"]
    /\ UNCHANGED << proc, writers, keys, cut >>

\* the reader task: an error or the end of the stream, then remove(&peer_id)
ReaderEnds(e) ==
    /\ Runs(e[1]) /\ end[e] = "live"
    /\ Conn(e) \in cut \/ end[Other(e)] \in {"dropped", "closed"}
    /\ end' = [end EXCEPT ![e] = "closed"]
    /\ writers' = [writers EXCEPT ![e[1]][e[2]] = NoWriter]
    /\ UNCHANGED << proc, keys, cut >>

\* wait_for_peers counts the writers, whichever they are
Ready(x) ==
    /\ proc[x] = "waiting"
    /\ Cardinality({y \in Replicas : writers[x][y] # NoWriter}) >= N - 1
    /\ proc' = [proc EXCEPT ![x] = "started"]
    /\ UNCHANGED << end, writers, keys, cut >>

-----------------------------------------------------------------------------
\* faults: the process ends and the kernel closes its sockets; a connection breaks
Exit(x) ==
    /\ x \in MayExit /\ Runs(x)
    /\ proc' = [proc EXCEPT ![x] = "exited"]
    /\ end' = [e \in Ends |-> IF e[1] = x /\ end[e] # "none" THEN "closed" ELSE end[e]]
    /\ writers' = [writers EXCEPT ![x] = [y \in Replicas |-> NoWriter]]
    /\ UNCHANGED << keys, cut >>

Cut(e) ==
    /\ Cardinality(cut) < MaxCuts
    /\ e[3] = "dial" /\ e \notin cut /\ end[e] \in Opened
    /\ cut' = cut \cup {e}
    /\ UNCHANGED << proc, end, writers, keys >>

Task(e) ==
    \/ Connect(e) \/ Accept(e) \/ InsertKey(e) \/ HandshakeFails(e)
    \/ InsertWriter(e) \/ ReaderEnds(e)

TransportNext ==
    \/ \E x \in Replicas : Boot(x) \/ Ready(x) \/ Exit(x)
    \/ \E e \in Ends : Task(e) \/ Cut(e)

\* every task runs until it ends; whether there are faults is left open
TransportFairness ==
    /\ \A x \in Replicas : WF_transportVars(Boot(x)) /\ WF_transportVars(Ready(x))
    /\ \A e \in Ends : WF_transportVars(Task(e))

TransportSpec == TransportInit /\ [][TransportNext]_transportVars /\ TransportFairness

-----------------------------------------------------------------------------
TransportTypeOK ==
    /\ proc \in [Replicas -> {"off", "waiting", "started", "exited"}]
    /\ end \in [Ends -> {"none", "hello", "keyed", "live", "dropped", "closed"}]
    /\ writers \in [Replicas -> [Replicas -> Roles \cup {NoWriter}]]
    /\ keys \in [Replicas -> SUBSET Replicas]
    /\ cut \subseteq Ends

\* "if the writer is published before the key, the consensus loop can start and
\* reject this peer's first message": a node that has started knows every key,
\* whatever became of its connections meanwhile.
KeysBeforeStart ==
    \A x \in Replicas : proc[x] = "started" => keys[x] = Replicas

\* peer_writers holds a peer's writer exactly while the connection it belongs to
\* is installed: two tasks never install two connections to one peer, and the
\* reader that removes an entry removes its own.
WriterIsLive ==
    \A e \in Ends :
        Runs(e[1]) => (writers[e[1]][e[2]] = e[3] <=> end[e] = "live")

Twin(e) == << e[1], e[2], OtherRole(e[3]) >>        \* the same node's other end

\* every task has come to rest and nothing has failed
Settled ==
    /\ \A e \in Ends : end[e] \in {"live", "dropped", "closed"}
    /\ \A e \in Ends : end[e] = "live" => end[Other(e)] = "live"
    /\ cut = {} /\ \A x \in Replicas : Runs(x)

\* "dup; drop this conn" leaves two nodes with exactly one connection, unless each
\* drops the one the other installed: there is no other way to lose a peer.
LinkOrCrossed ==
    Settled =>
        \A e \in Ends :
            LET d == Twin(Other(e))                  \* the connection the peer dialled
            IN  \/ (end[e] = "live") # (end[d] = "live")
                \/ /\ {end[e], end[Other(e)]} = {"dropped", "closed"}
                   /\ end[d] = end[e] /\ end[Other(d)] = end[Other(e)]

\* no task of a connection has a step to take, faults or not
Quiet ==
    \A e \in Ends : Runs(e[1]) =>
        /\ end[e] # "keyed"
        /\ end[e] = "hello" =>
              end[Other(e)] = "none" /\ Conn(e) \notin cut /\ proc[e[2]] # "exited"
        /\ end[e] = "live" => Conn(e) \notin cut /\ end[Other(e)] \notin {"dropped", "closed"}

\* However connections break, nodes exit and duplicates are dropped: when the tasks
\* of install_connection and its readers have nothing left to do, no node holds a
\* writer whose other end is not the peer's writer for it.
QuietLinksAgree ==
    Quiet => \A e \in Ends : writers[e[1]][e[2]] = e[3] =>
                writers[e[2]][e[1]] = OtherRole(e[3])

\* After the last fault the two ends agree: a node ends up with a writer for a peer
\* only on a connection whose other end is the peer's writer for it, so nothing is
\* sent for ever into a connection the peer has dropped or left.
LinksAgree ==
    <>[](\A e \in Ends : writers[e[1]][e[2]] = e[3] =>
            writers[e[2]][e[1]] = OtherRole(e[3]))

\* "Each consensus node maintains a writer task per peer": once every task has come
\* to rest, and nothing has failed, each node has a writer for each peer.
WriterPerPeer ==
    Settled => \A e \in Ends : writers[e[1]][e[2]] # NoWriter
=============================================================================
