--------------------------- MODULE TransportProofs ---------------------------
(***************************************************************************)
(* The connection phase for every number of nodes and any number of faults *)
(* (Transport.tla): keys before start, one installed connection per peer,  *)
(* and a peer is only ever lost by two crossed drops.                      *)
(***************************************************************************)
EXTENDS Transport, FiniteSetTheorems, TLAPS

\* The key of a peer is there before its writer is, and the own key before both.
KeyFirst ==
    /\ \A x \in Replicas : proc[x] # "off" => x \in keys[x]
    /\ \A e \in Ends : Runs(e[1]) /\ end[e] \in {"keyed", "live"} => e[2] \in keys[e[1]]
    /\ \A x \in Replicas : writers[x][x] = NoWriter
    /\ \A e \in Ends :
          proc[e[1]] = "off" => end[e] = "none" /\ writers[e[1]][e[2]] = NoWriter

\* As long as nothing fails: a node drops an end only when it has installed its
\* other one, and closes one only because the peer dropped it.
Faultless == cut = {} /\ \A x \in Replicas : proc[x] # "exited"
DropsExplained ==
    Faultless =>
        \A e \in Ends :
            /\ end[e] # "none" => Runs(e[1])
            /\ end[e] = "dropped" => end[Twin(e)] \in {"live", "closed"}
            /\ end[e] = "closed" => end[Other(e)] = "dropped"

TransportInv ==
    TransportTypeOK /\ KeyFirst /\ WriterIsLive /\ KeysBeforeStart /\ DropsExplained

-----------------------------------------------------------------------------
\* The two ends of a connection, and the two connections of a pair of replicas.
LEMMA EndFacts ==
    ASSUME NEW e \in Ends
    PROVE  /\ e = << e[1], e[2], e[3] >>
           /\ e[1] \in Replicas /\ e[2] \in Replicas /\ e[3] \in Roles /\ e[1] # e[2]
           /\ Other(e) \in Ends /\ Twin(e) \in Ends /\ Conn(e) \in Ends
           /\ Other(Other(e)) = e /\ Twin(Twin(e)) = e
           /\ Other(Twin(e)) = Twin(Other(e))
           /\ Other(e) # e /\ Twin(e) # e /\ Other(e) # Twin(e)
           /\ Other(e)[1] = e[2] /\ Other(e)[2] = e[1] /\ Other(e)[3] = OtherRole(e[3])
           /\ Twin(e)[1] = e[1] /\ Twin(e)[2] = e[2] /\ Twin(e)[3] = OtherRole(e[3])
           /\ OtherRole(e[3]) \in Roles /\ OtherRole(e[3]) # e[3]
  BY DEF Ends, Other, Twin, Conn, OtherRole, Roles

\* Ends of the same node to the same peer are equal or twins.
LEMMA SameOwner ==
    ASSUME NEW e \in Ends, NEW d \in Ends, d[1] = e[1], d[2] = e[2]
    PROVE  d = e \/ d = Twin(e)
  BY DEF Ends, Twin, OtherRole, Roles

\* n - 1 peers with a writer are all the peers.
LEMMA CountPeers ==
    ASSUME NEW x \in Replicas, NEW W \in SUBSET (Replicas \ {x}), Cardinality(W) >= N - 1
    PROVE  W = Replicas \ {x}
  <1>1. IsFiniteSet(Replicas) /\ Cardinality(Replicas) = N
    BY FS_Interval, TransportAssumption DEF Replicas
  <1>2. /\ IsFiniteSet(Replicas \ {x})
        /\ Cardinality(Replicas \ {x}) = N - 1
    BY <1>1, FS_RemoveElement
  <1>3. QED
    BY <1>2, FS_Subset, FS_CardinalityType, TransportAssumption

-----------------------------------------------------------------------------
\* The invariant holds before any connection.
LEMMA InitOK == TransportInit => TransportInv
  <1> SUFFICES ASSUME TransportInit PROVE TransportInv
    OBVIOUS
  <1> USE EndFacts DEF TransportInit
  <1>1. TransportTypeOK
    BY DEF TransportTypeOK
  <1>2. KeyFirst
    BY DEF KeyFirst, Runs
  <1>3. WriterIsLive
    BY DEF WriterIsLive, Runs
  <1>4. KeysBeforeStart
    BY DEF KeysBeforeStart
  <1>5. DropsExplained
    BY DEF DropsExplained
  <1>6. QED
    BY <1>1, <1>2, <1>3, <1>4, <1>5 DEF TransportInv

\* One lemma per action: the invariant survives it.
LEMMA BootOK ==
    ASSUME TransportInv, NEW x \in Replicas, Boot(x)
    PROVE  TransportInv'
  <1> USE EndFacts DEF TransportInv, Boot, TransportTypeOK, Runs
  <1>1. TransportTypeOK'
    OBVIOUS
  <1>2. KeyFirst'
    BY DEF KeyFirst
  <1>3. WriterIsLive'
    BY DEF WriterIsLive, KeyFirst, Roles, NoWriter
  <1>4. KeysBeforeStart'
    BY DEF KeysBeforeStart
  <1>5. DropsExplained'
    BY DEF DropsExplained, Faultless
  <1>6. QED
    BY <1>1, <1>2, <1>3, <1>4, <1>5

\* One lemma per action: Ready keeps the invariant.
LEMMA ReadyOK ==
    ASSUME TransportInv, NEW x \in Replicas, Ready(x)
    PROVE  TransportInv'
  <1> USE EndFacts DEF TransportInv, Ready, TransportTypeOK, Runs
  <1>1. TransportTypeOK'
    OBVIOUS
  <1>2. KeyFirst'
    BY DEF KeyFirst
  <1>3. WriterIsLive'
    BY SameOwner DEF WriterIsLive
  <1>4. KeysBeforeStart'
    <2> DEFINE W == {y \in Replicas : writers[x][y] # NoWriter}
    <2>1. W \in SUBSET (Replicas \ {x})
      BY DEF KeyFirst
    <2>2. Cardinality(W) >= N - 1
      OBVIOUS
    <2>3. W = Replicas \ {x}
      <3> HIDE DEF W, Ready, TransportInv, TransportTypeOK, Runs
      <3> QED BY <2>1, <2>2, CountPeers
    <2>4. \A y \in Replicas \ {x} : y \in keys[x]
      <3> SUFFICES ASSUME NEW y \in Replicas \ {x} PROVE y \in keys[x]
        OBVIOUS
      <3>1. writers[x][y] \in Roles
        BY <2>3
      <3>2. << x, y, writers[x][y] >> \in Ends
        BY <3>1 DEF Ends
      <3>3. end[<< x, y, writers[x][y] >>] = "live"
        BY <3>2 DEF WriterIsLive
      <3>4. QED
        BY <3>2, <3>3 DEF KeyFirst
    <2>5. keys[x] = Replicas /\ keys' = keys
      BY <2>4 DEF KeyFirst
    <2>6. \A y \in Replicas : y # x => proc'[y] = proc[y]
      OBVIOUS
    <2>7. QED
      BY <2>5, <2>6 DEF KeysBeforeStart
  <1>5. DropsExplained'
    BY DEF DropsExplained, Faultless
  <1>6. QED
    BY <1>1, <1>2, <1>3, <1>4, <1>5

\* A process that exits closes its ends and keeps no writer.
LEMMA ExitOK ==
    ASSUME TransportInv, NEW x \in Replicas, Exit(x)
    PROVE  TransportInv'
  <1> USE EndFacts DEF TransportInv, Exit, TransportTypeOK, Runs
  <1>1. TransportTypeOK'
    OBVIOUS
  <1>2. KeyFirst'
    BY DEF KeyFirst
  <1>3. WriterIsLive'
    BY SameOwner DEF WriterIsLive
  <1>4. KeysBeforeStart'
    BY DEF KeysBeforeStart
  <1>5. DropsExplained'
    BY DEF DropsExplained, Faultless
  <1>6. QED
    BY <1>1, <1>2, <1>3, <1>4, <1>5

\* A new outgoing connection.
LEMMA ConnectOK ==
    ASSUME TransportInv, NEW e \in Ends, Connect(e)
    PROVE  TransportInv'
  <1> USE EndFacts DEF TransportInv, Connect, TransportTypeOK, Runs
  <1>1. TransportTypeOK'
    OBVIOUS
  <1>2. KeyFirst'
    BY DEF KeyFirst
  <1>3. WriterIsLive'
    BY SameOwner DEF WriterIsLive
  <1>4. KeysBeforeStart'
    BY DEF KeysBeforeStart
  <1>5. DropsExplained'
    BY DEF DropsExplained, Faultless
  <1>6. QED
    BY <1>1, <1>2, <1>3, <1>4, <1>5

\* An accepted incoming connection.
LEMMA AcceptOK ==
    ASSUME TransportInv, NEW e \in Ends, Accept(e)
    PROVE  TransportInv'
  <1> USE EndFacts DEF TransportInv, Accept, TransportTypeOK, Runs
  <1>1. TransportTypeOK'
    OBVIOUS
  <1>2. KeyFirst'
    BY DEF KeyFirst
  <1>3. WriterIsLive'
    BY SameOwner DEF WriterIsLive
  <1>4. KeysBeforeStart'
    BY DEF KeysBeforeStart
  <1>5. DropsExplained'
    BY DEF DropsExplained, Faultless
  <1>6. QED
    BY <1>1, <1>2, <1>3, <1>4, <1>5

\* The handshake has read the peer's key.
LEMMA InsertKeyOK ==
    ASSUME TransportInv, NEW e \in Ends, InsertKey(e)
    PROVE  TransportInv'
  <1> USE EndFacts DEF TransportInv, InsertKey, TransportTypeOK, Runs
  <1>1. TransportTypeOK'
    OBVIOUS
  <1>2. KeyFirst'
    BY DEF KeyFirst
  <1>3. WriterIsLive'
    BY SameOwner DEF WriterIsLive
  <1>4. KeysBeforeStart'
    BY DEF KeysBeforeStart
  <1>5. DropsExplained'
    BY DEF DropsExplained, Faultless
  <1>6. QED
    BY <1>1, <1>2, <1>3, <1>4, <1>5

\* A handshake that fails drops its end.
LEMMA HandshakeFailsOK ==
    ASSUME TransportInv, NEW e \in Ends, HandshakeFails(e)
    PROVE  TransportInv'
  <1> USE EndFacts DEF TransportInv, HandshakeFails, TransportTypeOK, Runs
  <1>1. TransportTypeOK'
    OBVIOUS
  <1>2. KeyFirst'
    BY DEF KeyFirst
  <1>3. WriterIsLive'
    BY SameOwner DEF WriterIsLive
  <1>4. KeysBeforeStart'
    BY DEF KeysBeforeStart
  <1>5. DropsExplained'
    BY DEF DropsExplained, Faultless
  <1>6. QED
    BY <1>1, <1>2, <1>3, <1>4, <1>5

\* The writer of a finished handshake takes its place in the map, or is a duplicate and is dropped.
LEMMA InsertWriterOK ==
    ASSUME TransportInv, NEW e \in Ends, InsertWriter(e)
    PROVE  TransportInv'
  <1> USE EndFacts DEF TransportInv, InsertWriter, TransportTypeOK, Runs
  <1>1. TransportTypeOK'
    OBVIOUS
  <1>2. KeyFirst'
    BY DEF KeyFirst
  <1>3. WriterIsLive'
    <2> SUFFICES ASSUME NEW d \in Ends, Runs(d[1])
                 PROVE  writers'[d[1]][d[2]] = d[3] <=> end'[d] = "live"
      BY DEF WriterIsLive
    <2>1. CASE d[1] = e[1] /\ d[2] = e[2]
      <3>1. d = e \/ d = Twin(e)
        BY <2>1, SameOwner
      <3>2. writers[d[1]][d[2]] = d[3] <=> end[d] = "live"
        BY DEF WriterIsLive
      <3>3. writers[d[1]][d[2]] \in Roles \cup {NoWriter}
        OBVIOUS
      <3>4. QED
        BY <2>1, <3>1, <3>2, <3>3 DEF Roles, NoWriter
    <2>2. CASE ~(d[1] = e[1] /\ d[2] = e[2])
      BY <2>2 DEF WriterIsLive
    <2>3. QED
      BY <2>1, <2>2
  <1>4. KeysBeforeStart'
    BY DEF KeysBeforeStart
  <1>5. DropsExplained'
    <2> SUFFICES ASSUME Faultless, NEW d \in Ends
                 PROVE  /\ end'[d] # "none" => Runs(d[1])
                        /\ end'[d] = "dropped" => end'[Twin(d)] \in {"live", "closed"}
                        /\ end'[d] = "closed" => end'[Other(d)] = "dropped"
      BY DEF DropsExplained, Faultless
    <2>0. /\ end[d] # "none" => Runs(d[1])
          /\ end[d] = "dropped" => end[Twin(d)] \in {"live", "closed"}
          /\ end[d] = "closed" => end[Other(d)] = "dropped"
      BY DEF DropsExplained
    <2>1. writers[e[1]][e[2]] # NoWriter => end[Twin(e)] = "live"
      <3>1. /\ writers[e[1]][e[2]] = Twin(e)[3] <=> end[Twin(e)] = "live"
            /\ writers[e[1]][e[2]] # e[3]
        BY DEF WriterIsLive
      <3>2. QED
        BY <3>1 DEF Roles, OtherRole
    <2>2. \A c \in Ends : c # e => end'[c] = end[c]
      OBVIOUS
    <2>3. end[e] = "keyed" /\ end'[e] \in {"live", "dropped"}
      OBVIOUS
    <2>4. end'[e] = "dropped" => end[Twin(e)] = "live"
      BY <2>1
    <2>5. QED
      BY <2>0, <2>2, <2>3, <2>4
  <1>6. QED
    BY <1>1, <1>2, <1>3, <1>4, <1>5

\* A reader task that ends removes its writer.
LEMMA ReaderEndsOK ==
    ASSUME TransportInv, NEW e \in Ends, ReaderEnds(e)
    PROVE  TransportInv'
  <1> USE EndFacts DEF TransportInv, ReaderEnds, TransportTypeOK, Runs
  <1>1. TransportTypeOK'
    OBVIOUS
  <1>2. KeyFirst'
    BY DEF KeyFirst
  <1>3. WriterIsLive'
    <2> SUFFICES ASSUME NEW d \in Ends, Runs(d[1])
                 PROVE  writers'[d[1]][d[2]] = d[3] <=> end'[d] = "live"
      BY DEF WriterIsLive
    <2>1. CASE d[1] = e[1] /\ d[2] = e[2]
      <3>1. d = e \/ d = Twin(e)
        BY <2>1, SameOwner
      <3>2. writers[d[1]][d[2]] = e[3]
        BY <2>1 DEF WriterIsLive
      <3>3. end[Twin(e)] # "live"
        BY <2>1, <3>2 DEF WriterIsLive
      <3>4. writers'[d[1]][d[2]] = NoWriter /\ NoWriter \notin Roles
        BY <2>1 DEF NoWriter, Roles
      <3>5. QED
        BY <3>1, <3>3, <3>4
    <2>2. CASE ~(d[1] = e[1] /\ d[2] = e[2])
      BY <2>2 DEF WriterIsLive
    <2>3. QED
      BY <2>1, <2>2
  <1>4. KeysBeforeStart'
    BY DEF KeysBeforeStart
  <1>5. DropsExplained'
    BY DEF DropsExplained, Faultless
  <1>6. QED
    BY <1>1, <1>2, <1>3, <1>4, <1>5

\* The network cuts a connection.
LEMMA CutOK ==
    ASSUME TransportInv, NEW e \in Ends, Cut(e)
    PROVE  TransportInv'
  <1> USE EndFacts DEF TransportInv, Cut, TransportTypeOK, Runs
  <1>1. TransportTypeOK'
    OBVIOUS
  <1>2. KeyFirst'
    BY DEF KeyFirst
  <1>3. WriterIsLive'
    BY SameOwner DEF WriterIsLive
  <1>4. KeysBeforeStart'
    BY DEF KeysBeforeStart
  <1>5. DropsExplained'
    BY DEF DropsExplained, Faultless
  <1>6. QED
    BY <1>1, <1>2, <1>3, <1>4, <1>5

-----------------------------------------------------------------------------
\* The invariant of the transport.
LEMMA TransportInvariant == TransportSpec => []TransportInv
  <1>1. TransportInv /\ [TransportNext]_transportVars => TransportInv'
    <2> SUFFICES ASSUME TransportInv, [TransportNext]_transportVars PROVE TransportInv'
      OBVIOUS
    <2>1. CASE UNCHANGED transportVars
      BY <2>1 DEF transportVars, TransportInv, TransportTypeOK, KeyFirst, WriterIsLive,
                  KeysBeforeStart, DropsExplained, Faultless, Runs
    <2>2. ASSUME NEW x \in Replicas, Boot(x) \/ Ready(x) \/ Exit(x) PROVE TransportInv'
      BY <2>2, BootOK, ReadyOK, ExitOK
    <2>3. ASSUME NEW e \in Ends, Task(e) \/ Cut(e) PROVE TransportInv'
      BY <2>3, ConnectOK, AcceptOK, InsertKeyOK, HandshakeFailsOK, InsertWriterOK,
         ReaderEndsOK, CutOK DEF Task
    <2>4. QED
      BY <2>1, <2>2, <2>3 DEF TransportNext
  <1>2. QED
    BY InitOK, <1>1, PTL DEF TransportSpec

\* For every number of nodes, whoever exits and whatever breaks: a node leaves
\* wait_for_peers only with every peer's key in peer_keys (install_connection's
\* order of its two inserts), and keeps them.
THEOREM KeysKnown == TransportSpec => []KeysBeforeStart
  BY TransportInvariant, PTL DEF TransportInv

\* For every number of nodes: peer_writers holds a peer's writer exactly while one
\* connection to that peer is installed, so remove(&peer_id) removes its own entry.
THEOREM OneWriterPerPeer == TransportSpec => []WriterIsLive
  BY TransportInvariant, PTL DEF TransportInv

\* For every number of nodes: without faults two nodes end with exactly one
\* connection, or have dropped each other's.
THEOREM OnlyCrossingLosesAPeer == TransportSpec => []LinkOrCrossed
  <1>1. TransportInv => LinkOrCrossed
    <2> SUFFICES ASSUME TransportInv, Settled, NEW e \in Ends
                 PROVE  LET d == Twin(Other(e))
                        IN  \/ (end[e] = "live") # (end[d] = "live")
                            \/ /\ {end[e], end[Other(e)]} = {"dropped", "closed"}
                               /\ end[d] = end[e] /\ end[Other(d)] = end[Other(e)]
      BY DEF LinkOrCrossed
    <2> DEFINE d == Twin(Other(e))
    <2>1. /\ Other(e) \in Ends /\ Twin(e) \in Ends /\ d \in Ends
          /\ Other(d) = Twin(e) /\ Twin(d) = Other(e) /\ Other(Twin(e)) = d
          /\ Other(Other(e)) = e /\ Twin(Other(e)) = d
      BY EndFacts
    <2>2. \A c \in Ends :
             /\ end[c] \in {"live", "dropped", "closed"}
             /\ end[c] = "live" => end[Other(c)] = "live"
             /\ end[c] = "dropped" => end[Twin(c)] \in {"live", "closed"}
             /\ end[c] = "closed" => end[Other(c)] = "dropped"
      BY DEF Settled, TransportInv, DropsExplained, Faultless, Runs
    <2>3. ~(end[e] = "live" /\ end[Twin(e)] = "live")
      BY <2>1, EndFacts DEF TransportInv, WriterIsLive, Settled
    <2> HIDE DEF d
    <2>4. QED
      BY <2>1, <2>2, <2>3
  <1>2. QED
    BY TransportInvariant, <1>1, PTL

-----------------------------------------------------------------------------
\* An open end belongs to a running node, an installed one has met the peer's, and
\* a node that is not running holds no writer.
OpenEnds ==
    /\ \A e \in Ends : end[e] \in Opened => Runs(e[1])
    /\ \A e \in Ends : end[e] \in {"keyed", "live"} => end[Other(e)] # "none"
    /\ \A x, y \in Replicas : ~Runs(x) => writers[x][y] = NoWriter

\* No step leaves a writer without an open end.
LEMMA OpenEndsKept ==
    ASSUME TransportTypeOK, OpenEnds, [TransportNext]_transportVars
    PROVE  OpenEnds'
  <1>4. ASSUME NEW x \in Replicas, Exit(x) PROVE OpenEnds'
    <2>1. end' = [e \in Ends |-> IF e[1] = x /\ end[e] # "none" THEN "closed" ELSE end[e]]
      BY <1>4 DEF Exit
    <2>2. \A e \in Ends : end'[e] = end[e] \/ end'[e] = "closed"
      BY <2>1
    <2>3. \A e \in Ends : e[1] = x => end'[e] \notin Opened
      BY <2>1 DEF Opened
    <2>4. proc' = [proc EXCEPT ![x] = "exited"]
          /\ writers' = [writers EXCEPT ![x] = [y \in Replicas |-> NoWriter]]
      BY <1>4 DEF Exit
    <2>5. \A y \in Replicas : y # x => proc'[y] = proc[y] /\ writers'[y] = writers[y]
      BY <2>4 DEF TransportTypeOK
    <2>6. proc'[x] = "exited" /\ \A y \in Replicas : writers'[x][y] = NoWriter
      BY <2>4 DEF TransportTypeOK
    <2>7. \A e \in Ends : e[1] \in Replicas /\ Other(e) \in Ends
      BY EndFacts
    <2>8. \A e \in Ends : end'[e] \in Opened => Runs(e[1])'
      BY <2>2, <2>3, <2>5, <2>7 DEF OpenEnds, Opened, Runs
    <2>9. \A e \in Ends : end'[e] \in {"keyed", "live"} => end'[Other(e)] # "none"
      BY <2>2, <2>7 DEF OpenEnds
    <2>10. \A w, y \in Replicas : ~Runs(w)' => writers'[w][y] = NoWriter
      BY <2>5, <2>6 DEF OpenEnds, Runs
    <2>11. QED
      BY <2>8, <2>9, <2>10 DEF OpenEnds, Opened
  <1> USE EndFacts DEF OpenEnds, TransportTypeOK, Runs, Opened
  <1>1. CASE UNCHANGED transportVars
    BY <1>1 DEF transportVars
  <1>2. ASSUME NEW x \in Replicas, Boot(x) PROVE OpenEnds'
    BY <1>2 DEF Boot
  <1>3. ASSUME NEW x \in Replicas, Ready(x) PROVE OpenEnds'
    BY <1>3 DEF Ready
  <1>0. ASSUME NEW e \in Ends, Connect(e) PROVE OpenEnds'
    BY <1>0 DEF Connect
  <1>5. ASSUME NEW e \in Ends, Accept(e) PROVE OpenEnds'
    BY <1>5 DEF Accept
  <1>6. ASSUME NEW e \in Ends, InsertKey(e) PROVE OpenEnds'
    BY <1>6 DEF InsertKey
  <1>7. ASSUME NEW e \in Ends, HandshakeFails(e) PROVE OpenEnds'
    BY <1>7 DEF HandshakeFails
  <1>8. ASSUME NEW e \in Ends, InsertWriter(e) PROVE OpenEnds'
    BY <1>8 DEF InsertWriter
  <1>9. ASSUME NEW e \in Ends, ReaderEnds(e) PROVE OpenEnds'
    BY <1>9 DEF ReaderEnds
  <1>10. ASSUME NEW e \in Ends, Cut(e) PROVE OpenEnds'
    BY <1>10 DEF Cut
  <1>11. QED
    BY <1>0, <1>1, <1>2, <1>3, <1>4, <1>5, <1>6, <1>7, <1>8, <1>9, <1>10
       DEF TransportNext, Task

\* For every number of nodes, whoever exits and whatever breaks: once the tasks of
\* the connections have nothing left to do, the writers of the two ends agree
\* (install_connection, the reader task's remove(&peer_id)).
THEOREM NoLinkIsHalfOpen == TransportSpec => []QuietLinksAgree
  <1>1. TransportInit => OpenEnds
    BY EndFacts DEF TransportInit, OpenEnds, Opened, Runs
  <1>2. TransportInv => TransportTypeOK
    BY DEF TransportInv
  <1>3. TransportInv /\ OpenEnds => QuietLinksAgree
    <2> SUFFICES ASSUME TransportInv, OpenEnds, Quiet,
                        NEW e \in Ends, writers[e[1]][e[2]] = e[3]
                 PROVE  writers[e[2]][e[1]] = OtherRole(e[3])
      BY DEF QuietLinksAgree
    <2>1. Runs(e[1]) /\ end[e] = "live"
      BY EndFacts DEF OpenEnds, TransportInv, WriterIsLive, NoWriter, Roles
    <2>2. Other(e) \in Ends /\ end[Other(e)] \notin {"none", "dropped", "closed"}
      BY <2>1, EndFacts DEF Quiet, OpenEnds
    <2>3. end[Other(e)] \in Opened /\ Runs(e[2])
      BY <2>2, EndFacts DEF TransportInv, TransportTypeOK, OpenEnds, Opened
    <2>4. end[Other(e)] = "live"
      BY <2>1, <2>2, <2>3, EndFacts DEF Quiet, Opened
    <2>5. QED
      BY <2>2, <2>3, <2>4, EndFacts DEF TransportInv, WriterIsLive
  <1>4. QED
    BY <1>1, <1>2, <1>3, OpenEndsKept, TransportInvariant, PTL DEF TransportSpec
=============================================================================
