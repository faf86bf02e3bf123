------------------------- MODULE MCPartialSynchrony -------------------------
(* Instances of PartialSynchrony for TLC. *)
EXTENDS PartialSynchrony, Pipeline

Names == << "b0", "b1", "b2", "b3" >>
MCCmds == {Names[h] : h \in 1 .. NumBlocks} \cup {"other"}

\* every node has the same workload directory
SameWorkload == [i \in Replicas |-> SubSeq(Names, 1, NumBlocks)]

\* node 1 was given another one, the same up to the second block
OddSecond == [SameWorkload EXCEPT ![1][2] = "other"]

AllReexecute == Replicas
OnlyFirst == {0}
Nobody == {}

\* Action constraints for larger clusters: the nodes other than the free ones
\* take their messages and outcomes in one fixed order, one node after the other;
\* a free node, and every timer, may come in between at any time.
For(i) == {p \in net : p.to = i}
Due(i) ==
    \/ rs[i].view = 0
    \/ Running(i) /\ (rs[i].ex.queue # << >> \/ For(i) # {})
Received(i) == For(i) \ net'
InTurn(free) ==
    \A i \in Replicas \ free :
        (rs'[i] # rs[i] \/ Received(i) # {}) /\ Due(i) /\ early' = early =>
            /\ \A j \in (0 .. i - 1) \ free : ~Due(j)
            /\ For(i) # {} /\ rs[i].view > 0 =>
                  Received(i) = {CHOOSE p \in For(i) : TRUE}

\* One node lags at a time: node 1, the leader of view 2, when it starts so late
\* that view 1 is decided without its vote, until it has proposed itself; in every
\* other behaviour the last node, through both views.
SecondIsLate ==
    << "prepare", 1 >> \notin rs[1].voted /\ (rs[1].view = 0 \/ rs[0].view > 1)
SecondHasLed == \E p \in rs[1].proposals : p.view = 2
OneLags ==
    InTurn(IF ~SecondIsLate THEN {N - 1} ELSE IF SecondHasLed THEN {} ELSE {1})

NobodyIsFree == InTurn({})
=============================================================================
