----------------------------- MODULE MCHotStuff -----------------------------
(* Instances of HotStuff for TLC: block names, workload directories, modes. *)
EXTENDS Pipeline

Names == << "b0", "b1", "b2", "b3" >>
MCCmds == {Names[h] : h \in 1 .. NumBlocks} \cup {"other"}

\* every node has the same workload directory
SameWorkload == [i \in Replicas |-> SubSeq(Names, 1, NumBlocks)]

AllReexecute == Replicas
OnlyFirst == {0}
Nobody == {}
LastCorrupt == {<< N - 1, 0 >>}
=============================================================================
