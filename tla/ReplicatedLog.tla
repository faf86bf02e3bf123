--------------------------- MODULE ReplicatedLog ---------------------------
(***************************************************************************)
(* What the cluster promises: there is one log of blocks, entries are only *)
(* ever added at its end, and the ledger of every member is the result of  *)
(* a prefix of it that only grows.  A member may learn of decisions and    *)
(* apply any number of blocks at once, and may lag behind for ever.        *)
(***************************************************************************)
EXTENDS Naturals, Sequences

CONSTANTS Members,    \* the nodes
          Entries     \* the blocks

VARIABLES log,        \* what has been decided
          applied     \* applied[m]: the blocks m's ledger is the result of

Prefix(s, t) == Len(s) <= Len(t) /\ s = SubSeq(t, 1, Len(s))

LogInit ==
    /\ log = << >>
    /\ applied = [m \in Members |-> << >>]

Advance(m) ==
    /\ log' \in Seq(Entries) /\ Prefix(log, log')
    /\ Prefix(applied[m], applied'[m]) /\ Prefix(applied'[m], log')
    /\ \A k \in Members \ {m} : applied'[k] = applied[k]

LogNext == \E m \in Members : Advance(m)

LogSpec == LogInit /\ [][LogNext]_<< log, applied >>
=============================================================================
