---------------------------- MODULE WorkloadDir ----------------------------
(***************************************************************************)
(* The life of a workload directory: zkvm/script's network.rs generates it *)
(* block by block and may be killed and resumed, the directory is copied   *)
(* to the nodes, node/run-workload replays it, and a consensus node loads  *)
(* its blocks (workload.rs).                                               *)
(*                                                                         *)
(* A file is readable with some content, or not: no reader tells a missing *)
(* file from one that a kill in mid-write left truncated.  The generator   *)
(* draws transactions from a seed that advances from block to block, so a  *)
(* run of it follows a plan: the transactions of each block, and the       *)
(* ledger states they lead through.                                        *)
(***************************************************************************)
EXTENDS Integers

CONSTANTS
    NumBlocks,                   \* --num-blocks, the same in every run
    Genesis,                     \* generate_initial_state
    apply_block(_, _),           \* ledger-core: [state, applied]
    compute_state_root(_),
    hash_transactions(_),
    Plans,                       \* [txs, state]: what a seed leads to
    MaxStarts,                   \* bound on runs of the generator
    MaxDamage                    \* bound on copying accidents

Blocks == 0 .. NumBlocks - 1

ASSUME DirAssumption ==
    NumBlocks \in Nat \ {0} /\ MaxStarts \in Nat /\ MaxDamage \in Nat

ASSUME PlanAssumption ==
    \A p \in Plans :
        /\ p.state[0] = Genesis
        /\ \A b \in Blocks : p.state[b + 1] = apply_block(p.state[b], p.txs[b]).state

\* SHA-256 tells the transaction lists of a workload apart
ASSUME HashAssumption ==
    \A p \in Plans : \A b, c \in Blocks :
        hash_transactions(p.txs[b]) = hash_transactions(p.txs[c]) => p.txs[b] = p.txs[c]

VARIABLES
    plan,                                \* fixed by the seed 12345
    pc, block_num, seed, state,          \* the generator; seed counts the blocks drawn
    txs, proof, meta, manifest,          \* the files; the first three by block
    verdict, replayed, rstate,           \* run-workload: blocks replayed, state
    starts, damage                       \* the bounds

genVars == << pc, block_num, seed, state >>
files == << txs, proof, meta, manifest >>
replayVars == << verdict, replayed, rstate >>
dirVars == << plan, genVars, files, replayVars, starts, damage >>

NoFiles == [b \in {} |-> b]
Write(f, b, x) == [c \in DOMAIN f \cup {b} |-> IF c = b THEN x ELSE f[c]]
Torn(f, b) == [c \in DOMAIN f \ {b} |-> f[c]]

\* the guest program's public values (zkvm/program)
Commit(s, t) ==
    [ pre_state_root |-> compute_state_root(s),
      post_state_root |-> compute_state_root(apply_block(s, t).state),
      tx_hash |-> hash_transactions(t) ]

\* commit.json
Meta(b, s, t) ==
    [block_number |-> b, commit |-> Commit(s, t), txs_applied |-> apply_block(s, t).applied]

DirInit ==
    /\ plan \in Plans
    /\ pc = "off" /\ block_num = 0 /\ seed = 0 /\ state = Genesis
    /\ txs = NoFiles /\ proof = NoFiles /\ meta = NoFiles /\ manifest = FALSE
    /\ verdict = "none" /\ replayed = 0 /\ rstate = Genesis
    /\ starts = 0 /\ damage = 0

-----------------------------------------------------------------------------
(***************************************************************************)
(* network.rs: the generator                                               *)
(***************************************************************************)
Idle == pc \in {"off", "done"}
Complete(b) == b \in DOMAIN txs /\ b \in DOMAIN proof /\ b \in DOMAIN meta

\* --resume-from k "skips already-generated blocks"
Start(k) ==
    /\ Idle /\ starts < MaxStarts /\ damage = 0
    /\ \A b \in 0 .. k - 1 : Complete(b)
    /\ starts' = starts + 1
    /\ pc' = "begin" /\ block_num' = k
    /\ verdict' = "none"
    /\ UNCHANGED << plan, seed, state, files, replayed, rstate, damage >>

FirstStep(k) == IF k < NumBlocks THEN "txs" ELSE "final"

\* mutant: the blocks skipped are not drawn from the seed
Begin_SeedNotAdvanced ==
    /\ pc = "begin"
    /\ manifest' = TRUE
    /\ seed' = 0 /\ state' = plan.state[block_num]
    /\ pc' = FirstStep(block_num)
    /\ UNCHANGED << plan, block_num, txs, proof, meta, replayVars, starts, damage >>

\* mutant: the blocks skipped are not applied
Begin_NoReplay ==
    /\ pc = "begin"
    /\ manifest' = TRUE
    /\ seed' = block_num /\ state' = Genesis
    /\ pc' = FirstStep(block_num)
    /\ UNCHANGED << plan, block_num, txs, proof, meta, replayVars, starts, damage >>

\* writes the ELF and the manifest; draws and applies the blocks skipped, which
\* are the first of the plan because the seed starts anew
Begin ==
    /\ pc = "begin"
    /\ manifest' = TRUE
    /\ seed' = block_num /\ state' = plan.state[block_num]
    /\ pc' = FirstStep(block_num)
    /\ UNCHANGED << plan, block_num, txs, proof, meta, replayVars, starts, damage >>

\* draws the block's transactions and writes transactions.bin
WriteTxs ==
    /\ pc = "txs"
    /\ txs' = Write(txs, block_num, plan.txs[seed])
    /\ seed' = seed + 1
    /\ pc' = "proof"
    /\ UNCHANGED << plan, block_num, state, proof, meta, manifest, replayVars, starts, damage >>

Drawn == plan.txs[seed - 1]

\* the prover runs the guest program on the state and the transactions; the
\* asserts compare its public values with the native execution's
WriteProof ==
    /\ pc = "proof"
    /\ proof' = Write(proof, block_num, Commit(state, Drawn))
    /\ pc' = "meta"
    /\ UNCHANGED << plan, block_num, seed, state, txs, meta, manifest, replayVars, starts, damage >>

\* commit.json, and on to the next block
WriteMeta ==
    /\ pc = "meta"
    /\ meta' = Write(meta, block_num, Meta(block_num, state, Drawn))
    /\ state' = apply_block(state, Drawn).state
    /\ block_num' = block_num + 1
    /\ pc' = FirstStep(block_num + 1)
    /\ UNCHANGED << plan, seed, txs, proof, manifest, replayVars, starts, damage >>

WriteManifest ==
    /\ pc = "final"
    /\ manifest' = TRUE
    /\ pc' = "done"
    /\ UNCHANGED << plan, block_num, seed, state, txs, proof, meta, replayVars, starts, damage >>

\* killed, or the prover failed: the file about to be written may be left truncated
Crash(torn) ==
    /\ ~Idle
    /\ pc' = "off"
    /\ txs' = IF torn /\ pc = "txs" THEN Torn(txs, block_num) ELSE txs
    /\ proof' = IF torn /\ pc = "proof" THEN Torn(proof, block_num) ELSE proof
    /\ meta' = IF torn /\ pc = "meta" THEN Torn(meta, block_num) ELSE meta
    /\ manifest' = (manifest /\ ~(torn /\ pc \in {"begin", "final"}))
    /\ UNCHANGED << plan, block_num, seed, state, replayVars, starts, damage >>

Generate ==
    \/ \E k \in 0 .. NumBlocks : Start(k)
    \/ Begin \/ WriteTxs \/ WriteProof \/ WriteMeta \/ WriteManifest
    \/ \E torn \in BOOLEAN : Crash(torn)

-----------------------------------------------------------------------------
(***************************************************************************)
(* Accidents on the way to a node: "truncated rsync, swapped files between *)
(* heights" (workload.rs)                                                  *)
(***************************************************************************)
Other(b, c, x) == IF x = b THEN c ELSE IF x = c THEN b ELSE x
Swapped(f, b, c) ==
    [x \in {Other(b, c, y) : y \in DOMAIN f} |-> f[Other(b, c, x)]]

Accident ==
    /\ Idle /\ damage < MaxDamage
    /\ damage' = damage + 1 /\ verdict' = "none"
    /\ UNCHANGED << plan, genVars, manifest, replayed, rstate, starts >>

Swap(b, c) ==
    /\ Accident
    /\ \E which \in SUBSET {"txs", "proof", "meta"} :
          /\ txs' = IF "txs" \in which THEN Swapped(txs, b, c) ELSE txs
          /\ proof' = IF "proof" \in which THEN Swapped(proof, b, c) ELSE proof
          /\ meta' = IF "meta" \in which THEN Swapped(meta, b, c) ELSE meta

Truncate(b) ==
    /\ Accident
    /\ \/ txs' = Torn(txs, b) /\ UNCHANGED << proof, meta >>
       \/ proof' = Torn(proof, b) /\ UNCHANGED << txs, meta >>
       \/ meta' = Torn(meta, b) /\ UNCHANGED << txs, proof >>

-----------------------------------------------------------------------------
(***************************************************************************)
(* run-workload                                                            *)
(***************************************************************************)
StartReplay ==
    /\ Idle /\ verdict = "none"
    /\ verdict' = IF manifest THEN "running" ELSE "failed"
    /\ replayed' = 0 /\ rstate' = Genesis
    /\ UNCHANGED << plan, genVars, files, starts, damage >>

\* the files of block b can be read and every comparison succeeds
BlockMatches(b) ==
    /\ Complete(b)
    /\ meta[b] = Meta(b, rstate, txs[b])
    /\ proof[b] = Commit(rstate, txs[b])

ReplayBlock ==
    /\ Idle /\ verdict = "running" /\ replayed < NumBlocks
    /\ IF BlockMatches(replayed)
       THEN /\ rstate' = apply_block(rstate, txs[replayed]).state
            /\ replayed' = replayed + 1
            /\ verdict' = IF replayed + 1 = NumBlocks THEN "ok" ELSE "running"
       ELSE verdict' = "failed" /\ UNCHANGED << replayed, rstate >>
    /\ UNCHANGED << plan, genVars, files, starts, damage >>

DirNext ==
    \/ Generate
    \/ \E b, c \in Blocks : b < c /\ Swap(b, c)
    \/ \E b \in Blocks : Truncate(b)
    \/ StartReplay \/ ReplayBlock

DirSpec == DirInit /\ [][DirNext]_dirVars

-----------------------------------------------------------------------------
\* A directory the generator has finished, however often it was killed and
\* resumed before, replays without a mismatch (network.rs, --resume-from).
FinishedReplays == pc = "done" /\ damage = 0 => verdict # "failed"

\* "All blocks: state roots match, tx hashes match, proofs verified": a directory
\* run-workload accepts holds exactly the files of an undisturbed run of the
\* generator, whatever was truncated or swapped.
AcceptedIsIntact ==
    verdict = "ok" =>
        \A b \in Blocks :
            /\ Complete(b)
            /\ txs[b] = plan.txs[b]
            /\ proof[b] = Commit(plan.state[b], plan.txs[b])
            /\ meta[b] = Meta(b, plan.state[b], plan.txs[b])

\* workload.rs: block_at panics unless commit.json names its own height
block_at(b) == b \in DOMAIN meta /\ meta[b].block_number = b

\* block_number is "Verified at load time against the directory name to catch
\* workload corruption (e.g., truncated rsync, swapped files between heights)":
\* if every block loads, no block's transactions are those of another.
LoadCatchesSwaps ==
    (\A b \in Blocks : block_at(b)) =>
        \A b \in DOMAIN txs : hash_transactions(txs[b]) = meta[b].commit.tx_hash
=============================================================================
