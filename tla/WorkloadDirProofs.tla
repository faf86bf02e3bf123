------------------------- MODULE WorkloadDirProofs -------------------------
(***************************************************************************)
(* The ledger, and a workload directory of it, for every number of         *)
(* accounts and blocks, every balance width and every seed, with any       *)
(* number of kills, resumes and copying accidents.                         *)
(*                                                                         *)
(* First the directory, for whatever apply_block and its hashes do.  Then  *)
(* the ledger: apply_block moves money and makes none, and                 *)
(* compute_state_root tells any two ledger states apart.  Both are         *)
(* inductions over data (the transactions of a block, the accounts of a    *)
(* sum, the layers of a tree).  Last, the two together.                    *)
(***************************************************************************)
EXTENDS LedgerWorkload, FiniteSetTheorems, TLAPS

-----------------------------------------------------------------------------
\* the files of block b are those of an undisturbed run
Right(b) ==
    /\ Complete(b)
    /\ txs[b] = plan.txs[b]
    /\ proof[b] = Commit(plan.state[b], plan.txs[b])
    /\ meta[b] = Meta(b, plan.state[b], plan.txs[b])

Types ==
    /\ plan \in Plans
    /\ pc \in {"off", "begin", "txs", "proof", "meta", "final", "done"}
    /\ block_num \in 0 .. NumBlocks
    /\ damage \in Nat
    /\ DOMAIN txs \subseteq Blocks /\ DOMAIN proof \subseteq Blocks
    /\ DOMAIN meta \subseteq Blocks
    /\ manifest \in BOOLEAN
    /\ verdict \in {"none", "running", "ok", "failed"}
    /\ replayed \in 0 .. NumBlocks

\* Where the generator is: what it holds in memory, and what is on disk already.
GeneratorAt ==
    /\ pc \in {"txs", "proof", "meta"} =>
          block_num \in Blocks /\ state = plan.state[block_num]
    /\ pc = "txs" => seed = block_num
    /\ pc \in {"proof", "meta"} => seed = block_num + 1 /\ block_num \in DOMAIN txs
    /\ pc = "meta" => block_num \in DOMAIN proof
    /\ pc \in {"final", "done"} => block_num = NumBlocks
    /\ pc # "off" /\ damage = 0 => \A b \in 0 .. block_num - 1 : Complete(b)
    /\ pc = "done" => manifest
    /\ ~Idle => verdict = "none" /\ damage = 0

\* What a readable file can hold: before any accident its own block's content,
\* and always some block's.
FilesAt ==
    /\ damage = 0 =>
          /\ \A b \in DOMAIN txs : txs[b] = plan.txs[b]
          /\ \A b \in DOMAIN proof : proof[b] = Commit(plan.state[b], plan.txs[b])
          /\ \A b \in DOMAIN meta : meta[b] = Meta(b, plan.state[b], plan.txs[b])
    /\ \A b \in DOMAIN txs : \E c \in Blocks : txs[b] = plan.txs[c]
    /\ \A b \in DOMAIN meta : \E c \in Blocks : meta[b] = Meta(c, plan.state[c], plan.txs[c])

\* Where run-workload is: what it has accepted so far is right.
ReplayAt ==
    /\ verdict \in {"running", "ok"} =>
          /\ rstate = plan.state[replayed]
          /\ \A b \in 0 .. replayed - 1 : Right(b)
    /\ verdict = "running" => replayed < NumBlocks
    /\ verdict = "ok" => replayed = NumBlocks

DirInv == Types /\ GeneratorAt /\ FilesAt /\ ReplayAt /\ FinishedReplays

-----------------------------------------------------------------------------
\* The heights are 0 .. NumBlocks - 1.
LEMMA BlockFacts ==
    /\ NumBlocks \in Nat /\ NumBlocks > 0
    /\ Blocks = 0 .. NumBlocks - 1
    /\ \A b \in Blocks : b \in 0 .. NumBlocks /\ b + 1 \in 0 .. NumBlocks
  BY DirAssumption DEF Blocks

\* Writing a file, and tearing one, touches no other.
LEMMA WriteFacts ==
    ASSUME NEW f, NEW b, NEW x
    PROVE  /\ DOMAIN Write(f, b, x) = DOMAIN f \cup {b}
           /\ Write(f, b, x)[b] = x
           /\ \A c \in DOMAIN f : c # b => Write(f, b, x)[c] = f[c]
           /\ DOMAIN Torn(f, b) = DOMAIN f \ {b}
           /\ \A c \in DOMAIN f : c # b => Torn(f, b)[c] = f[c]
  BY DEF Write, Torn

\* An exchange of two heights moves contents around and makes none up.
LEMMA SwapFacts ==
    ASSUME NEW f, DOMAIN f \subseteq Blocks, NEW b \in Blocks, NEW c \in Blocks
    PROVE  /\ DOMAIN Swapped(f, b, c) \subseteq Blocks
           /\ \A x \in DOMAIN Swapped(f, b, c) :
                 \E y \in DOMAIN f : Swapped(f, b, c)[x] = f[y]
  BY DEF Swapped, Other

\* The invariant holds of an empty directory.
LEMMA DirInitOK == DirInit => DirInv
  <1> SUFFICES ASSUME DirInit PROVE DirInv
    OBVIOUS
  <1> USE BlockFacts DEF DirInit
  <1>1. DOMAIN txs = {} /\ DOMAIN proof = {} /\ DOMAIN meta = {}
    <2>1. DOMAIN NoFiles = {}
      BY DEF NoFiles
    <2>2. QED
      BY <2>1
  <1>2. Types
    <2>1. manifest \in BOOLEAN
      OBVIOUS
    <2>2. /\ plan \in Plans /\ pc = "off" /\ verdict = "none"
          /\ block_num \in 0 .. NumBlocks /\ replayed \in 0 .. NumBlocks /\ damage \in Nat
      OBVIOUS
    <2>3. QED
      BY <1>1, <2>1, <2>2 DEF Types
  <1>3. GeneratorAt
    BY DEF GeneratorAt, Idle
  <1>4. FilesAt
    BY <1>1 DEF FilesAt
  <1>5. ReplayAt /\ FinishedReplays
    BY DEF ReplayAt, FinishedReplays
  <1>6. QED
    BY <1>2, <1>3, <1>4, <1>5 DEF DirInv

-----------------------------------------------------------------------------
\* One lemma per action: the invariant survives it.
LEMMA StartOK ==
    ASSUME DirInv, NEW k \in 0 .. NumBlocks, Start(k)
    PROVE  DirInv'
  <1> USE BlockFacts, WriteFacts
      DEF DirInv, Start, Types, Idle, Complete, genVars, files, replayVars
  <1>1. Types'
    BY DEF GeneratorAt
  <1>2. GeneratorAt'
    BY PlanAssumption DEF GeneratorAt, FilesAt
  <1>3. FilesAt'
    BY DEF GeneratorAt, FilesAt
  <1>4. ReplayAt' /\ FinishedReplays'
    BY DEF GeneratorAt, ReplayAt, FinishedReplays, Right
  <1>5. QED
    BY <1>1, <1>2, <1>3, <1>4

\* The generator begins at the height it resumes from.
LEMMA BeginOK ==
    ASSUME DirInv, Begin
    PROVE  DirInv'
  <1> USE BlockFacts, WriteFacts
      DEF DirInv, Begin, Types, Idle, Complete, genVars, files, replayVars, FirstStep
  <1>1. Types'
    BY DEF GeneratorAt
  <1>2. GeneratorAt'
    BY PlanAssumption DEF GeneratorAt, FilesAt
  <1>3. FilesAt'
    BY DEF GeneratorAt, FilesAt
  <1>4. ReplayAt' /\ FinishedReplays'
    BY DEF GeneratorAt, ReplayAt, FinishedReplays, Right
  <1>5. QED
    BY <1>1, <1>2, <1>3, <1>4

\* Writing the transactions of a block.
LEMMA WriteTxsOK ==
    ASSUME DirInv, WriteTxs
    PROVE  DirInv'
  <1>1. /\ DOMAIN txs' = DOMAIN txs \cup {block_num}
        /\ txs'[block_num] = plan.txs[seed]
        /\ \A c \in DOMAIN txs : c # block_num => txs'[c] = txs[c]
    BY DEF WriteTxs, Write
  <1>2. pc = "txs" /\ pc' = "proof" /\ seed' = seed + 1
    BY DEF WriteTxs
  <1>3. UNCHANGED << plan, block_num, state, proof, meta, manifest, verdict, replayed, rstate, damage >>
    BY DEF WriteTxs, replayVars
  <1>4. /\ block_num \in Blocks /\ state = plan.state[block_num]
        /\ verdict = "none" /\ damage = 0 /\ seed = block_num
    BY <1>2 DEF DirInv, GeneratorAt, Idle
  <1> USE BlockFacts DEF DirInv, Types
  <1>5. Types'
    BY <1>1, <1>2, <1>3, <1>4 DEF FirstStep
  <1>6. FilesAt'
    BY <1>1, <1>2, <1>3, <1>4 DEF FilesAt, Drawn
  <1>7. GeneratorAt'
    BY <1>1, <1>2, <1>3, <1>4, PlanAssumption DEF GeneratorAt, Idle, Complete, FirstStep, Drawn
  <1>8. ReplayAt' /\ FinishedReplays'
    BY <1>2, <1>3, <1>4 DEF ReplayAt, FinishedReplays, FirstStep
  <1>9. QED
    BY <1>5, <1>6, <1>7, <1>8

\* Writing the proof of a block.
LEMMA WriteProofOK ==
    ASSUME DirInv, WriteProof
    PROVE  DirInv'
  <1>1. /\ DOMAIN proof' = DOMAIN proof \cup {block_num}
        /\ proof'[block_num] = Commit(state, Drawn)
        /\ \A c \in DOMAIN proof : c # block_num => proof'[c] = proof[c]
    BY DEF WriteProof, Write
  <1>2. pc = "proof" /\ pc' = "meta"
    BY DEF WriteProof
  <1>3. UNCHANGED << plan, block_num, state, seed, txs, meta, manifest, verdict, replayed, rstate, damage >>
    BY DEF WriteProof, replayVars
  <1>4. /\ block_num \in Blocks /\ state = plan.state[block_num]
        /\ verdict = "none" /\ damage = 0 /\ seed = block_num + 1
    BY <1>2 DEF DirInv, GeneratorAt, Idle
  <1> USE BlockFacts DEF DirInv, Types
  <1>5. Types'
    BY <1>1, <1>2, <1>3, <1>4 DEF FirstStep
  <1>6. FilesAt'
    BY <1>1, <1>2, <1>3, <1>4 DEF FilesAt, Drawn
  <1>7. GeneratorAt'
    BY <1>1, <1>2, <1>3, <1>4, PlanAssumption DEF GeneratorAt, Idle, Complete, FirstStep, Drawn
  <1>8. ReplayAt' /\ FinishedReplays'
    BY <1>2, <1>3, <1>4 DEF ReplayAt, FinishedReplays, FirstStep
  <1>9. QED
    BY <1>5, <1>6, <1>7, <1>8

\* Writing the commitment of a block, and going on to the next.
LEMMA WriteMetaOK ==
    ASSUME DirInv, WriteMeta
    PROVE  DirInv'
  <1>1. /\ DOMAIN meta' = DOMAIN meta \cup {block_num}
        /\ meta'[block_num] = Meta(block_num, state, Drawn)
        /\ \A c \in DOMAIN meta : c # block_num => meta'[c] = meta[c]
    BY DEF WriteMeta, Write
  <1>2. /\ pc = "meta" /\ pc' = FirstStep(block_num + 1) /\ block_num' = block_num + 1
        /\ state' = apply_block(state, Drawn).state
    BY DEF WriteMeta
  <1>3. UNCHANGED << plan, seed, txs, proof, manifest, verdict, replayed, rstate, damage >>
    BY DEF WriteMeta, replayVars
  <1>4. /\ block_num \in Blocks /\ state = plan.state[block_num]
        /\ verdict = "none" /\ damage = 0 /\ seed = block_num + 1
    BY <1>2 DEF DirInv, GeneratorAt, Idle
  <1> USE BlockFacts DEF DirInv, Types
  <1>5. Types'
    BY <1>1, <1>2, <1>3, <1>4 DEF FirstStep
  <1>6. FilesAt'
    BY <1>1, <1>2, <1>3, <1>4 DEF FilesAt, Drawn
  <1>7. GeneratorAt'
    BY <1>1, <1>2, <1>3, <1>4, PlanAssumption DEF GeneratorAt, Idle, Complete, FirstStep, Drawn
  <1>8. ReplayAt' /\ FinishedReplays'
    BY <1>2, <1>3, <1>4 DEF ReplayAt, FinishedReplays, FirstStep
  <1>9. QED
    BY <1>5, <1>6, <1>7, <1>8

\* Writing the manifest.
LEMMA WriteManifestOK ==
    ASSUME DirInv, WriteManifest
    PROVE  DirInv'
  <1> USE BlockFacts, WriteFacts
      DEF DirInv, WriteManifest, Types, Idle, Complete, genVars, files, replayVars
  <1>1. Types'
    BY DEF GeneratorAt
  <1>2. GeneratorAt'
    BY PlanAssumption DEF GeneratorAt, FilesAt
  <1>3. FilesAt'
    BY DEF GeneratorAt, FilesAt
  <1>4. ReplayAt' /\ FinishedReplays'
    BY DEF GeneratorAt, ReplayAt, FinishedReplays, Right
  <1>5. QED
    BY <1>1, <1>2, <1>3, <1>4

\* A kill may tear the file being written.
LEMMA CrashOK ==
    ASSUME DirInv, NEW torn \in BOOLEAN, Crash(torn)
    PROVE  DirInv'
  <1>1. /\ DOMAIN txs' \subseteq DOMAIN txs /\ \A c \in DOMAIN txs' : txs'[c] = txs[c]
        /\ DOMAIN proof' \subseteq DOMAIN proof /\ \A c \in DOMAIN proof' : proof'[c] = proof[c]
        /\ DOMAIN meta' \subseteq DOMAIN meta /\ \A c \in DOMAIN meta' : meta'[c] = meta[c]
    BY DEF Crash, Torn
  <1>2. pc' = "off" /\ ~Idle /\ manifest' \in BOOLEAN
    BY DEF Crash, DirInv, Types
  <1>3. UNCHANGED << plan, block_num, seed, state, verdict, replayed, rstate, damage >>
    BY DEF Crash, replayVars
  <1>4. verdict = "none" /\ damage = 0
    BY <1>2 DEF DirInv, GeneratorAt
  <1> USE BlockFacts DEF DirInv, Types
  <1>5. Types'
    BY <1>1, <1>2, <1>3
  <1>6. FilesAt'
    BY <1>1, <1>3, <1>4 DEF FilesAt
  <1>7. GeneratorAt'
    BY <1>2, <1>3, <1>4 DEF GeneratorAt, Idle
  <1>8. ReplayAt' /\ FinishedReplays'
    BY <1>2, <1>3, <1>4 DEF ReplayAt, FinishedReplays
  <1>9. QED
    BY <1>5, <1>6, <1>7, <1>8

\* Accidents: a swap or a truncation only moves contents or takes them away.
LEMMA AccidentOK ==
    ASSUME DirInv, Accident,
           DOMAIN txs' \subseteq Blocks, DOMAIN proof' \subseteq Blocks,
           DOMAIN meta' \subseteq Blocks,
           \A b \in DOMAIN txs' : \E c \in DOMAIN txs : txs'[b] = txs[c],
           \A b \in DOMAIN meta' : \E c \in DOMAIN meta : meta'[b] = meta[c]
    PROVE  DirInv'
  <1>1. /\ UNCHANGED << plan, pc, block_num, seed, state, manifest, replayed, rstate >>
        /\ damage' = damage + 1 /\ verdict' = "none" /\ Idle
    BY DEF Accident, genVars
  <1> USE BlockFacts DEF DirInv
  <1>2. Types' /\ damage' # 0
    BY <1>1 DEF Types
  <1>3. FilesAt'
    BY <1>1, <1>2 DEF FilesAt
  <1>4. GeneratorAt'
    BY <1>1, <1>2 DEF GeneratorAt, Idle
  <1>5. ReplayAt' /\ FinishedReplays'
    BY <1>1, <1>2 DEF ReplayAt, FinishedReplays
  <1>6. QED
    BY <1>2, <1>3, <1>4, <1>5

\* A swap of two heights.
LEMMA SwapOK ==
    ASSUME DirInv, NEW b \in Blocks, NEW c \in Blocks, Swap(b, c)
    PROVE  DirInv'
  <1>1. PICK which \in SUBSET {"txs", "proof", "meta"} :
          /\ txs' = IF "txs" \in which THEN Swapped(txs, b, c) ELSE txs
          /\ proof' = IF "proof" \in which THEN Swapped(proof, b, c) ELSE proof
          /\ meta' = IF "meta" \in which THEN Swapped(meta, b, c) ELSE meta
    BY DEF Swap
  <1>2. \A f : DOMAIN f \subseteq Blocks =>
          /\ DOMAIN Swapped(f, b, c) \subseteq Blocks
          /\ \A x \in DOMAIN Swapped(f, b, c) : \E y \in DOMAIN f : Swapped(f, b, c)[x] = f[y]
    BY SwapFacts
  <1>3. /\ DOMAIN txs \subseteq Blocks /\ DOMAIN proof \subseteq Blocks
        /\ DOMAIN meta \subseteq Blocks
    BY DEF DirInv, Types
  <1>4. /\ DOMAIN txs' \subseteq Blocks
        /\ \A x \in DOMAIN txs' : \E y \in DOMAIN txs : txs'[x] = txs[y]
    BY <1>1, <1>2, <1>3
  <1>5. /\ DOMAIN meta' \subseteq Blocks
        /\ \A x \in DOMAIN meta' : \E y \in DOMAIN meta : meta'[x] = meta[y]
    BY <1>1, <1>2, <1>3
  <1>6. DOMAIN proof' \subseteq Blocks
    BY <1>1, <1>2, <1>3
  <1>7. Accident
    BY DEF Swap
  <1>8. QED
    BY <1>4, <1>5, <1>6, <1>7, AccidentOK

\* A truncated height.
LEMMA TruncateOK ==
    ASSUME DirInv, NEW b \in Blocks, Truncate(b)
    PROVE  DirInv'
  <1>1. /\ DOMAIN txs' \subseteq DOMAIN txs /\ DOMAIN proof' \subseteq DOMAIN proof
        /\ DOMAIN meta' \subseteq DOMAIN meta
        /\ \A x \in DOMAIN txs' : txs'[x] = txs[x]
        /\ \A x \in DOMAIN meta' : meta'[x] = meta[x]
    BY DEF Truncate, Torn
  <1>2. Accident
    BY DEF Truncate
  <1>3. QED
    BY <1>1, <1>2, AccidentOK DEF DirInv, Types

-----------------------------------------------------------------------------
\* A block whose comparisons succeed, with the right state before it, is right: its
\* commit.json is its own, so its transactions are the ones that file names.
LEMMA MatchIsRight ==
    ASSUME DirInv, NEW b \in Blocks, rstate = plan.state[b], BlockMatches(b)
    PROVE  Right(b)
  <1>1. Complete(b) /\ meta[b] = Meta(b, rstate, txs[b]) /\ proof[b] = Commit(rstate, txs[b])
    BY DEF BlockMatches
  <1>2. PICK c \in Blocks : meta[b] = Meta(c, plan.state[c], plan.txs[c])
    BY <1>1 DEF DirInv, FilesAt, Complete
  <1>3. b = c /\ hash_transactions(txs[b]) = hash_transactions(plan.txs[c])
    <2>1. Meta(b, rstate, txs[b]) = Meta(c, plan.state[c], plan.txs[c])
      BY <1>1, <1>2
    <2>2. /\ Meta(b, rstate, txs[b]).block_number = b
          /\ Meta(c, plan.state[c], plan.txs[c]).block_number = c
      BY DEF Meta
    <2>3. /\ Meta(b, rstate, txs[b]).commit.tx_hash = hash_transactions(txs[b])
          /\ Meta(c, plan.state[c], plan.txs[c]).commit.tx_hash = hash_transactions(plan.txs[c])
      BY DEF Meta, Commit
    <2>4. QED
      BY <2>1, <2>2, <2>3
  <1>4. PICK d \in Blocks : txs[b] = plan.txs[d]
    BY <1>1 DEF DirInv, FilesAt, Complete
  <1>5. txs[b] = plan.txs[b]
    BY <1>3, <1>4, HashAssumption DEF DirInv, Types
  <1>6. QED
    BY <1>1, <1>5 DEF Right

\* run-workload starts, or fails without a manifest.
LEMMA StartReplayOK ==
    ASSUME DirInv, StartReplay
    PROVE  DirInv'
  <1>1. /\ UNCHANGED << plan, pc, block_num, seed, state, txs, proof, meta, manifest, damage >>
        /\ verdict' = IF manifest THEN "running" ELSE "failed"
        /\ replayed' = 0 /\ rstate' = Genesis /\ Idle
    BY DEF StartReplay, genVars, files
  <1> USE BlockFacts DEF DirInv
  <1>2. Types'
    <2>1. verdict' \in {"none", "running", "ok", "failed"} /\ replayed' \in 0 .. NumBlocks
      BY <1>1
    <2>2. QED
      BY <1>1, <2>1 DEF Types
  <1>3. GeneratorAt' /\ FilesAt'
    BY <1>1 DEF GeneratorAt, FilesAt, Idle, Complete
  <1>4. ReplayAt'
    <2>1. plan' \in Plans /\ plan'.state[0] = Genesis
      BY <1>1, PlanAssumption DEF Types
    <2>2. rstate' = plan'.state[replayed'] /\ \A b \in 0 .. replayed' - 1 : Right(b)'
      BY <1>1, <2>1
    <2>3. verdict' \in {"running", "failed"} /\ replayed' < NumBlocks
      BY <1>1
    <2>4. QED
      BY <2>2, <2>3 DEF ReplayAt
  <1>5. FinishedReplays'
    BY <1>1 DEF FinishedReplays, GeneratorAt
  <1>6. QED
    BY <1>2, <1>3, <1>4, <1>5

\* run-workload accepts or refuses a block.
LEMMA ReplayBlockOK ==
    ASSUME DirInv, ReplayBlock
    PROVE  DirInv'
  <1>1. /\ UNCHANGED << plan, pc, block_num, seed, state, txs, proof, meta, manifest, damage >>
        /\ Idle /\ verdict = "running" /\ replayed < NumBlocks
    BY DEF ReplayBlock, genVars, files
  <1>2. replayed \in Blocks /\ rstate = plan.state[replayed] /\ plan \in Plans
    BY <1>1, BlockFacts DEF DirInv, Types, ReplayAt
  <1>3. CASE BlockMatches(replayed)
    <2>1. /\ rstate' = apply_block(rstate, txs[replayed]).state
          /\ replayed' = replayed + 1
          /\ verdict' = IF replayed + 1 = NumBlocks THEN "ok" ELSE "running"
      BY <1>3 DEF ReplayBlock
    <2>2. Right(replayed)
      BY <1>2, <1>3, MatchIsRight
    <2>3. rstate' = plan'.state[replayed']
      BY <1>1, <1>2, <2>1, <2>2, PlanAssumption DEF Right
    <2> USE BlockFacts DEF DirInv
    <2>4. Types'
      BY <1>1, <1>2, <2>1 DEF Types
    <2>5. GeneratorAt' /\ FilesAt'
      BY <1>1, <2>1 DEF GeneratorAt, FilesAt, Idle, Complete
    <2>6. \A b \in 0 .. replayed' - 1 : Right(b)'
      <3>1. \A b \in 0 .. replayed : Right(b)
        BY <1>1, <2>2 DEF ReplayAt, Types
      <3>2. \A b : Right(b)' <=> Right(b)
        BY <1>1 DEF Right, Complete
      <3>3. QED
        BY <2>1, <3>1, <3>2 DEF Types
    <2>7. ReplayAt'
      BY <1>1, <1>2, <2>1, <2>3, <2>6 DEF ReplayAt
    <2>8. FinishedReplays'
      BY <2>1 DEF FinishedReplays
    <2>9. QED
      BY <2>4, <2>5, <2>7, <2>8
  <1>4. CASE ~BlockMatches(replayed)
    <2>1. verdict' = "failed" /\ UNCHANGED << replayed, rstate >>
      BY <1>4 DEF ReplayBlock
    <2>2. ~(pc = "done" /\ damage = 0)
      BY <1>2, <1>4, BlockFacts
         DEF DirInv, GeneratorAt, FilesAt, Complete, BlockMatches, Idle
    <2> USE DEF DirInv
    <2>3. Types'
      BY <1>1, <2>1 DEF Types
    <2>4. GeneratorAt' /\ FilesAt'
      BY <1>1, <2>1 DEF GeneratorAt, FilesAt, Idle, Complete
    <2>5. ReplayAt' /\ FinishedReplays'
      BY <1>1, <2>1, <2>2 DEF ReplayAt, FinishedReplays
    <2>6. QED
      BY <2>3, <2>4, <2>5
  <1>5. QED
    BY <1>3, <1>4

-----------------------------------------------------------------------------
\* The invariant of the directory.
LEMMA DirInvariant == DirSpec => []DirInv
  <1>1. DirInv /\ [DirNext]_dirVars => DirInv'
    <2> SUFFICES ASSUME DirInv, [DirNext]_dirVars PROVE DirInv'
      OBVIOUS
    <2>1. CASE UNCHANGED dirVars
      BY <2>1 DEF dirVars, genVars, files, replayVars, DirInv, Types,
                  GeneratorAt, FilesAt, ReplayAt, FinishedReplays, Idle, Complete, Right
    <2>2. CASE Generate
      BY <2>2, StartOK, BeginOK, WriteTxsOK, WriteProofOK, WriteMetaOK, WriteManifestOK,
         CrashOK DEF Generate
    <2>3. CASE \E b, c \in Blocks : b < c /\ Swap(b, c)
      BY <2>3, SwapOK
    <2>4. CASE \E b \in Blocks : Truncate(b)
      BY <2>4, TruncateOK
    <2>5. CASE StartReplay \/ ReplayBlock
      BY <2>5, StartReplayOK, ReplayBlockOK
    <2>6. QED
      BY <2>1, <2>2, <2>3, <2>4, <2>5 DEF DirNext
  <1>2. QED
    BY DirInitOK, <1>1, PTL DEF DirSpec

\* For every number of blocks and runs: a directory the generator has finished
\* replays without a mismatch (network.rs resumes by drawing and applying the blocks
\* it skips).
THEOREM ResumedIsReplayable == DirSpec => []FinishedReplays
  BY DirInvariant, PTL DEF DirInv

\* For every number of blocks and accidents: run-workload accepts only the files of
\* an undisturbed generation.
THEOREM ReplayIsSound == DirSpec => []AcceptedIsIntact
  <1>1. DirInv => AcceptedIsIntact
    BY BlockFacts DEF DirInv, ReplayAt, Right, AcceptedIsIntact
  <1>2. QED
    BY DirInvariant, <1>1, PTL

-----------------------------------------------------------------------------
\* Neither the generator nor run-workload ever holds a ledger state that is not
\* one of the plan's.
StatesPlanned ==
    /\ \E k \in 0 .. NumBlocks : state = plan.state[k]
    /\ \E k \in 0 .. NumBlocks : rstate = plan.state[k]

\* So it is for every generation and every replay.
LEMMA StatesPlannedOK == DirSpec => []StatesPlanned
  <1>1. DirInit => StatesPlanned
    BY BlockFacts, PlanAssumption DEF DirInit, StatesPlanned
  <1>2. ASSUME DirInv, DirInv', StatesPlanned, [DirNext]_dirVars
        PROVE  StatesPlanned'
    <2>1. plan' = plan /\ plan \in Plans
      BY <1>2 DEF DirNext, Generate, Start, Begin, WriteTxs, WriteProof, WriteMeta,
                  WriteManifest, Crash, Swap, Truncate, Accident, StartReplay, ReplayBlock,
                  dirVars, DirInv, Types
    <2>2. \E k \in 0 .. NumBlocks : state' = plan.state[k]
      <3>1. CASE Begin
        BY <1>2, <3>1 DEF Begin, DirInv, Types
      <3>2. CASE WriteMeta
        <4>1. /\ block_num \in Blocks /\ state = plan.state[block_num]
              /\ seed - 1 = block_num
          BY <1>2, <3>2, BlockFacts DEF WriteMeta, DirInv, GeneratorAt
        <4>2. state' = plan.state[block_num + 1]
          BY <2>1, <3>2, <4>1, PlanAssumption DEF WriteMeta, Drawn
        <4>3. QED
          BY <4>1, <4>2, BlockFacts
      <3>3. CASE ~Begin /\ ~WriteMeta
        <4>1. state' = state
          BY <1>2, <3>3 DEF DirNext, Generate, Start, WriteTxs, WriteProof, WriteManifest,
                  Crash, Swap, Truncate, Accident, StartReplay, ReplayBlock, dirVars, genVars
        <4>2. QED
          BY <1>2, <4>1 DEF StatesPlanned
      <3>4. QED
        BY <3>1, <3>2, <3>3
    <2>3. \E k \in 0 .. NumBlocks : rstate' = plan.state[k]
      <3>1. CASE StartReplay
        BY <2>1, <3>1, BlockFacts, PlanAssumption DEF StartReplay
      <3>2. CASE ReplayBlock
        <4>1. CASE verdict' \in {"running", "ok"}
          BY <1>2, <2>1, <4>1 DEF DirInv, ReplayAt, Types
        <4>2. CASE verdict' \notin {"running", "ok"}
          <5>1. rstate' = rstate
            BY <3>2, <4>2 DEF ReplayBlock
          <5>2. QED
            BY <1>2, <5>1 DEF StatesPlanned
        <4>3. QED
          BY <4>1, <4>2
      <3>3. CASE ~StartReplay /\ ~ReplayBlock
        <4>1. rstate' = rstate
          BY <1>2, <3>3 DEF DirNext, Generate, Start, Begin, WriteTxs, WriteProof, WriteMeta,
                  WriteManifest, Crash, Swap, Truncate, Accident, dirVars, replayVars
        <4>2. QED
          BY <1>2, <4>1 DEF StatesPlanned
      <3>4. QED
        BY <3>1, <3>2, <3>3
    <2>4. QED
      BY <2>1, <2>2, <2>3 DEF StatesPlanned
  <1>3. QED
    BY <1>1, <1>2, DirInvariant, PTL DEF DirSpec

-----------------------------------------------------------------------------
\* A nonempty set of naturals has a least element.
LEMMA LeastNat ==
    ASSUME NEW S, S \subseteq Nat, S # {}
    PROVE  \E x \in S : \A y \in S : x <= y
<1>. DEFINE R == OpToRel(<, Nat)
<1>1. IsWellFoundedOn(R, Nat)
  BY NatLessThanWellFounded
<1>2. \A x, y \in Nat : << y, x >> \in R <=> y < x
  BY DEF R, OpToRel
<1>. HIDE DEF R
<1>3. PICK x \in S : \A y \in S : ~(<< y, x >> \in R)
  BY <1>1, WFMin
<1>4. ASSUME NEW y \in S PROVE x <= y
  <2>1. x \in Nat /\ y \in Nat
    OBVIOUS
  <2>2. ~(y < x)
    BY <1>2, <1>3, <2>1
  <2>. QED  BY <2>1, <2>2
<1>. QED  BY <1>4

\* Induction: a set of naturals with 0, and with k + 1 for every k in it, is Nat.
LEMMA Induction ==
    ASSUME NEW S, 0 \in S, \A k \in Nat : k \in S => k + 1 \in S
    PROVE  Nat \subseteq S
  <1> SUFFICES ASSUME Nat \ S # {} PROVE FALSE
    OBVIOUS
  <1>1. PICK x \in Nat \ S : \A y \in Nat \ S : x <= y
    BY LeastNat
  <1>2. x # 0 /\ x - 1 \in Nat /\ (x - 1) + 1 = x
    BY <1>1
  <1>3. x - 1 \in S
    BY <1>1, <1>2
  <1>4. QED
    BY <1>1, <1>2, <1>3

-----------------------------------------------------------------------------
\* pow2 is what its defining equation says.
LEMMA Pow2 ==
    /\ pow2[0] = 1
    /\ \A k \in Nat : pow2[k] \in Nat \ {0} /\ pow2[k + 1] = 2 * pow2[k]
  <1> DEFINE Is(g, n) == /\ g \in [0 .. n -> Nat \ {0}] /\ g[0] = 1
                         /\ \A k \in 0 .. n - 1 : g[k + 1] = 2 * g[k]
             E == {n \in Nat : \E g : Is(g, n)}
             U == {n \in Nat : \A m \in Nat : \A g, h :
                        Is(g, n) /\ Is(h, m) /\ n <= m => g[n] = h[n]}
             p == [n \in Nat |-> (CHOOSE g : Is(g, n))[n]]
  <1>1. Nat \subseteq E
    <2>1. Is([k \in 0 .. 0 |-> 1], 0)
      OBVIOUS
    <2>2. ASSUME NEW n \in Nat, NEW g, Is(g, n) PROVE \E h : Is(h, n + 1)
      <3> DEFINE h == [k \in 0 .. n + 1 |-> IF k = n + 1 THEN 2 * g[n] ELSE g[k]]
      <3>1. h \in [0 .. n + 1 -> Nat \ {0}] /\ h[0] = 1
        BY <2>2
      <3>2. \A k \in 0 .. n : h[k + 1] = 2 * h[k]
        BY <2>2
      <3> HIDE DEF h
      <3>3. QED
        BY <3>1, <3>2
    <2>3. 0 \in E /\ \A n \in Nat : n \in E => n + 1 \in E
      <3> HIDE DEF Is
      <3>1. QED
        BY <2>1, <2>2
    <2> HIDE DEF E
    <2>4. QED
      BY <2>3, Induction
  <1>2. Nat \subseteq U
    <2>1. 0 \in U
      OBVIOUS
    <2>2. ASSUME NEW n \in Nat, n \in U,
                 NEW m \in Nat, NEW g, NEW h, Is(g, n + 1), Is(h, m), n + 1 <= m
          PROVE  g[n + 1] = h[n + 1]
      <3> DEFINE f == [k \in 0 .. n |-> g[k]]
      <3>1. Is(f, n) /\ f[n] = g[n] /\ n <= m
        BY <2>2
      <3>2. f[n] = h[n]
        <4> HIDE DEF Is, f
        <4>1. QED
          BY <3>1, <2>2
      <3> HIDE DEF f
      <3>3. g[n + 1] = 2 * g[n] /\ h[n + 1] = 2 * h[n]
        BY <2>2
      <3>4. QED
        BY <3>1, <3>2, <3>3
    <2>3. \A n \in Nat : n \in U => n + 1 \in U
      <3> HIDE DEF Is
      <3>1. QED
        BY <2>2
    <2> HIDE DEF U
    <2>4. QED
      BY <2>1, <2>3, Induction
  <1>3. ASSUME NEW n \in Nat
        PROVE  p[n] \in Nat \ {0} /\ p[n + 1] = 2 * p[n] /\ (n = 0 => p[n] = 1)
    <2> DEFINE g == CHOOSE g : Is(g, n)
               h == CHOOSE h : Is(h, n + 1)
    <2>1. Is(g, n) /\ Is(h, n + 1)
      <3>1. n \in E /\ n + 1 \in E
        <4> HIDE DEF E
        <4>1. QED
          BY <1>1
      <3> HIDE DEF Is
      <3>2. (\E x : Is(x, n)) /\ (\E x : Is(x, n + 1))
        BY <3>1
      <3>3. QED
        BY <3>2
    <2>2. p[n] = g[n] /\ p[n + 1] = h[n + 1]
      <3> HIDE DEF Is
      <3>1. QED
        OBVIOUS
    <2> HIDE DEF p, g, h
    <2>3. g[n] = h[n]
      <3>1. n \in U /\ n + 1 \in Nat /\ n <= n + 1
        <4> HIDE DEF U
        <4>1. QED
          BY <1>2
      <3> HIDE DEF Is
      <3>2. QED
        BY <2>1, <3>1
    <2>4. QED
      BY <2>1, <2>2, <2>3
  <1>4. p = [k \in Nat |-> IF k = 0 THEN 1 ELSE 2 * p[k - 1]]
    <2>1. p = [n \in Nat |-> p[n]]
      OBVIOUS
    <2> HIDE DEF p
    <2>2. ASSUME NEW k \in Nat PROVE p[k] = IF k = 0 THEN 1 ELSE 2 * p[k - 1]
      <3>1. CASE k = 0
        BY <1>3, <3>1
      <3>2. CASE k # 0
        <4>1. k - 1 \in Nat /\ (k - 1) + 1 = k
          BY <3>2
        <4>2. QED
          BY <1>3, <3>2, <4>1
      <3>3. QED
        BY <3>1, <3>2
    <2>3. QED
      BY <2>1, <2>2
  <1> HIDE DEF p
  <1>5. pow2 = [k \in Nat |-> IF k = 0 THEN 1 ELSE 2 * pow2[k - 1]]
    BY <1>4 DEF pow2
  <1> DEFINE Q == {k \in Nat : pow2[k] \in Nat \ {0}}
  <1>6. pow2[0] = 1 /\ \A k \in Nat : pow2[k + 1] = 2 * pow2[k]
    <2>1. pow2[0] = 1
      BY <1>5
    <2>2. ASSUME NEW k \in Nat PROVE pow2[k + 1] = 2 * pow2[k]
      <3>1. k + 1 \in Nat /\ k + 1 # 0 /\ (k + 1) - 1 = k
        OBVIOUS
      <3>2. QED
        BY <1>5, <3>1
    <2>3. QED
      BY <2>1, <2>2
  <1>7. Nat \subseteq Q
    <2>1. 0 \in Q /\ \A k \in Nat : k \in Q => k + 1 \in Q
      BY <1>6
    <2> HIDE DEF Q
    <2>2. QED
      BY <2>1, Induction
  <1>8. QED
    BY <1>6, <1>7

-----------------------------------------------------------------------------
\* f starts at base and takes the steps 1 .. K
Iterates(f, K, T, base, step) ==
    /\ f \in [0 .. K -> T] /\ f[0] = base
    /\ \A k \in 1 .. K : f[k] = step[k][f[k - 1]]

\* A function defined step by step exists.
LEMMA Recursion ==
    ASSUME NEW K \in Nat, NEW T, NEW base \in T, NEW step \in [1 .. K -> [T -> T]]
    PROVE  \E f : Iterates(f, K, T, base, step)
  <1> DEFINE Is(f, n) == /\ f \in [0 .. n -> T] /\ f[0] = base
                         /\ \A k \in 1 .. n : f[k] = step[k][f[k - 1]]
             E == {n \in Nat : n <= K => \E f : Is(f, n)}
  <1>1. Is([k \in 0 .. 0 |-> base], 0)
    OBVIOUS
  <1>2. ASSUME NEW n \in Nat, n + 1 <= K, NEW f, Is(f, n) PROVE \E g : Is(g, n + 1)
    <2> DEFINE g == [k \in 0 .. n + 1 |-> IF k = n + 1 THEN step[n + 1][f[n]] ELSE f[k]]
    <2>1. step[n + 1][f[n]] \in T
      BY <1>2
    <2>2. g \in [0 .. n + 1 -> T] /\ g[0] = base
      BY <1>2, <2>1
    <2>3. ASSUME NEW k \in 1 .. n + 1 PROVE g[k] = step[k][g[k - 1]]
      <3>1. CASE k = n + 1
        BY <1>2, <3>1
      <3>2. CASE k # n + 1
        <4>1. k \in 1 .. n /\ k - 1 \in 0 .. n /\ k \in 0 .. n + 1 /\ k - 1 # n + 1
          BY <3>2
        <4>2. QED
          BY <1>2, <4>1
      <3>3. QED
        BY <3>1, <3>2
    <2> HIDE DEF g
    <2>4. QED
      BY <2>2, <2>3
  <1>3. 0 \in E /\ \A n \in Nat : n \in E => n + 1 \in E
    <2> HIDE DEF Is
    <2>1. QED
      BY <1>1, <1>2
  <1>4. K \in E
    <2> HIDE DEF E
    <2>1. QED
      BY <1>3, Induction
  <1>5. PICK f : Is(f, K)
    <2> HIDE DEF Is
    <2>1. QED
      BY <1>4
  <1>6. QED
    BY <1>5 DEF Iterates

\* The accounts are 0 .. NumAccounts - 1.
LEMMA AccountFacts ==
    /\ NumAccounts \in Nat /\ NumAccounts > 1
    /\ Accounts = 0 .. NumAccounts - 1
  BY LedgerAssumption DEF Accounts

\* compute_state_root's leaves: there are NumAccounts accounts.
LEMMA AccountsSize == Cardinality(Accounts) = NumAccounts
  BY AccountFacts, FS_Interval

\* Supply adds up the balances, account by account.
LEMMA SupplyIsSum ==
    ASSUME NEW s \in [Accounts -> Int]
    PROVE  \E f \in [0 .. NumAccounts -> Int] :
              /\ f[0] = 0 /\ \A k \in 0 .. NumAccounts - 1 : f[k + 1] = f[k] + s[k]
              /\ Supply(s) = f[NumAccounts]
  <1> USE AccountFacts
  <1> DEFINE step == [k \in 1 .. NumAccounts |-> [x \in Int |-> x + s[k - 1]]]
             D(f) == f = [k \in 0 .. NumAccounts |->
                            IF k = 0 THEN 0 ELSE f[k - 1] + get_balance(s, k - 1)]
  <1>1. step \in [1 .. NumAccounts -> [Int -> Int]]
    OBVIOUS
  <1>2. PICK g : Iterates(g, NumAccounts, Int, 0, step)
    <2> HIDE DEF step
    <2>1. NumAccounts \in Nat /\ 0 \in Int
      OBVIOUS
    <2>2. QED
      BY <1>1, <2>1, Recursion, Zenon
  <1>3. \A k \in 1 .. NumAccounts : get_balance(s, k - 1) = s[k - 1] /\ s[k - 1] \in Int
    BY DEF get_balance
  <1>4. ASSUME NEW k \in 1 .. NumAccounts
        PROVE  g[k] = g[k - 1] + get_balance(s, k - 1)
    <2>1. k - 1 \in 0 .. NumAccounts
      OBVIOUS
    <2>2. g[k - 1] \in Int /\ g[k] = step[k][g[k - 1]]
      BY <1>2, <2>1 DEF Iterates
    <2>3. step[k][g[k - 1]] = g[k - 1] + s[k - 1]
      BY <2>2
    <2>4. QED
      BY <1>3, <2>2, <2>3
  <1>5. D(g)
    BY <1>2, <1>4 DEF Iterates
  <1>6. PICK f : D(f) /\ Supply(s) = f[NumAccounts]
    BY <1>5 DEF Supply
  <1>7. f[0] = 0 /\ \A k \in 1 .. NumAccounts : f[k] = f[k - 1] + s[k - 1]
    BY <1>3, <1>6
  <1>8. \A k \in 0 .. NumAccounts - 1 : f[k + 1] = f[k] + s[k]
    BY <1>7
  <1> DEFINE Q == {k \in Nat : k <= NumAccounts => f[k] \in Int}
  <1>9. Nat \subseteq Q
    <2>1. 0 \in Q
      BY <1>7
    <2>2. ASSUME NEW k \in Nat, k \in Q PROVE k + 1 \in Q
      <3>1. CASE k + 1 <= NumAccounts
        <4>1. k \in 0 .. NumAccounts - 1 /\ k <= NumAccounts
          BY <3>1
        <4>2. s[k] \in Int /\ f[k] \in Int
          BY <2>2, <4>1
        <4>3. f[k + 1] = f[k] + s[k]
          BY <1>8, <4>1
        <4>4. QED
          BY <4>2, <4>3
      <3>2. QED
        BY <3>1
    <2> HIDE DEF Q
    <2>3. QED
      BY <2>1, <2>2, Induction
  <1>10. f \in [0 .. NumAccounts -> Int]
    <2>1. f = [k \in 0 .. NumAccounts |-> f[k]]
      BY <1>6
    <2>2. \A k \in 0 .. NumAccounts : f[k] \in Int
      BY <1>9
    <2>3. QED
      BY <2>1, <2>2
  <1>11. QED
    BY <1>6, <1>7, <1>8, <1>10

\* Changing one balance changes the supply by the difference.
LEMMA SupplyOfChange ==
    ASSUME NEW s \in [Accounts -> Int], NEW a \in Accounts, NEW x \in Int
    PROVE  Supply([s EXCEPT ![a] = x]) = Supply(s) - s[a] + x
  <1> USE AccountFacts
  <1> DEFINE t == [s EXCEPT ![a] = x]
  <1>1. t \in [Accounts -> Int] /\ t[a] = x /\ \A b \in Accounts \ {a} : t[b] = s[b]
    OBVIOUS
  <1> HIDE DEF t
  <1>2. PICK f \in [0 .. NumAccounts -> Int] :
           /\ f[0] = 0 /\ \A k \in 0 .. NumAccounts - 1 : f[k + 1] = f[k] + s[k]
           /\ Supply(s) = f[NumAccounts]
    BY SupplyIsSum
  <1>3. PICK g \in [0 .. NumAccounts -> Int] :
           /\ g[0] = 0 /\ \A k \in 0 .. NumAccounts - 1 : g[k + 1] = g[k] + t[k]
           /\ Supply(t) = g[NumAccounts]
    BY <1>1, SupplyIsSum
  <1> DEFINE Q == {k \in Nat : k <= NumAccounts =>
                      g[k] = IF a < k THEN f[k] - s[a] + x ELSE f[k]}
  <1>4. 0 \in Q
    BY <1>2, <1>3
  <1>5. ASSUME NEW k \in Nat, k \in Q PROVE k + 1 \in Q
    <2>1. CASE k + 1 <= NumAccounts
      <3>1. k \in 0 .. NumAccounts - 1 /\ k \in Accounts /\ k \in 0 .. NumAccounts
        BY <2>1
      <3>2. f[k] \in Int /\ g[k] \in Int /\ s[k] \in Int /\ t[k] \in Int /\ s[a] \in Int
        BY <1>1, <3>1
      <3>3. f[k + 1] = f[k] + s[k] /\ g[k + 1] = g[k] + t[k]
        BY <1>2, <1>3, <3>1
      <3>4. g[k] = IF a < k THEN f[k] - s[a] + x ELSE f[k]
        BY <1>5, <3>1
      <3>5. t[k] = IF k = a THEN x ELSE s[k]
        BY <1>1, <3>1
      <3>6. g[k + 1] = IF a < k + 1 THEN f[k + 1] - s[a] + x ELSE f[k + 1]
        <4>1. PICK fk \in Int, gk \in Int, sk \in Int, tk \in Int, sa \in Int :
                 fk = f[k] /\ gk = g[k] /\ sk = s[k] /\ tk = t[k] /\ sa = s[a]
          BY <3>2
        <4>2. /\ gk = IF a < k THEN fk - sa + x ELSE fk
              /\ tk = IF k = a THEN x ELSE sk
              /\ k = a => sk = sa
              /\ a \in Int
          BY <3>4, <3>5, <4>1
        <4>3. gk + tk = IF a < k + 1 THEN (fk + sk) - sa + x ELSE fk + sk
          BY ONLY <4>2, fk \in Int, sk \in Int, sa \in Int, x \in Int, k \in Nat
        <4>4. QED
          BY <3>3, <4>1, <4>3
      <3>7. QED
        BY <3>6
    <2>2. QED
      BY <2>1
  <1>6. NumAccounts \in Q
    <2> HIDE DEF Q
    <2>1. QED
      BY <1>4, <1>5, Induction
  <1>7. g[NumAccounts] = f[NumAccounts] - s[a] + x
    BY <1>6
  <1>8. QED
    BY <1>2, <1>3, <1>7 DEF t

\* A sum of natural balances is natural.
LEMMA SupplyIsNat ==
    ASSUME NEW s \in [Accounts -> Nat]
    PROVE  Supply(s) \in Nat
  <1> USE AccountFacts
  <1>1. s \in [Accounts -> Int]
    OBVIOUS
  <1>2. PICK f \in [0 .. NumAccounts -> Int] :
           /\ f[0] = 0 /\ \A k \in 0 .. NumAccounts - 1 : f[k + 1] = f[k] + s[k]
           /\ Supply(s) = f[NumAccounts]
    BY <1>1, SupplyIsSum
  <1> DEFINE Q == {k \in Nat : k <= NumAccounts => f[k] >= 0}
  <1>3. 0 \in Q
    BY <1>2
  <1>4. ASSUME NEW k \in Nat, k \in Q PROVE k + 1 \in Q
    <2>1. CASE k + 1 <= NumAccounts
      <3>1. k \in 0 .. NumAccounts - 1 /\ k \in Accounts /\ k \in 0 .. NumAccounts
        BY <2>1
      <3>2. f[k] \in Int /\ s[k] \in Nat
        BY <3>1
      <3>5. f[k] >= 0
        BY <1>4, <3>1
      <3>3. f[k + 1] = f[k] + s[k]
        BY <1>2, <3>1
      <3>4. QED
        BY <3>2, <3>3, <3>5
    <2>2. QED
      BY <2>1
  <1>5. NumAccounts \in Q
    <2> HIDE DEF Q
    <2>1. QED
      BY <1>3, <1>4, Induction
  <1>6. QED
    BY <1>2, <1>5

\* generate_initial_state gives every account the initial balance.
LEMMA InitialSupply == Supply(generate_initial_state) = NumAccounts * InitialBalance
  <1> USE AccountFacts
  <1> DEFINE s == generate_initial_state
  <1>1. InitialBalance \in Nat
    BY LedgerAssumption, Pow2
  <1>2. s \in [Accounts -> Int] /\ \A k \in 0 .. NumAccounts - 1 : s[k] = InitialBalance
    BY <1>1 DEF generate_initial_state
  <1> HIDE DEF s
  <1>3. PICK f \in [0 .. NumAccounts -> Int] :
           /\ f[0] = 0 /\ \A k \in 0 .. NumAccounts - 1 : f[k + 1] = f[k] + s[k]
           /\ Supply(s) = f[NumAccounts]
    BY <1>2, SupplyIsSum
  <1> DEFINE Q == {k \in Nat : k <= NumAccounts => f[k] = k * InitialBalance}
  <1>4. 0 \in Q
    BY <1>1, <1>3
  <1>5. ASSUME NEW k \in Nat, k \in Q PROVE k + 1 \in Q
    <2>1. CASE k + 1 <= NumAccounts
      <3>1. k \in 0 .. NumAccounts - 1
        BY <2>1
      <3>2. f[k] = k * InitialBalance
        BY <1>5, <3>1
      <3>3. f[k + 1] = f[k] + InitialBalance
        BY <1>2, <1>3, <3>1
      <3>4. k * InitialBalance + InitialBalance = (k + 1) * InitialBalance
        BY <1>1
      <3>5. QED
        BY <3>2, <3>3, <3>4
    <2>2. QED
      BY <2>1
  <1>6. NumAccounts \in Q
    <2> HIDE DEF Q
    <2>1. QED
      BY <1>4, <1>5, Induction
  <1>7. QED
    BY <1>3, <1>6 DEF s

-----------------------------------------------------------------------------
\* the ledger states with the initial supply
Funded == {s \in [Accounts -> Nat] : Supply(s) = NumAccounts * InitialBalance}

\* the initial supply fits a balance
SupplyFits == NumAccounts * InitialBalance < pow2[W]

\* A value below the width does not wrap.
LEMMA Modulo ==
    ASSUME NEW m \in Nat \ {0}, NEW x \in Nat
    PROVE  x % m \in Nat /\ (x < m => x % m = x)
  OBVIOUS

\* Storing a balance that does not wrap.
LEMMA SetBalance ==
    ASSUME NEW s \in [Accounts -> Nat], NEW a \in Accounts, NEW x \in Nat, x < pow2[W]
    PROVE  set_balance(s, a, x) = [s EXCEPT ![a] = x]
  <1>1. x % pow2[W] = x
    BY Modulo, Pow2, LedgerAssumption
  <1>2. DOMAIN s \cup {a} = DOMAIN s
    OBVIOUS
  <1>3. QED
    BY <1>1, <1>2 DEF set_balance

\* Two balances together are at most the supply.
LEMMA TwoBalances ==
    ASSUME NEW s \in [Accounts -> Nat], NEW a \in Accounts, NEW b \in Accounts, a # b
    PROVE  s[a] + s[b] <= Supply(s)
  <1> DEFINE t == [s EXCEPT ![a] = 0]
             u == [t EXCEPT ![b] = 0]
  <1>1. t \in [Accounts -> Nat] /\ t[b] = s[b] /\ u \in [Accounts -> Nat]
    OBVIOUS
  <1>2. s \in [Accounts -> Int] /\ t \in [Accounts -> Int] /\ s[a] \in Nat /\ s[b] \in Nat
    BY <1>1
  <1>3. Supply(t) = Supply(s) - s[a] + 0
    BY <1>2, SupplyOfChange
  <1>4. Supply(u) = Supply(t) - t[b] + 0
    <2> HIDE DEF t
    <2>1. 0 \in Int
      OBVIOUS
    <2>2. QED
      BY <1>2, <2>1, SupplyOfChange, Zenon
  <1>5. Supply(s) \in Nat /\ Supply(u) \in Nat
    BY <1>1, SupplyIsNat
  <1> HIDE DEF t, u
  <1>6. QED
    BY <1>1, <1>2, <1>3, <1>4, <1>5

\* An accepted transfer wraps no balance and keeps the supply.
LEMMA TransferConserves ==
    ASSUME NEW s \in Funded, SupplyFits, NEW tx \in Txs, Accepts(s, tx)
    PROVE  Transfer(s, tx) \in Funded
  <1> DEFINE a == tx.from
             b == tx.to
             x == tx.amount
  <1>1. a \in Accounts /\ b \in Accounts /\ a # b /\ x \in Nat
    BY DEF Txs
  <1>2. s \in [Accounts -> Nat] /\ Supply(s) < pow2[W] /\ s[a] \in Nat /\ s[b] \in Nat
    BY <1>1 DEF Funded, SupplyFits
  <1>3. x <= s[a]
    BY <1>1, <1>2 DEF Accepts, get_balance
  <1>4. pow2[W] \in Nat /\ Supply(s) \in Nat
    BY <1>2, Pow2, LedgerAssumption, SupplyIsNat
  <1>5. s[a] + s[b] <= Supply(s)
    BY <1>1, <1>2, TwoBalances
  <1> DEFINE d == [s EXCEPT ![a] = s[a] - x]
             e == [d EXCEPT ![b] = s[b] + x]
  <1>6. d \in [Accounts -> Nat] /\ d[b] = s[b] /\ e \in [Accounts -> Nat]
    BY <1>1, <1>2, <1>3
  <1>7. s[a] - x \in Nat /\ s[a] - x < pow2[W] /\ s[b] + x \in Nat /\ s[b] + x < pow2[W]
    BY <1>1, <1>2, <1>3, <1>4, <1>5
  <1>8. Transfer(s, tx) = e
    <2>1. set_balance(s, a, get_balance(s, a) - x) = d
      <3>1. get_balance(s, a) = s[a]
        BY <1>1, <1>2 DEF get_balance
      <3>2. QED
        BY <3>1, <1>1, <1>2, <1>7, SetBalance
    <2>2. set_balance(d, b, get_balance(d, b) + x) = e
      <3>1. get_balance(d, b) = s[b]
        BY <1>1, <1>6 DEF get_balance
      <3> HIDE DEF d, a, b, x
      <3>2. set_balance(d, b, s[b] + x) = [d EXCEPT ![b] = s[b] + x]
        BY <1>1, <1>6, <1>7, SetBalance
      <3>3. QED
        BY <3>1, <3>2
    <2> HIDE DEF d, e
    <2>3. QED
      BY <2>1, <2>2 DEF Transfer
  <1>9. Supply(d) = Supply(s) - s[a] + (s[a] - x)
    <2>1. s \in [Accounts -> Int] /\ s[a] - x \in Int
      BY <1>2, <1>7
    <2>2. QED
      BY <2>1, <1>1, SupplyOfChange
  <1>10. Supply(e) = Supply(d) - d[b] + (s[b] + x)
    <2>1. d \in [Accounts -> Int] /\ s[b] + x \in Int
      BY <1>6, <1>7
    <2> HIDE DEF d
    <2>2. QED
      BY <2>1, <1>1, SupplyOfChange
  <1> HIDE DEF d, e
  <1>11. Supply(e) = Supply(s)
    BY <1>1, <1>2, <1>4, <1>6, <1>9, <1>10
  <1>12. QED
    BY <1>6, <1>8, <1>11 DEF Funded

\* What every accepted transfer keeps, a block keeps.
LEMMA ApplyBlockKeeps ==
    ASSUME NEW F, NEW s \in F, NEW ts \in Seq(Txs),
           \A x \in F : \A tx \in Txs : Accepts(x, tx) => Transfer(x, tx) \in F
    PROVE  ApplyBlock(s, ts).state \in F
  <1> DEFINE T == [state : F, applied : Nat]
             Go(x, k) == IF Accepts(x.state, ts[k])
                         THEN [state |-> Transfer(x.state, ts[k]), applied |-> x.applied + 1]
                         ELSE x
             step == [k \in 1 .. Len(ts) |-> [x \in T |-> Go(x, k)]]
             base == [state |-> s, applied |-> 0]
             D(f) == f = [k \in 0 .. Len(ts) |-> IF k = 0 THEN base ELSE Go(f[k - 1], k)]
  <1>1. base \in T /\ Len(ts) \in Nat
    OBVIOUS
  <1>2. ASSUME NEW k \in 1 .. Len(ts), NEW x \in T PROVE Go(x, k) \in T
    <2>1. x.state \in F /\ x.applied \in Nat /\ ts[k] \in Txs
      OBVIOUS
    <2>2. Accepts(x.state, ts[k]) => Transfer(x.state, ts[k]) \in F
      BY <2>1
    <2>3. QED
      BY <2>1, <2>2
  <1>3. step \in [1 .. Len(ts) -> [T -> T]]
    <2> HIDE DEF T, Go
    <2>1. QED
      BY <1>2
  <1>4. PICK g : Iterates(g, Len(ts), T, base, step)
    <2> HIDE DEF T, step, base
    <2>1. QED
      BY <1>1, <1>3, Recursion, Zenon
  <1>5. D(g)
    <2> HIDE DEF T, Go, base
    <2>1. ASSUME NEW k \in 1 .. Len(ts) PROVE g[k] = Go(g[k - 1], k)
      <3>1. k - 1 \in 0 .. Len(ts)
        OBVIOUS
      <3>2. g[k - 1] \in T /\ g[k] = step[k][g[k - 1]]
        BY <1>4, <3>1 DEF Iterates
      <3>3. QED
        BY <3>2
    <2>2. QED
      BY <1>4, <2>1 DEF Iterates
  <1>6. PICK f : D(f) /\ ApplyBlock(s, ts) = f[Len(ts)]
    BY <1>5 DEF ApplyBlock
  <1> DEFINE Q == {k \in Nat : k <= Len(ts) => f[k] \in T}
  <1>7. Nat \subseteq Q
    <2> HIDE DEF T, Go, base
    <2>1. 0 \in Q
      BY <1>1, <1>6
    <2>2. ASSUME NEW k \in Nat, k \in Q PROVE k + 1 \in Q
      <3>1. CASE k + 1 <= Len(ts)
        <4>1. k + 1 \in 1 .. Len(ts) /\ (k + 1) - 1 = k /\ f[k] \in T
          BY <2>2, <3>1, <1>1
        <4>2. f[k + 1] = Go(f[k], k + 1)
          BY <1>6, <4>1
        <4>3. QED
          BY <1>2, <4>1, <4>2
      <3>2. QED
        BY <3>1
    <2> HIDE DEF Q
    <2>3. QED
      BY <2>1, <2>2, Induction
  <1>8. f[Len(ts)] \in T
    BY <1>1, <1>7
  <1>9. QED
    BY <1>6, <1>8

\* A block of transactions keeps the supply.
LEMMA ApplyBlockConserves ==
    ASSUME NEW s \in Funded, SupplyFits, NEW ts \in Seq(Txs)
    PROVE  ApplyBlock(s, ts).state \in Funded
  <1>1. \A x \in Funded : \A tx \in Txs : Accepts(x, tx) => Transfer(x, tx) \in Funded
    BY TransferConserves
  <1>2. QED
    BY <1>1, ApplyBlockKeeps

\* A block of transactions keeps the balances natural, wrapping or not.
LEMMA ApplyBlockTyped ==
    ASSUME NEW s \in [Accounts -> Nat], NEW ts \in Seq(Txs)
    PROVE  ApplyBlock(s, ts).state \in [Accounts -> Nat]
  <1> DEFINE F == [Accounts -> Nat]
  <1>1. ASSUME NEW x \in F, NEW a \in Accounts, NEW v \in Nat
        PROVE  set_balance(x, a, v) \in F
    <2>1. v % pow2[W] \in Nat
      BY Modulo, Pow2, LedgerAssumption
    <2>2. DOMAIN x \cup {a} = Accounts
      OBVIOUS
    <2>3. QED
      BY <2>1, <2>2 DEF set_balance
  <1>2. \A x \in F : \A a \in Accounts : get_balance(x, a) \in Nat
    BY DEF get_balance
  <1>3. ASSUME NEW x \in F, NEW tx \in Txs, Accepts(x, tx) PROVE Transfer(x, tx) \in F
    <2> HIDE DEF F
    <2>1. tx.from \in Accounts /\ tx.to \in Accounts /\ tx.amount \in Nat
      BY DEF Txs
    <2>2. get_balance(x, tx.from) - tx.amount \in Nat
      BY <1>2, <1>3, <2>1 DEF Accepts
    <2> DEFINE d == set_balance(x, tx.from, get_balance(x, tx.from) - tx.amount)
    <2>3. d \in F
      BY <1>1, <2>1, <2>2
    <2> HIDE DEF d
    <2>4. get_balance(d, tx.to) + tx.amount \in Nat
      BY <1>2, <2>1, <2>3
    <2>5. set_balance(d, tx.to, get_balance(d, tx.to) + tx.amount) \in F
      BY <1>1, <2>1, <2>3, <2>4
    <2>6. QED
      BY <2>5 DEF d, Transfer
  <1>4. QED
    <2> HIDE DEF F
    <2>1. s \in F => ApplyBlock(s, ts).state \in F
      BY <1>3, ApplyBlockKeeps
    <2>2. QED
      BY <2>1 DEF F

\* What the generator draws is always a transfer between two different accounts.
LEMMA GenerateTxTyped ==
    ASSUME NEW d1 \in Nat, NEW d2 \in Nat, NEW d3 \in Nat
    PROVE  GenerateTx(d1, d2, d3) \in Txs
  <1> DEFINE n == NumAccounts
             from == d1 % n
             to == d2 % n
             other == IF to = from THEN (to + 1) % n ELSE to
             amount == (d3 % 10) + 1
  <1>1. n \in Nat /\ n > 1
    BY AccountFacts
  <1>2. from \in 0 .. n - 1 /\ to \in 0 .. n - 1
    BY <1>1
  <1>3. (to + 1) % n \in 0 .. n - 1 /\ (to + 1) % n # to
    <2> HIDE DEF to
    <2>1. CASE to + 1 = n
      BY <1>1, <1>2, <2>1
    <2>2. CASE to + 1 < n
      <3>1. (to + 1) % n = to + 1
        <4>1. n \in Nat \ {0} /\ to + 1 \in Nat
          BY <1>1, <1>2
        <4>2. QED
          BY <2>2, <4>1, Modulo
      <3>2. QED
        BY <1>1, <1>2, <2>2, <3>1
    <2>3. QED
      BY <1>1, <1>2, <2>1, <2>2
  <1>4. other \in 0 .. n - 1 /\ other # from
    <2> HIDE DEF to, from
    <2>1. QED
      BY <1>2, <1>3
  <1>5. amount \in 1 .. 10
    OBVIOUS
  <1>6. GenerateTx(d1, d2, d3) = [from |-> from, to |-> other, amount |-> amount]
    BY DEF GenerateTx
  <1> HIDE DEF from, other, amount
  <1>7. QED
    BY <1>2, <1>4, <1>5, <1>6, AccountFacts DEF Txs

\* The ledger starts with the initial supply.
LEMMA GenesisFunded == generate_initial_state \in Funded
  BY InitialSupply, LedgerAssumption, Pow2 DEF generate_initial_state, Funded

-----------------------------------------------------------------------------
\* next_power_of_two finds a power of two that is large enough.
LEMMA DepthFacts ==
    ASSUME NEW n \in Nat
    PROVE  Depth(n) \in Nat /\ pow2[Depth(n)] >= n
  <1> DEFINE Q == {k \in Nat : pow2[k] >= k}
             S == {k \in Nat : pow2[k] >= n}
  <1>1. Nat \subseteq Q
    <2>1. 0 \in Q
      BY Pow2
    <2>2. ASSUME NEW k \in Nat, k \in Q PROVE k + 1 \in Q
      <3>1. pow2[k] \in Nat \ {0} /\ pow2[k + 1] = 2 * pow2[k] /\ pow2[k] >= k
        BY <2>2, Pow2
      <3>2. QED
        BY <3>1
    <2> HIDE DEF Q
    <2>3. QED
      BY <2>1, <2>2, Induction
  <1>2. n \in S
    BY <1>1
  <1>3. PICK d \in S : \A e \in S : d <= e
    <2>1. S \subseteq Nat /\ S # {}
      BY <1>2
    <2> HIDE DEF S
    <2>2. QED
      BY <2>1, LeastNat
  <1>4. d \in 0 .. n /\ pow2[d] >= n /\ \A j \in 0 .. d - 1 : pow2[j] < n
    <2>1. d \in Nat /\ d <= n /\ pow2[d] >= n
      BY <1>2, <1>3
    <2>2. ASSUME NEW j \in 0 .. d - 1 PROVE pow2[j] < n
      <3>1. j \in Nat /\ ~(d <= j) /\ pow2[j] \in Nat
        BY <2>1, Pow2
      <3>2. QED
        BY <1>3, <3>1
    <2>3. QED
      BY <2>1, <2>2
  <1>5. QED
    BY <1>4 DEF Depth

\* the layers of the Merkle tree, leaves first
IsLayers(f, s, d) ==
    f = [j \in 0 .. d |->
           IF j = 0 THEN [i \in 0 .. pow2[d] - 1 |-> << i, get_balance(s, i) >>]
           ELSE [i \in 0 .. pow2[d - j] - 1 |-> << f[j - 1][2 * i], f[j - 1][2 * i + 1] >>]]

\* The layers of a Merkle tree can be built one after the other.
LEMMA LayersExist ==
    ASSUME NEW s, NEW d \in Nat
    PROVE  \E f : IsLayers(f, s, d)
  <1> DEFINE leaves == [i \in 0 .. pow2[d] - 1 |-> << i, get_balance(s, i) >>]
             Up(l, j) == [i \in 0 .. pow2[d - j] - 1 |-> << l[2 * i], l[2 * i + 1] >>]
             Is(f, n) == f = [j \in 0 .. n |-> IF j = 0 THEN leaves ELSE Up(f[j - 1], j)]
             E == {n \in Nat : \E f : Is(f, n)}
  <1>1. 0 \in E
    <2> DEFINE f == [j \in 0 .. 0 |-> leaves]
    <2> HIDE DEF Up, leaves
    <2>1. Is(f, 0)
      OBVIOUS
    <2>2. QED
      BY <2>1
  <1>2. ASSUME NEW n \in Nat, NEW f, Is(f, n) PROVE \E g : Is(g, n + 1)
    <2> HIDE DEF Up, leaves
    <2> DEFINE g == [j \in 0 .. n + 1 |-> IF j = n + 1 THEN Up(f[n], n + 1) ELSE f[j]]
    <2>1. ASSUME NEW j \in 0 .. n + 1
          PROVE  g[j] = IF j = 0 THEN leaves ELSE Up(g[j - 1], j)
      <3>1. CASE j = 0
        BY <1>2, <3>1
      <3>2. CASE j = n + 1
        BY <1>2, <3>2
      <3>3. CASE j # 0 /\ j # n + 1
        <4>1. j \in 0 .. n /\ j - 1 \in 0 .. n + 1 /\ j - 1 # n + 1
          BY <3>3
        <4>2. g[j] = f[j] /\ g[j - 1] = f[j - 1]
          BY <3>3, <4>1
        <4>3. f[j] = Up(f[j - 1], j)
          BY <1>2, <3>3, <4>1
        <4>4. QED
          BY <3>3, <4>2, <4>3
      <3>4. QED
        BY <3>1, <3>2, <3>3
    <2>2. g = [j \in 0 .. n + 1 |-> g[j]]
      OBVIOUS
    <2> HIDE DEF g
    <2>3. Is(g, n + 1)
      BY <2>1, <2>2
    <2> HIDE DEF Is
    <2>4. QED
      BY <2>3
  <1>3. \A n \in Nat : n \in E => n + 1 \in E
    <2> HIDE DEF Is
    <2>1. QED
      BY <1>2
  <1>4. d \in E
    <2> HIDE DEF E
    <2>1. QED
      BY <1>1, <1>3, Induction
  <1>5. PICK f : Is(f, d)
    <2> HIDE DEF Is
    <2>1. QED
      BY <1>4
  <1>6. QED
    BY <1>5 DEF IsLayers

\* compute_state_root returns the top of those layers.
LEMMA RootIsTop ==
    ASSUME NEW s, Depth(Cardinality(DOMAIN s)) \in Nat
    PROVE  \E f : /\ IsLayers(f, s, Depth(Cardinality(DOMAIN s)))
                  /\ StateRoot(s) = f[Depth(Cardinality(DOMAIN s))][0]
  <1> DEFINE d == Depth(Cardinality(DOMAIN s))
             top == CHOOSE f : IsLayers(f, s, d)
  <1>1. StateRoot(s) = top[d][0]
    BY DEF StateRoot, IsLayers
  <1> HIDE DEF d
  <1>2. IsLayers(top, s, d)
    BY LayersExist DEF d
  <1>3. QED
    BY <1>1, <1>2 DEF d

\* hash_pair as a pair: it determines both of its children.
LEMMA Pairs ==
    ASSUME NEW a, NEW b, NEW c, NEW d, << a, b >> = << c, d >>
    PROVE  a = c /\ b = d
  OBVIOUS

\* What the layers of a tree hold.
LEMMA LayersAt ==
    ASSUME NEW f, NEW s, NEW d \in Nat, IsLayers(f, s, d)
    PROVE  /\ \A i \in 0 .. pow2[d] - 1 : f[0][i] = << i, get_balance(s, i) >>
           /\ \A j \in 1 .. d : \A i \in 0 .. pow2[d - j] - 1 :
                 f[j][i] = << f[j - 1][2 * i], f[j - 1][2 * i + 1] >>
  <1> DEFINE bal(i) == get_balance(s, i)
             leaves == [i \in 0 .. pow2[d] - 1 |-> << i, bal(i) >>]
             Up(j) == [i \in 0 .. pow2[d - j] - 1 |-> << f[j - 1][2 * i], f[j - 1][2 * i + 1] >>]
  <1>1. f = [j \in 0 .. d |-> IF j = 0 THEN leaves ELSE Up(j)]
    BY DEF IsLayers
  <1>2. f[0] = leaves /\ \A j \in 1 .. d : f[j] = Up(j)
    <2> HIDE DEF leaves, Up
    <2>1. QED
      BY <1>1
  <1>3. \A i \in 0 .. pow2[d] - 1 : f[0][i] = << i, bal(i) >>
    <2> HIDE DEF bal
    <2>1. QED
      BY <1>2
  <1>4. ASSUME NEW j \in 1 .. d, NEW i \in 0 .. pow2[d - j] - 1
        PROVE  f[j][i] = << f[j - 1][2 * i], f[j - 1][2 * i + 1] >>
    <2>1. f[j] = Up(j)
      BY <1>2
    <2>2. QED
      BY <2>1
  <1>5. QED
    BY <1>3, <1>4

\* The Merkle root determines every balance, whatever the padding.
LEMMA RootsDiffer ==
    ASSUME NEW s \in [Accounts -> Nat], NEW t \in [Accounts -> Nat],
           StateRoot(s) = StateRoot(t)
    PROVE  s = t
  <1> DEFINE d == Depth(NumAccounts)
  <1>1. DOMAIN s = Accounts /\ DOMAIN t = Accounts /\ Cardinality(Accounts) = NumAccounts
    BY AccountFacts, AccountsSize
  <1>2. d \in Nat /\ pow2[d] >= NumAccounts
    BY AccountFacts, DepthFacts
  <1> HIDE DEF d
  <1>3. PICK f : IsLayers(f, s, d) /\ StateRoot(s) = f[d][0]
    BY <1>1, <1>2, RootIsTop DEF d
  <1>4. PICK g : IsLayers(g, t, d) /\ StateRoot(t) = g[d][0]
    BY <1>1, <1>2, RootIsTop DEF d
  <1> DEFINE Q == {m \in Nat : m <= d =>
                      \A i \in 0 .. pow2[m] - 1 : f[d - m][i] = g[d - m][i]}
  <1>5. 0 \in Q
    <2>1. pow2[0] = 1 /\ d - 0 = d
      BY <1>2, Pow2
    <2>2. QED
      <3>1. f[d][0] = g[d][0]
        BY <1>3, <1>4
      <3>2. \A i \in 0 .. pow2[0] - 1 : i = 0
        BY <2>1
      <3>3. QED
        BY <2>1, <3>1, <3>2
  <1>6. ASSUME NEW m \in Nat, m \in Q PROVE m + 1 \in Q
    <2> SUFFICES ASSUME m + 1 <= d, NEW i \in 0 .. pow2[m + 1] - 1
                 PROVE  f[d - (m + 1)][i] = g[d - (m + 1)][i]
      OBVIOUS
    <2> DEFINE j == d - m
               h == i \div 2
    <2>1. j \in 1 .. d /\ j - 1 = d - (m + 1) /\ d - j = m
      BY <1>2
    <2>2. pow2[m] \in Nat /\ pow2[m + 1] = 2 * pow2[m]
      BY Pow2
    <2>3. h \in 0 .. pow2[m] - 1 /\ (i = 2 * h \/ i = 2 * h + 1)
      BY <2>2
    <2>4. f[j][h] = g[j][h]
      BY <1>2, <1>6, <2>3
    <2> HIDE DEF j, h
    <2>5. f[j][h] = << f[j - 1][2 * h], f[j - 1][2 * h + 1] >>
      BY <1>2, <1>3, <2>1, <2>3, LayersAt
    <2>6. g[j][h] = << g[j - 1][2 * h], g[j - 1][2 * h + 1] >>
      BY <1>2, <1>4, <2>1, <2>3, LayersAt
    <2>7. f[j - 1][i] = g[j - 1][i]
      <3>1. /\ f[j - 1][2 * h] = g[j - 1][2 * h]
            /\ f[j - 1][2 * h + 1] = g[j - 1][2 * h + 1]
        <4>1. << f[j - 1][2 * h], f[j - 1][2 * h + 1] >>
                  = << g[j - 1][2 * h], g[j - 1][2 * h + 1] >>
          BY ONLY <2>4, <2>5, <2>6, Zenon
        <4>2. QED
          BY ONLY <4>1, Pairs
      <3>2. QED
        BY <2>3, <3>1
    <2>8. QED
      BY <2>1, <2>7
  <1>7. d \in Q
    <2> HIDE DEF Q
    <2>1. QED
      BY <1>2, <1>5, <1>6, Induction
  <1>8. ASSUME NEW a \in Accounts PROVE s[a] = t[a]
    <2>1. a \in 0 .. pow2[d] - 1
      <3>1. pow2[d] \in Nat /\ NumAccounts \in Nat /\ a \in 0 .. NumAccounts - 1
        BY <1>2, AccountFacts, Pow2
      <3>2. QED
        BY <1>2, <3>1
    <2>2. f[0][a] = g[0][a]
      BY <1>2, <1>7, <2>1
    <2>3. f[0][a] = << a, get_balance(s, a) >> /\ g[0][a] = << a, get_balance(t, a) >>
      BY <1>2, <1>3, <1>4, <2>1, LayersAt
    <2>4. get_balance(s, a) = get_balance(t, a)
      BY <2>2, <2>3, Pairs, Zenon
    <2>5. QED
      BY <1>1, <2>4 DEF get_balance
  <1>9. QED
    BY <1>8

-----------------------------------------------------------------------------
(***************************************************************************)
(* The ledger under the workload                                           *)
(***************************************************************************)
\* Every state of a plan holds the initial supply.
LEMMA PlansFunded ==
    ASSUME SupplyFits, NEW p \in Plans, NEW k \in 0 .. NumBlocks
    PROVE  p.state[k] \in Funded
  <1> DEFINE Q == {n \in Nat : n <= NumBlocks => p.state[n] \in Funded}
  <1>1. 0 \in Q
    BY BlockFacts, PlanAssumption, LedgerUsed, GenesisFunded
  <1>2. ASSUME NEW n \in Nat, n \in Q PROVE n + 1 \in Q
    <2>1. CASE n + 1 <= NumBlocks
      <3>1. n \in Blocks /\ p.state[n] \in Funded
        BY <1>2, <2>1, BlockFacts
      <3>2. p.state[n + 1] = ApplyBlock(p.state[n], p.txs[n]).state
        BY <3>1, PlanAssumption, LedgerUsed
      <3>3. p.txs[n] \in Seq(Txs)
        BY <3>1, TxsAssumption
      <3>4. QED
        BY <3>1, <3>2, <3>3, ApplyBlockConserves
    <2>2. QED
      BY <2>1, BlockFacts
  <1>3. k \in Q
    <2> HIDE DEF Q
    <2>1. QED
      BY <1>1, <1>2, BlockFacts, Induction
  <1>4. QED
    BY <1>3, BlockFacts

\* Whether they fit or not, the balances are naturals.
LEMMA PlansTyped ==
    ASSUME NEW p \in Plans, NEW k \in 0 .. NumBlocks
    PROVE  p.state[k] \in [Accounts -> Nat]
  <1> DEFINE F == [Accounts -> Nat]
             Q == {n \in Nat : n <= NumBlocks => p.state[n] \in F}
  <1>1. 0 \in Q
    BY BlockFacts, PlanAssumption, LedgerUsed, GenesisFunded DEF Funded
  <1>2. ASSUME NEW n \in Nat, n \in Q PROVE n + 1 \in Q
    <2>1. CASE n + 1 <= NumBlocks
      <3>1. n \in Blocks /\ p.state[n] \in F
        BY <1>2, <2>1, BlockFacts
      <3>2. p.state[n + 1] = ApplyBlock(p.state[n], p.txs[n]).state
        BY <3>1, PlanAssumption, LedgerUsed
      <3>3. p.txs[n] \in Seq(Txs)
        BY <3>1, TxsAssumption
      <3>4. QED
        BY <3>1, <3>2, <3>3, ApplyBlockTyped
    <2>2. QED
      BY <2>1, BlockFacts
  <1>3. k \in Q
    <2> HIDE DEF Q
    <2>1. QED
      BY <1>1, <1>2, BlockFacts, Induction
  <1>4. QED
    BY <1>3, BlockFacts

\* For every number of accounts and blocks, if all the money fits one balance (the
\* addition in apply_block is unchecked): no balance wraps, none is lost or made up.
THEOREM MoneyIsConserved ==
    ASSUME SupplyFits
    PROVE  DirSpec => []SupplyConserved
  <1>1. DirInv /\ StatesPlanned => SupplyConserved
    BY PlansFunded DEF DirInv, Types, StatesPlanned, SupplyConserved, Funded
  <1>2. QED
    BY <1>1, DirInvariant, StatesPlannedOK, PTL

\* For every number of accounts, a power of two or not: the Merkle root tells the
\* ledger states of a workload apart.
THEOREM RootsAreInjective == DirSpec => []RootsTellApart
  <1>1. DirInv /\ StatesPlanned => RootsTellApart
    <2> SUFFICES ASSUME DirInv, StatesPlanned PROVE RootsTellApart
      OBVIOUS
    <2>1. \A s \in {plan.state[b] : b \in 0 .. NumBlocks} \cup {state, rstate} :
             s \in [Accounts -> Nat]
      BY PlansTyped DEF DirInv, Types, StatesPlanned
    <2>2. QED
      BY <2>1, RootsDiffer DEF RootsTellApart
  <1>2. QED
    BY <1>1, DirInvariant, StatesPlannedOK, PTL
=============================================================================
