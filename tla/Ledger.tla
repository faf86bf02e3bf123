------------------------------- MODULE Ledger -------------------------------
(***************************************************************************)
(* The state transition function: crates/ledger-core, the SP1 guest        *)
(* program that proves it (zkvm/program) and the transaction generator of  *)
(* zkvm/script.                                                            *)
(*                                                                         *)
(* A State is a function from account ids to balances.  Balances keep a    *)
(* width of W bits (u64 in the code, release builds wrap).  SHA-256 is     *)
(* taken to be injective: the hash of something is that thing.             *)
(***************************************************************************)
EXTENDS Integers, Sequences, FiniteSets

CONSTANTS W, NumAccounts, InitialBalance

Accounts == 0 .. NumAccounts - 1

pow2[k \in Nat] == IF k = 0 THEN 1 ELSE 2 * pow2[k - 1]

ASSUME LedgerAssumption ==
    W \in Nat /\ NumAccounts \in Nat \ {0, 1} /\ InitialBalance \in 0 .. pow2[W] - 1

get_balance(s, account) == IF account \in DOMAIN s THEN s[account] ELSE 0

set_balance(s, account, amount) ==
    [a \in DOMAIN s \cup {account} |-> IF a = account THEN amount % pow2[W] ELSE s[a]]

generate_initial_state == [a \in Accounts |-> InitialBalance]

\* what generate_txs can draw
Txs == {t \in [from : Accounts, to : Accounts, amount : 1 .. 10] : t.from # t.to}

\* one transaction from three draws of the generator's seed (generate_txs)
GenerateTx(d1, d2, d3) ==
    LET from == d1 % NumAccounts
        to == d2 % NumAccounts
    IN  [ from |-> from,
          to |-> IF to = from THEN (to + 1) % NumAccounts ELSE to,
          amount |-> (d3 % 10) + 1 ]

\* mutant: the sender's balance is not looked at
Accepts_NoBalance(s, tx) == tx.amount > 0 /\ tx.from # tx.to

Accepts(s, tx) ==
    get_balance(s, tx.from) >= tx.amount /\ tx.amount > 0 /\ tx.from # tx.to

\* the debit is stored before the receiver's balance is read
Transfer(s, tx) ==
    LET debited == set_balance(s, tx.from, get_balance(s, tx.from) - tx.amount)
    IN  set_balance(debited, tx.to, get_balance(debited, tx.to) + tx.amount)

ApplyBlock(s, txs) ==
    LET after[k \in 0 .. Len(txs)] ==
            IF k = 0 THEN [state |-> s, applied |-> 0]
            ELSE IF Accepts(after[k - 1].state, txs[k])
            THEN [ state |-> Transfer(after[k - 1].state, txs[k]),
                   applied |-> after[k - 1].applied + 1 ]
            ELSE after[k - 1]
    IN  after[Len(txs)]

-----------------------------------------------------------------------------
\* next_power_of_two(n) is 2 to this power
Depth(n) == CHOOSE k \in 0 .. n : pow2[k] >= n /\ \A j \in 0 .. k - 1 : pow2[j] < n

\* mutant: min for max, so that one leaf is left
StateRoot_MinOne(s) == << 0, get_balance(s, 0) >>

\* The padding leaves are those of accounts that do not exist, with balance 0;
\* the doc comment calls them "zero-hash leaves".
StateRoot(s) ==
    LET depth == Depth(Cardinality(DOMAIN s))
        layer[j \in 0 .. depth] ==
            IF j = 0 THEN [i \in 0 .. pow2[depth] - 1 |-> << i, get_balance(s, i) >>]
            ELSE [i \in 0 .. pow2[depth - j] - 1 |->
                     << layer[j - 1][2 * i], layer[j - 1][2 * i + 1] >>]
    IN  layer[depth][0]

TxHash(txs) == << "sha256", txs >>

\* the sum of all balances
Supply(s) ==
    LET sum[k \in 0 .. NumAccounts] ==
            IF k = 0 THEN 0 ELSE sum[k - 1] + get_balance(s, k - 1)
    IN  sum[NumAccounts]
=============================================================================
