----------------------------- MODULE Simulated ------------------------------
(***************************************************************************)
(* The simulated backend (simulated.go) over the chain generator           *)
(* (chain_makers.go): a pending block is generated anew for each           *)
(* transaction that is sent, and Commit imports it, which executes it      *)
(* again.  A call that panics releases the lock and changes nothing.       *)
(*                                                                         *)
(* AdjustTime executes the pending transactions before it shifts the time  *)
(* of their block; skewed says that one of them would fare differently at  *)
(* the shifted time.  The wall clock, whose 15 seconds ahead the engine    *)
(* accepts and whose 30 seconds ahead the chain keeps for later, stands    *)
(* still: what was kept for later is never imported.                       *)
(***************************************************************************)
EXTENDS Execution, FiniteSets

CONSTANTS Txs,          \* transactions
          Calls,        \* calls whose gas is estimated
          Funds,        \* the allocation of the genesis: account -> balance
          GasLimit,     \* the gas limit of the genesis
          Period,       \* seconds between generated blocks: 10 in the code
          Shifts,       \* arguments of AdjustTime
          DefaultGas,   \* gas of a call that names none
          Latest,       \* the wall clock with allowedFutureBlockTime
          Postponable,  \* the wall clock with maxTimeFutureBlocks
          MaxBlocks,    \* bound on the blocks
          Infinite      \* math.MaxBig256

VARIABLES head,         \* the current block, whose root is the state
          pending,      \* pendingBlock; pendingState is the state of its root
          mined,        \* the transactions of the chain
          sent,         \* those SendTransaction took, without what Rollback dropped
                        \* and what is in a block that was kept for later
          skewed,       \* see above
          panicked      \* the last call, if it panicked

backendVars == <<head, pending, mined, sent, skewed, panicked>>

-----------------------------------------------------------------------------
(* chain_makers.go; a BlockGen is the block that becomes of it, with s,    *)
(* pool and err                                                            *)

NoPool == -2

makeHeader(parent) ==
    [number |-> parent.number + 1, time |-> parent.time + Period,
     gasLimit |-> CalcGasLimit(parent, parent.gasLimit, parent.gasLimit),
     gasUsed |-> 0, receipts |-> <<>>, txs |-> <<>>, s |-> parent.root, pool |-> NoPool, err |-> ""]

SetCoinbase(b) == [b EXCEPT !.pool = AddGas(0, b.gasLimit)]

(* Without a chain the hash of any block but the parent's is out of reach. *)
AppliedTx(b, tx, chain) ==
    IF tx.deep /\ ~chain THEN [b EXCEPT !.err = "nil chain"] ELSE ApplyTransaction(b, tx, b.time)

Appended(b, tx) == IF b.err # "" THEN b ELSE [b EXCEPT !.txs = Append(@, tx)]

\* Mutant: every transaction starts with a full pool.
AddTxWithChainFresh(b, tx, chain) ==
    IF b.err # "" THEN b ELSE Appended(AppliedTx(SetCoinbase(b), tx, chain), tx)

AddTxWithChain(b, tx, chain) ==
    IF b.err # "" THEN b
    ELSE Appended(AppliedTx(IF b.pool = NoPool THEN SetCoinbase(b) ELSE b, tx, chain), tx)

(* The sum is one of words: a shift to before zero ends in the far future. *)
OffsetTime(b, parent, seconds) ==
    LET time == (b.time + seconds) % (MaxUint64 + 1)
    IN  IF b.err # "" THEN b
        ELSE IF time <= parent.time THEN [b EXCEPT !.err = "block time out of range"]
        ELSE [b EXCEPT !.time = time]

Assemble(b) ==
    [number |-> b.number, time |-> b.time, gasLimit |-> b.gasLimit, gasUsed |-> b.gasUsed,
     receipts |-> b.receipts, txs |-> b.txs, root |-> AddBalance(b.s, Coinbase, BlockReward)]

(* The block GenerateChain makes on the head, before it is assembled *)
Generate(parent, txs, chain) ==
    FoldLeft(LAMBDA b, tx : AddTxWithChain(b, tx, chain), makeHeader(parent), txs)

-----------------------------------------------------------------------------
(* simulated.go *)

GenesisBlock ==
    [number |-> 0, time |-> 0, gasLimit |-> GasLimit, gasUsed |-> 0, receipts |-> <<>>, txs |-> <<>>,
     root |-> [balance |-> Funds, nonce |-> [a \in DOMAIN Funds |-> 0]]]

BackendInit ==
    /\ head = GenesisBlock
    /\ pending = Assemble(Generate(GenesisBlock, <<>>, TRUE))
    /\ mined = <<>> /\ sent = <<>>
    /\ skewed = FALSE /\ panicked = ""

Panics(call) ==
    /\ panicked' = call
    /\ UNCHANGED <<head, pending, mined, sent, skewed>>

rollback(block) == pending' = Assemble(Generate(block, <<>>, TRUE)) /\ skewed' = FALSE

Rollback ==
    /\ rollback(head)
    /\ sent' = mined
    /\ panicked' = ""
    /\ UNCHANGED <<head, mined>>

Regenerated(tx) == Generate(head, Append(pending.txs, tx), TRUE)

SendInto(b, tx) ==
    IF pending.root.nonce[tx.from] # tx.nonce \/ b.err # "" THEN Panics("send")
    ELSE /\ pending' = Assemble(b)
         /\ sent' = Append(sent, tx)
         /\ skewed' = FALSE
         /\ panicked' = ""
         /\ UNCHANGED <<head, mined>>

(* The pending block is generated without the shift of an AdjustTime.      *)
SendTransaction(tx) == SendInto(Regenerated(tx), tx)

(* The engine: gas limit and time of a block against those of its parent *)
VerifyHeader(parent, block) ==
    /\ block.time > parent.time
    /\ block.gasUsed <= block.gasLimit /\ block.gasLimit >= MinGasLimit
    /\ \E d \in 0..((parent.gasLimit \div GasLimitBoundDivisor) - 1) :
          block.gasLimit \in {parent.gasLimit - d, parent.gasLimit + d}

(* InsertChain of one block on the head *)
Imports(block) ==
    LET valid(done) == done.err = "" /\ ValidateState(block, done)
    IN  VerifyHeader(head, block) /\ valid(Process(block, head.root))

(* The block goes to futureBlocks, which is no error.                      *)
CommitPostponed ==
    /\ pending.time \in (Latest + 1)..Postponable
    /\ rollback(head)
    /\ sent' = mined
    /\ panicked' = ""
    /\ UNCHANGED <<head, mined>>

CommitNow ==
    /\ pending.time \notin (Latest + 1)..Postponable
    /\ IF pending.time <= Latest /\ Imports(pending)
       THEN /\ head' = pending
            /\ mined' = mined \o pending.txs
            /\ rollback(pending)
            /\ panicked' = ""
            /\ UNCHANGED <<sent>>
       ELSE Panics("commit")

Commit == head.number < MaxBlocks /\ (CommitPostponed \/ CommitNow)

AdjustTo(b) ==
    LET late(tx, time) == time >= tx.deadline
    IN  IF b.err # "" THEN Panics("adjust")
        ELSE /\ pending' = Assemble(b)
             /\ skewed' = \E i \in DOMAIN b.txs :
                              late(b.txs[i], b.time) # late(b.txs[i], head.time + Period)
             /\ panicked' = ""
             /\ UNCHANGED <<head, mined, sent>>

AdjustTime(seconds) == AdjustTo(OffsetTime(Generate(head, pending.txs, FALSE), head, seconds))

(* callContract, on a copy: the caller has all the money, and the gas pool *)
(* and the default for the gas are beyond every limit.                     *)
callContract(call, gas) ==
    LET s == [pending.root EXCEPT !.balance[call.from] = Infinite]
    IN  TransitionDb(s, MaxUint64, [call EXCEPT !.gas = IF gas = 0 THEN DefaultGas ELSE gas], pending.time)

executable(call, gas) ==
    LET through(result) == result.err = "" /\ ~result.failed
    IN  through(callContract(call, gas))

EstimateFails == -1
EstimateHangs == -2

(* The binary search; the state is taken back after every try.  The sum is *)
(* one of words, so mid may fall below lo, and lo go round in a circle:    *)
(* seen are its values since hi was last lowered.                          *)
EstimateGas(call) ==
    LET top == IF call.gas >= TxGas THEN call.gas ELSE pending.gasLimit
        search[lo \in 0..MaxUint64, hi \in 0..MaxUint64, seen \in SUBSET (0..MaxUint64)] ==
            LET mid == ((hi + lo) % (MaxUint64 + 1)) \div 2
            IN  IF lo + 1 >= hi THEN hi
                ELSE IF lo \in seen THEN EstimateHangs
                ELSE IF executable(call, mid) THEN search[lo, mid, {}]
                ELSE search[mid, hi, seen \cup {lo}]
        hi == search[TxGas - 1, top, {}]
    IN  IF hi = top /\ ~executable(call, hi) THEN EstimateFails ELSE hi

-----------------------------------------------------------------------------
BackendNext ==
    \/ \E tx \in Txs : SendTransaction(tx)
    \/ Commit
    \/ Rollback
    \/ \E seconds \in Shifts : AdjustTime(seconds)

BackendSpec == BackendInit /\ [][BackendNext]_backendVars

-----------------------------------------------------------------------------
(* Commit's comment on its panic, "This cannot happen unless the simulator *)
(* is wrong": the import accepts every pending block.  It does not after   *)
(* an AdjustTime with pending transactions that look at the time.          *)
CommitNeverPanics == panicked # "commit"

(* Unless the time was shifted under such transactions, or to where the    *)
(* engine takes a block for a future one, the import executes the pending  *)
(* block to the gas, receipts and root that generating it gave, within the *)
(* gas limit.                                                              *)
CommitImports == panicked = "commit" => skewed \/ pending.time > Postponable

(* A transaction SendTransaction took is in the chain or in the pending    *)
(* block, in the order it came, however often that block is generated      *)
(* anew, and the pending nonces count them; only Rollback, and a Commit     *)
(* whose block is kept for later, take it away.                            *)
AcceptedKept ==
    /\ sent = mined \o pending.txs
    /\ \A a \in DOMAIN Funds :
          pending.root.nonce[a] = Cardinality({i \in DOMAIN sent : sent[i].from = a})

Money(s) == FoldFunction(LAMBDA a, b : a + b, 0, s.balance)

(* Gas bought, refunded and paid to the coinbase add up: only the reward   *)
(* of a block makes money.                                                 *)
FundsConserved ==
    \A block \in {head, pending} :
        Money(block.root) = Money(GenesisBlock.root) + BlockReward * block.number

Accounted(block) ==
    LET gas(i) == IF i = 0 THEN 0 ELSE block.receipts[i].gas
    IN  block.txs # <<>> =>
            /\ block.pool + block.gasUsed = block.gasLimit
            /\ \A i \in DOMAIN block.receipts : gas(i) - gas(i - 1) \in TxGas \div 2..block.txs[i].gas
            /\ gas(Len(block.receipts)) = block.gasUsed

(* What a block's transactions used and what is left in its gas pool are   *)
(* its gas limit, the receipts add the gas up, and no transaction has more *)
(* than half of its gas refunded.                                          *)
GasAccounted == Accounted(Generate(head, pending.txs, TRUE))

(* An estimate is the least gas with which the call runs through, and the  *)
(* search fails only if no allowance is enough; the cost is without        *)
(* overflow here.  From half the largest word on, lo + hi may wrap: then   *)
(* an estimate is right or 0, or the search never ends.                    *)
EstimateExact ==
    \A call \in Calls :
        LET top == IF call.gas >= TxGas THEN call.gas ELSE pending.gasLimit
            cost == (IF call.to = Creation THEN TxGasContractCreation ELSE TxGas)
                        + call.nz * NonZeroGas + call.z * ZeroGas + call.need
            right == IF pending.time >= call.deadline \/ cost > top THEN EstimateFails ELSE cost
        IN  IF top <= MaxUint64 \div 2 THEN EstimateGas(call) = right
            ELSE EstimateGas(call) \in {right, 0, EstimateHangs}

(* Commit puts into the chain what was sent, as it was executed.           *)
CommitExact == CommitImports /\ AcceptedKept

(* Money and gas add up over generation and import.                        *)
GasPaid == FundsConserved /\ GasAccounted
=============================================================================
