----------------------------- MODULE Execution ------------------------------
(***************************************************************************)
(* How a block is executed (state_transition.go, gaspool.go,               *)
(* state_processor.go, evm.go, block_validator.go).  A state is            *)
(* [balance, nonce]; a root stands for its state.  A message says what the *)
(* virtual machine does with it: it needs so much gas, has so much         *)
(* refunded, and reverts from its deadline on.  All rules of the           *)
(* configuration are in force.                                             *)
(***************************************************************************)
EXTENDS Integers, Sequences, SequencesExt

CONSTANTS MaxUint64,                    \* math.MaxUint64
          TxGas, TxGasContractCreation, \* gas of a message without data
          NonZeroGas, ZeroGas,          \* gas of a byte of data
          GasLimitBoundDivisor, MinGasLimit,
          Creation,                     \* a message to nobody, and the contract it makes
          Coinbase,                     \* whom the blocks pay
          BlockReward                   \* what the engine pays for a block

ASSUME ExecutionAssumption ==
    /\ MaxUint64 \in Nat /\ {NonZeroGas, ZeroGas, GasLimitBoundDivisor} \subseteq Nat \ {0}
    /\ TxGas <= MaxUint64 /\ TxGasContractCreation <= MaxUint64

Overflow == -1

\* Mutant: the sum is taken modulo the width of a word.
IntrinsicGasWraps(msg) ==
    LET gas == IF msg.to = Creation THEN TxGasContractCreation ELSE TxGas
    IN  (gas + msg.nz * NonZeroGas + msg.z * ZeroGas) % (MaxUint64 + 1)

(* nz bytes of the data are not zero, z are. *)
IntrinsicGas(msg) ==
    LET gas == IF msg.to = Creation THEN TxGasContractCreation ELSE TxGas
        more == gas + msg.nz * NonZeroGas
    IN  IF (MaxUint64 - gas) \div NonZeroGas < msg.nz THEN Overflow
        ELSE IF (MaxUint64 - more) \div ZeroGas < msg.z THEN Overflow
        ELSE more + msg.z * ZeroGas

-----------------------------------------------------------------------------
(* A result is [err, s, pool, used, failed]; the state of a message that   *)
(* is refused may have changed, and callers throw it away.                 *)

Refused(why, s, pool) == [err |-> why, s |-> s, pool |-> pool, used |-> 0, failed |-> FALSE]

AddBalance(s, account, amount) == [s EXCEPT !.balance[account] = @ + amount]
CanTransfer(s, account, amount) == s.balance[account] >= amount
Transfer(s, from, to, amount) == AddBalance(AddBalance(s, from, -amount), to, amount)

AddGas(pool, amount) == IF pool > MaxUint64 - amount THEN Overflow ELSE pool + amount

buyGas(s, pool, msg) ==
    IF s.balance[msg.from] < msg.gas * msg.price THEN Refused("insufficient funds", s, pool)
    ELSE IF pool < msg.gas THEN Refused("gas limit reached", s, pool)
    ELSE Refused("", AddBalance(s, msg.from, -(msg.gas * msg.price)), pool - msg.gas)

preCheck(s, pool, msg) ==
    IF msg.checkNonce /\ s.nonce[msg.from] < msg.nonce THEN Refused("nonce too high", s, pool)
    ELSE IF msg.checkNonce /\ s.nonce[msg.from] > msg.nonce THEN Refused("nonce too low", s, pool)
    ELSE buyGas(s, pool, msg)

(* The virtual machine: Call and Create both raise the nonce, for good,    *)
(* before they start.                                                      *)
Executed(s, msg, gas, time) ==
    LET failed == gas < msg.need \/ time >= msg.deadline
        begun == [s EXCEPT !.nonce[msg.from] = @ + 1]
    IN  [gas |-> IF gas < msg.need THEN 0 ELSE gas - msg.need,
         failed |-> failed,
         refund |-> IF failed THEN 0 ELSE msg.refund,
         s |-> IF failed THEN begun ELSE Transfer(begun, msg.from, msg.to, msg.value)]

\* Mutant: the refund does not lower the gas that was used.
refundGasTwice(run, pool, msg) ==
    LET gas == run.gas + run.refund
    IN  [gas |-> run.gas, s |-> AddBalance(run.s, msg.from, gas * msg.price), pool |-> AddGas(pool, gas)]

(* At most half of the gas that was used is refunded. *)
refundGas(run, pool, msg) ==
    LET half == (msg.gas - run.gas) \div 2
        gas == run.gas + IF half > run.refund THEN run.refund ELSE half
    IN  [gas |-> gas, s |-> AddBalance(run.s, msg.from, gas * msg.price), pool |-> AddGas(pool, gas)]

(* What is left is given back, what was used goes to the coinbase.         *)
Settled(run, end, msg) ==
    LET used == msg.gas - end.gas
    IN  [err |-> "", s |-> AddBalance(end.s, Coinbase, used * msg.price), pool |-> end.pool,
         used |-> used, failed |-> run.failed]

Refunded(run, pool, msg) == Settled(run, refundGas(run, pool, msg), msg)

CheckedMessage(pre, intrinsic, msg, time) ==
    IF pre.err # "" THEN pre
    ELSE IF intrinsic = Overflow THEN Refused("gas uint64 overflow", pre.s, pre.pool)
    ELSE IF msg.gas < intrinsic THEN Refused("intrinsic gas too low", pre.s, pre.pool)
    ELSE IF msg.value > 0 /\ ~CanTransfer(pre.s, msg.from, msg.value)
         THEN Refused("insufficient funds for transfer", pre.s, pre.pool)
    ELSE Refunded(Executed(pre.s, msg, msg.gas - intrinsic, time), pre.pool, msg)

TransitionDb(s, pool, msg, time) ==
    CheckedMessage(preCheck(s, pool, msg), IntrinsicGas(msg), msg, time)

-----------------------------------------------------------------------------
(* A block that is executed: [s, pool, gasUsed, receipts, err] *)

Recorded(b, result) ==
    LET gasUsed == b.gasUsed + result.used
    IN  IF result.err # "" THEN [b EXCEPT !.err = result.err]
        ELSE [b EXCEPT !.s = result.s, !.pool = result.pool, !.gasUsed = gasUsed,
                       !.receipts = Append(@, [failed |-> result.failed, gas |-> gasUsed])]

ApplyTransaction(b, tx, time) == Recorded(b, TransitionDb(b.s, b.pool, tx, time))

Process(block, s) ==
    LET begun == [s |-> s, pool |-> AddGas(0, block.gasLimit), gasUsed |-> 0, receipts |-> <<>>, err |-> ""]
        done == FoldLeft(LAMBDA b, tx : IF b.err # "" THEN b ELSE ApplyTransaction(b, tx, block.time),
                         begun, block.txs)
    IN  [done EXCEPT !.s = AddBalance(@, Coinbase, BlockReward)]

ValidateState(block, done) ==
    block.gasUsed = done.gasUsed /\ block.receipts = done.receipts /\ block.root = done.s

CalcGasLimit(parent, gasFloor, gasCeil) ==
    LET word(n) == n % (MaxUint64 + 1)
        contrib == (parent.gasUsed + (parent.gasUsed \div 2)) \div GasLimitBoundDivisor
        decay == word((parent.gasLimit \div GasLimitBoundDivisor) - 1)
        tried == word(parent.gasLimit - decay + contrib)
        limit == IF tried < MinGasLimit THEN MinGasLimit ELSE tried
        up == word(parent.gasLimit + decay)
        down == word(parent.gasLimit - decay)
    IN  IF limit < gasFloor THEN IF up > gasFloor THEN gasFloor ELSE up
        ELSE IF limit > gasCeil THEN IF down < gasCeil THEN gasCeil ELSE down
        ELSE limit
=============================================================================
