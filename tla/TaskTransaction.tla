-------------------------- MODULE TaskTransaction --------------------------
(***************************************************************************)
(* How a batch gets on chain: create_new_task and its cancellation in      *)
(* crates/batcher/src/lib.rs, the retryable calls of batcher_retryables.rs *)
(* and the gas prices of eth/utils.rs.                                     *)
(*                                                                         *)
(* Every call goes to an RPC node and, when that fails, to a fallback.     *)
(* The two nodes share their pending transactions: one pool, in which a    *)
(* transaction replaces another of the same nonce if it pays ten percent   *)
(* more.  A call that returns an error may have delivered its transaction  *)
(* all the same, a transaction may be dropped from the pool, and one that  *)
(* is mined may revert.                                                    *)
(***************************************************************************)
EXTENDS Integers, FiniteSets

CONSTANTS
    Batches,            \* the batches handed to submit_batch, 1 .. n
    GasPrices,          \* what get_gas_price may return
    MaxRetries,         \* ETHEREUM_CALL_MAX_RETRIES
    BumpMaxRetries      \* BUMP_MAX_RETRIES

ASSUME BatchesAssumption == Batches \subseteq Nat \ {0}

\* In wei: far below any price of the networks, and enough for a bump of twenty
\* percent that is rounded down to be one of ten.
ASSUME PricesAssumption == GasPrices \subseteq Nat /\ \A gas \in GasPrices : gas >= 10

ASSUME RetriesAssumption == MaxRetries \in Nat /\ BumpMaxRetries \in Nat

VARIABLES
    pc,         \* where the posting task is
    batch,      \* the batch it posts
    price,      \* fee_params.gas_price, then previous_gas_price
    attempt,    \* retries of the call under way
    iteration,  \* iteration of cancel_create_new_task_tx
    tx,         \* the transaction that is about to be sent or awaited
    outcome,    \* what submit_batch returned for each batch
    pool,       \* pending transactions of the batcher's account
    txCount,    \* the account's transaction count in the latest block
    mined,      \* the account's transactions in blocks
    created     \* batches whose task the contract created

batcherVars == <<pc, batch, price, attempt, iteration, tx, outcome>>
chainVars == <<pool, txCount, mined, created>>
vars == <<batcherVars, chainVars>>

Tx(kind, b, nonce, gas) ==
    [kind |-> kind, batch |-> b, nonce |-> nonce, price |-> gas]

NoTx == Tx("none", 0, 0, 0)

Init ==
    /\ pc = "idle" /\ batch = 0 /\ price = 0 /\ attempt = 0 /\ iteration = 0
    /\ tx = NoTx
    /\ outcome = [b \in Batches |-> "todo"]
    /\ pool = {} /\ txCount = 0 /\ mined = {} /\ created = {}

-----------------------------------------------------------------------------
(***************************************************************************)
(* The nodes                                                               *)
(***************************************************************************)
Outbids(t, p) == t.price * 100 >= p.price * 110

Accepts(t) ==
    /\ t.nonce >= txCount
    /\ \A p \in pool : p.nonce = t.nonce => Outbids(t, p)

PoolWith(t) == {p \in pool : p.nonce # t.nonce} \cup {t}

\* A call that fails leaves the pool as it was, or has delivered t.
Delivers(t) == \/ UNCHANGED pool
               \/ Accepts(t) /\ pool' = PoolWith(t)

\* A transaction enters a block.  A task is created unless it reverts.
Mine(t) ==
    /\ t \in pool /\ t.nonce = txCount
    /\ pool' = {p \in pool : p.nonce > txCount}
    /\ txCount' = txCount + 1
    /\ mined' = mined \cup {t}
    /\ created' \in IF t.kind = "create" THEN {created, created \cup {t.batch}}
                                         ELSE {created}
    /\ UNCHANGED batcherVars

Drop(t) ==
    /\ t \in pool
    /\ pool' = pool \ {t}
    /\ UNCHANGED <<batcherVars, txCount, mined, created>>

-----------------------------------------------------------------------------
(***************************************************************************)
(* retry_function: an error marked Transient is tried again, up to max     *)
(* times, at the step the closure starts with; then, and for one marked    *)
(* Permanent, the call ends.                                               *)
(***************************************************************************)
MayRetry(max) == attempt < max

Again(step) ==
    /\ attempt' = attempt + 1
    /\ pc' = step
    /\ UNCHANGED <<batch, price, tx, outcome>>

Returns(o) ==
    /\ outcome' = [outcome EXCEPT ![batch] = o]
    /\ pc' = "idle" /\ batch' = 0 /\ price' = 0 /\ attempt' = 0
    /\ iteration' = 0 /\ tx' = NoTx

\* submit_batch starts; its gas price is the one the batch was extracted with.
StartBatch(b, gas) ==
    /\ pc = "idle"
    /\ outcome[b] = "todo" /\ \A c \in Batches : c < b => outcome[c] # "todo"
    /\ outcome' = [outcome EXCEPT ![b] = "open"]
    /\ pc' = "upload" /\ batch' = b /\ price' = gas /\ attempt' = 0
    /\ UNCHANGED <<iteration, tx, chainVars>>

\* upload_batch_to_multiple_s3: one bucket that took the batch is enough.
UploadOk ==
    /\ pc = "upload"
    /\ pc' = "simulate"
    /\ UNCHANGED <<batch, price, attempt, iteration, tx, outcome, chainVars>>

\* upload_batch_to_s3 gave up on every bucket.
UploadFails ==
    /\ pc = "upload"
    /\ Returns("failed")
    /\ UNCHANGED chainVars

\* simulate_create_new_task: an eth_call, refused for a task that exists.
SimulateOk ==
    /\ pc = "simulate"
    /\ batch \notin created
    /\ pc' = "send" /\ attempt' = 0
    /\ UNCHANGED <<batch, price, iteration, tx, outcome, chainVars>>

\* A revert is final.
SimulateReverts ==
    /\ pc = "simulate"
    /\ Returns("failed")
    /\ UNCHANGED chainVars

SimulateErrors ==
    /\ pc = "simulate"
    /\ \/ MayRetry(MaxRetries) /\ Again("simulate") /\ UNCHANGED iteration
       \/ ~MayRetry(MaxRetries) /\ Returns("failed")
    /\ UNCHANGED chainVars

\* create_new_task_retryable.  The nonce is the count of the latest block.
CreateTx == Tx("create", batch, txCount, price)

SendOk ==
    /\ pc = "send"
    /\ batch \notin created /\ Accepts(CreateTx)
    /\ pool' = PoolWith(CreateTx)
    /\ tx' = CreateTx
    /\ pc' = "wait"
    /\ UNCHANGED <<batch, price, attempt, iteration, outcome, txCount, mined, created>>

\* The gas estimate of the first or of the fallback node reverts.
SendReverts ==
    /\ pc = "send"
    /\ Delivers(CreateTx)
    /\ Returns("failed")
    /\ UNCHANGED <<txCount, mined, created>>

SendErrors ==
    /\ pc = "send"
    /\ batch \notin created
    /\ Delivers(CreateTx)
    /\ \/ MayRetry(MaxRetries) /\ Again("send") /\ UNCHANGED iteration
       \/ ~MayRetry(MaxRetries) /\ Returns("failed")
    /\ UNCHANGED <<txCount, mined, created>>

\* The receipt counts as success whatever its status.
Receipt ==
    /\ pc = "wait" /\ tx \in mined
    /\ Returns("ok")
    /\ UNCHANGED chainVars

\* Without the timeout: only a transaction known to be lost ends the wait.
ReceiptNeverComes ==
    /\ pc = "wait" /\ tx \notin pool \cup mined
    /\ pc' = "gas" /\ attempt' = 0 /\ iteration' = 0 /\ tx' = NoTx
    /\ UNCHANGED <<batch, price, outcome, chainVars>>

\* No receipt within transaction_wait_timeout: the transaction is cancelled.
ReceiptNotFound ==
    /\ pc = "wait"
    /\ pc' = "gas" /\ attempt' = 0 /\ iteration' = 0 /\ tx' = NoTx
    /\ UNCHANGED <<batch, price, outcome, chainVars>>

-----------------------------------------------------------------------------
(***************************************************************************)
(* cancel_create_new_task_tx.  Whatever comes of it, create_new_task       *)
(* returns ReceiptNotFoundError; the outcome "cancelled" stands for that   *)
(* error after "createNewTask transaction successfully canceled".          *)
(***************************************************************************)
OverrideMultiplier == 120       \* OVERRIDE_GAS_PRICE_PERCENTAGE_MULTIPLIER
IncrementPerIteration == 5      \* GAS_PRICE_INCREMENT_PERCENTAGE_PER_ITERATION

Larger(a, b) == IF a >= b THEN a ELSE b

\* A bump that forgets what was paid before.
BumpedFromMarketPrice(previous, current, i) ==
    (current * (OverrideMultiplier + IncrementPerIteration * i)) \div 100

BumpedGasPrice(previous, current, i) ==
    LET multiplier == OverrideMultiplier + IncrementPerIteration * i IN
    Larger((current * multiplier) \div 100, (previous * multiplier) \div 100)

\* Takes a cancellation that was given up for a success.
CancelRetryHidesFailure ==
    \/ MayRetry(BumpMaxRetries) /\ Again("gas")
    \/ ~MayRetry(BumpMaxRetries) /\ Returns("cancelled")

CancelRetry ==
    \/ MayRetry(BumpMaxRetries) /\ Again("gas")
    \/ ~MayRetry(BumpMaxRetries) /\ Returns("failed")

GasPrice(gas) ==
    /\ pc = "gas"
    /\ price' = BumpedGasPrice(price, gas, iteration)
    /\ iteration' = iteration + 1
    /\ pc' = "nonce"
    /\ UNCHANGED <<batch, attempt, tx, outcome, chainVars>>

\* The last nonce used, not the next one.
LastNonce == txCount - 1

\* The nonce the cancellation is sent with: the count of the latest block.
CancelNonce == txCount

CurrentNonce ==
    /\ pc = "nonce"
    /\ tx' = Tx("cancel", batch, CancelNonce, price)
    /\ pc' = "cancelSend"
    /\ UNCHANGED <<batch, price, attempt, iteration, outcome, chainVars>>

CancelSent ==
    /\ pc = "cancelSend"
    /\ Accepts(tx) /\ pool' = PoolWith(tx)
    /\ pc' = "cancelWait"
    /\ UNCHANGED <<batch, price, attempt, iteration, tx, outcome, txCount, mined, created>>

\* A node does not answer, or refuses the transaction, or does not report a
\* receipt in time.
CancelErrors ==
    /\ \/ pc \in {"gas", "nonce", "cancelWait"} /\ UNCHANGED pool
       \/ pc = "cancelSend" /\ Delivers(tx)
    /\ CancelRetry
    /\ (pc' = "gas" => UNCHANGED iteration)
    /\ UNCHANGED <<txCount, mined, created>>

CancelConfirmed ==
    /\ pc = "cancelWait" /\ tx \in mined
    /\ Returns("cancelled")
    /\ UNCHANGED chainVars

-----------------------------------------------------------------------------
CreateStep ==
    \/ UploadOk \/ UploadFails
    \/ SimulateOk \/ SimulateReverts \/ SimulateErrors
    \/ SendOk \/ SendReverts \/ SendErrors
    \/ Receipt \/ ReceiptNotFound

CancelStep ==
    \/ \E gas \in GasPrices : GasPrice(gas)
    \/ CurrentNonce \/ CancelSent \/ CancelErrors \/ CancelConfirmed

ChainStep == \E t \in pool : Mine(t) \/ Drop(t)

AllDone == pc = "idle" /\ \A b \in Batches : outcome[b] # "todo"

\* Nothing is left to post; keeps the end of an instance from being taken for
\* a deadlock.
Idle == AllDone /\ UNCHANGED vars

Next ==
    \/ \E b \in Batches, gas \in GasPrices : StartBatch(b, gas)
    \/ CreateStep \/ CancelStep \/ ChainStep \/ Idle

Spec == Init /\ [][Next]_vars

\* The posting task runs until it returns; the chain owes it nothing.
FairSpec == Spec /\ WF_vars(CreateStep) /\ WF_vars(CancelStep)

-----------------------------------------------------------------------------
(***************************************************************************)
(* Properties                                                              *)
(***************************************************************************)
Transactions ==
    [kind : {"none", "create", "cancel"}, batch : Batches \cup {0}, nonce : Nat, price : Nat]

\* The variables have their types.
TypeOK ==
    /\ pc \in {"idle", "upload", "simulate", "send", "wait", "gas", "nonce", "cancelSend",
              "cancelWait"}
    /\ batch \in Batches \cup {0}
    /\ price \in Nat /\ attempt \in Nat /\ iteration \in Nat /\ txCount \in Nat
    /\ tx \in Transactions
    /\ outcome \in [Batches -> {"todo", "open", "ok", "failed", "cancelled"}]
    /\ pool \subseteq Transactions /\ mined \subseteq Transactions
    /\ created \subseteq Batches

\* A cancellation that is about to be sent pays enough to replace whatever is
\* pending, however the market price moved over the iterations before it: the
\* task, or a cancellation that was not mined, of this batch or of an earlier one.
OverridesOutbid ==
    pc = "cancelSend" => \A p \in pool : p.nonce = tx.nonce => Outbids(tx, p)

\* submit_batch returns for every batch, although the nodes may fail for ever and
\* no transaction may ever be mined.
EveryTaskDecided ==
    \A b \in Batches : outcome[b] = "open" ~> outcome[b] \in {"ok", "failed", "cancelled"}

OnChain == {t.batch : t \in {m \in mined : m.kind = "create"}}

Abstract == INSTANCE TaskSubmission WITH onChain <- OnChain

\* TaskTransaction implements TaskSubmission.  In particular a batch that was
\* cancelled is not mined after the cancellation was confirmed.
ImplementsTaskSubmission == Abstract!Spec
=============================================================================
