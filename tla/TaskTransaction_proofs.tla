----------------------- MODULE TaskTransaction_proofs -----------------------
(***************************************************************************)
(* Proofs about TaskTransaction: its types, that a cancellation always     *)
(* pays enough to replace what is pending, and that it implements          *)
(* TaskSubmission, for any number of batches and retries and any gas       *)
(* prices that satisfy PricesAssumption.                                   *)
(***************************************************************************)
EXTENDS TaskTransaction, TLAPS

USE BatchesAssumption, PricesAssumption, RetriesAssumption

\* One batch is open, the one the posting task is at.
PostingOpen ==
    /\ pc = "idle" => batch = 0
    /\ pc # "idle" => batch \in Batches
    /\ \A b \in Batches : outcome[b] = "open" <=> b = batch

\* What is pending has the next nonce, and what is mined an earlier one.  A task
\* that is pending belongs to a batch whose outcome leaves it open.
PoolIsCurrent ==
    /\ \A p \in pool : p.nonce = txCount
    /\ \A t \in mined : t.nonce < txCount
    /\ \A p \in pool : p.kind = "create" =>
         p.batch \in Batches /\ outcome[p.batch] \in {"open", "failed"}

\* While a transaction is awaited nothing else is pending that could be mistaken
\* for it: a task alone in the pool, or no task at all.
Awaited ==
    /\ pc = "wait" =>
         tx.kind = "create" /\ tx.batch = batch /\ \A p \in pool : p = tx
    /\ pc \in {"cancelSend", "cancelWait"} => tx.kind = "cancel" /\ tx.nonce <= txCount
    /\ pc = "cancelWait" => \A p \in pool : p.kind # "create"

\* The last price is at least that of what is pending, and after a bump enough
\* to replace it.
PricesKept ==
    /\ pc # "idle" => price >= 10
    /\ pc \in {"wait", "cancelSend", "cancelWait"} => tx.price = price
    /\ pc \in {"wait", "gas", "cancelWait"} => \A p \in pool : p.price <= price
    /\ pc \in {"nonce", "cancelSend"} => \A p \in pool : price * 100 >= p.price * 110

IInv == TypeOK /\ PostingOpen /\ PoolIsCurrent /\ Awaited /\ PricesKept

-----------------------------------------------------------------------------
\* What BumpedGasPrice returns replaces whatever paid no more than the last price.
LEMMA BumpOutbids ==
    ASSUME NEW previous \in Nat, previous >= 10, NEW current \in Nat, NEW i \in Nat,
           NEW paid \in Nat, paid <= previous
    PROVE  /\ BumpedGasPrice(previous, current, i) \in Nat
           /\ BumpedGasPrice(previous, current, i) >= 10
           /\ BumpedGasPrice(previous, current, i) * 100 >= paid * 110
  <1> DEFINE multiplier == 120 + 5 * i
             bumped == (previous * multiplier) \div 100
             market == (current * multiplier) \div 100
  <1>1. multiplier \in Nat /\ multiplier >= 120 OBVIOUS
  <1> HIDE DEF multiplier
  <1>2. previous * multiplier \in Nat /\ previous * multiplier >= previous * 120
    <2>1. \A a, b \in Nat : b >= 120 => a * b \in Nat /\ a * b >= a * 120 BY SMT
    <2> QED BY <1>1, <2>1
  <1>3. current * multiplier \in Nat
    <2>1. \A a, b \in Nat : a * b \in Nat BY SMT
    <2> QED BY <1>1, <2>1
  <1>4. bumped \in Nat /\ bumped * 100 > previous * 120 - 100
    <2>1. \A x \in Nat : x \div 100 \in Nat /\ (x \div 100) * 100 > x - 100 BY SMT
    <2> QED BY <1>2, <2>1
  <1>5. market \in Nat
    <2>1. \A x \in Nat : x \div 100 \in Nat BY SMT
    <2> QED BY <1>3, <2>1
  <1>6. BumpedGasPrice(previous, current, i) = Larger(market, bumped)
    BY DEF BumpedGasPrice, OverrideMultiplier, IncrementPerIteration, multiplier
  <1> HIDE DEF bumped, market
  <1>7. bumped >= 10 /\ bumped * 100 >= paid * 110 BY <1>4
  <1> QED BY <1>4, <1>5, <1>6, <1>7 DEF Larger

\* A transaction with the next nonce has the pool to itself.
LEMMA PoolWithIsAlone ==
    ASSUME PoolIsCurrent, NEW t, t.nonce <= txCount, txCount \in Nat, t.nonce \in Nat, Accepts(t)
    PROVE  t.nonce = txCount /\ PoolWith(t) = {t}
  BY DEF PoolIsCurrent, Accepts, PoolWith

\* Nothing is pending before the first batch.
LEMMA InitIInv == Init => IInv
  BY DEF Init, IInv, TypeOK, PostingOpen, PoolIsCurrent, Awaited, PricesKept,
         Transactions, NoTx, Tx

-----------------------------------------------------------------------------
\* submit_batch returns: the batch is no longer open.
LEMMA ReturnsClosesBatch ==
    ASSUME IInv, pc # "idle", NEW o \in {"ok", "failed", "cancelled"}, Returns(o),
           pool' \subseteq Transactions,
           \A p \in pool' : p.nonce = txCount,
           \A p \in pool' : p.kind = "create" =>
               /\ p.batch \in Batches /\ outcome[p.batch] \in {"open", "failed"}
               /\ o # "failed" => p.batch # batch,
           UNCHANGED <<txCount, mined, created>>
    PROVE  IInv'
  <1>1. /\ outcome' = [outcome EXCEPT ![batch] = o] /\ batch \in Batches
        /\ pc' = "idle" /\ batch' = 0 /\ price' = 0 /\ attempt' = 0
        /\ iteration' = 0 /\ tx' = NoTx
    BY DEF Returns, IInv, PostingOpen
  <1>2. TypeOK' BY <1>1 DEF IInv, TypeOK, Transactions, NoTx, Tx
  <1>3. PostingOpen' BY <1>1 DEF IInv, TypeOK, PostingOpen
  <1>4. PoolIsCurrent' BY <1>1 DEF IInv, TypeOK, PoolIsCurrent
  <1>5. Awaited' /\ PricesKept' BY <1>1 DEF Awaited, PricesKept
  <1> QED BY <1>2, <1>3, <1>4, <1>5 DEF IInv

\* The same when the transactions that are pending did not change.
LEMMA FailureClosesBatch ==
    ASSUME IInv, pc # "idle", Returns("failed"), UNCHANGED chainVars
    PROVE  IInv'
  <1>1. /\ pool' \subseteq Transactions
        /\ \A p \in pool' : p.nonce = txCount
        /\ \A p \in pool' : p.kind = "create" =>
             p.batch \in Batches /\ outcome[p.batch] \in {"open", "failed"}
        /\ UNCHANGED <<txCount, mined, created>>
    BY DEF IInv, TypeOK, PoolIsCurrent, chainVars
  <1> QED BY <1>1, ReturnsClosesBatch

\* submit_batch starts when no other batch is open.
LEMMA StartBatchKeepsIInv ==
    ASSUME IInv, NEW b \in Batches, NEW gas \in GasPrices, StartBatch(b, gas)
    PROVE  IInv'
  <1>1. TypeOK' BY DEF StartBatch, IInv, TypeOK, chainVars
  <1>2. PostingOpen' BY DEF StartBatch, IInv, TypeOK, PostingOpen
  <1>3. PoolIsCurrent' BY DEF StartBatch, IInv, TypeOK, PoolIsCurrent, chainVars
  <1>4. Awaited' /\ PricesKept' BY DEF StartBatch, Awaited, PricesKept
  <1> QED BY <1>1, <1>2, <1>3, <1>4 DEF IInv

\* The upload and the simulation send nothing.
LEMMA SimulateKeepsIInv ==
    ASSUME IInv, UploadOk \/ UploadFails \/ SimulateOk \/ SimulateReverts \/ SimulateErrors
    PROVE  IInv'
  <1>1. CASE UploadOk \/ SimulateOk
    <2>1. /\ pc \in {"upload", "simulate"} /\ pc' \in {"simulate", "send"}
          /\ attempt' \in {attempt, 0}
          /\ UNCHANGED <<batch, price, iteration, tx, outcome, chainVars>>
      BY <1>1 DEF UploadOk, SimulateOk
    <2>2. TypeOK' BY <2>1 DEF IInv, TypeOK, chainVars
    <2>3. PostingOpen' /\ PoolIsCurrent'
      BY <2>1 DEF IInv, PostingOpen, PoolIsCurrent, chainVars
    <2>4. Awaited' /\ PricesKept' BY <2>1 DEF IInv, Awaited, PricesKept
    <2> QED BY <2>2, <2>3, <2>4 DEF IInv
  <1>2. CASE UploadFails \/ SimulateReverts
    BY <1>2, FailureClosesBatch DEF UploadFails, SimulateReverts
  <1>3. CASE SimulateErrors
    <2>1. CASE Again("simulate") /\ UNCHANGED iteration /\ UNCHANGED chainVars
      BY <1>3, <2>1 DEF SimulateErrors, Again, IInv, TypeOK, PostingOpen, PoolIsCurrent,
                        Awaited, PricesKept, chainVars
    <2>2. CASE Returns("failed") /\ UNCHANGED chainVars
      BY <1>3, <2>2, FailureClosesBatch DEF SimulateErrors
    <2> QED BY <1>3, <2>1, <2>2 DEF SimulateErrors
  <1> QED BY <1>1, <1>2, <1>3

\* The createNewTask transaction: what it may leave in the pool.
LEMMA CreateTxInPool ==
    ASSUME IInv, pc = "send", Delivers(CreateTx)
    PROVE  /\ CreateTx \in Transactions
           /\ pool' \subseteq Transactions
           /\ \A p \in pool' : p.nonce = txCount
           /\ \A p \in pool' : p.kind = "create" =>
                p.batch \in Batches /\ outcome[p.batch] \in {"open", "failed"}
  <1>1. CreateTx \in Transactions /\ CreateTx.nonce = txCount /\ CreateTx.batch = batch
        /\ txCount \in Nat /\ batch \in Batches /\ outcome[batch] = "open"
    BY DEF IInv, TypeOK, PostingOpen, CreateTx, Tx, Transactions
  <1>2. CASE UNCHANGED pool
    BY <1>1, <1>2 DEF IInv, TypeOK, PoolIsCurrent
  <1>3. CASE Accepts(CreateTx) /\ pool' = PoolWith(CreateTx)
    <2>1. pool' = {CreateTx}
      BY <1>1, <1>3, PoolWithIsAlone DEF IInv
    <2> QED BY <1>1, <2>1
  <1> QED BY <1>1, <1>2, <1>3 DEF Delivers

\* A createNewTask transaction, delivered or not, is paid with the price that is kept.
LEMMA SendKeepsIInv ==
    ASSUME IInv, SendOk \/ SendReverts \/ SendErrors
    PROVE  IInv'
  <1>1. CASE SendOk
    <2>1. Delivers(CreateTx) /\ pc = "send" BY <1>1 DEF SendOk, Delivers
    <2>2. /\ CreateTx.nonce = txCount /\ txCount \in Nat
          /\ CreateTx.kind = "create" /\ CreateTx.batch = batch /\ CreateTx.price = price
      BY DEF IInv, TypeOK, CreateTx, Tx
    <2>3. pool' = {CreateTx}
      BY <1>1, <2>2, PoolWithIsAlone DEF SendOk, IInv
    <2>4. tx' = CreateTx /\ pc' = "wait"
          /\ UNCHANGED <<batch, price, attempt, iteration, outcome, txCount, mined, created>>
      BY <1>1 DEF SendOk
    <2>5. TypeOK' BY <2>1, <2>4, CreateTxInPool DEF IInv, TypeOK
    <2>6. PostingOpen' BY <2>1, <2>4 DEF IInv, PostingOpen
    <2>7. PoolIsCurrent' BY <2>1, <2>4, CreateTxInPool DEF IInv, PoolIsCurrent
    <2>8. price \in Nat BY DEF IInv, TypeOK
    <2>9. Awaited' /\ PricesKept'
      BY <2>1, <2>2, <2>3, <2>4, <2>8 DEF IInv, Awaited, PricesKept
    <2> QED BY <2>5, <2>6, <2>7, <2>9 DEF IInv
  <1>2. CASE SendReverts
    <2>1. pc = "send" /\ Delivers(CreateTx) /\ Returns("failed") /\ UNCHANGED <<txCount, mined, created>>
      BY <1>2 DEF SendReverts
    <2> QED BY <2>1, CreateTxInPool, ReturnsClosesBatch
  <1>3. CASE SendErrors
    <2>1. pc = "send" /\ Delivers(CreateTx) /\ UNCHANGED <<txCount, mined, created>>
      BY <1>3 DEF SendErrors
    <2>2. CASE Again("send") /\ UNCHANGED iteration
      <3>1. attempt' = attempt + 1 /\ pc' = "send" /\ UNCHANGED <<batch, price, tx, outcome>>
        BY <2>2 DEF Again
      <3>2. TypeOK' BY <2>1, <2>2, <3>1, CreateTxInPool DEF IInv, TypeOK
      <3>3. PostingOpen' BY <2>1, <3>1 DEF IInv, PostingOpen
      <3>4. PoolIsCurrent' BY <2>1, <3>1, CreateTxInPool DEF IInv, PoolIsCurrent
      <3>5. Awaited' /\ PricesKept' BY <2>1, <3>1 DEF IInv, Awaited, PricesKept
      <3> QED BY <3>2, <3>3, <3>4, <3>5 DEF IInv
    <2>3. CASE Returns("failed")
      BY <2>1, <2>3, CreateTxInPool, ReturnsClosesBatch
    <2> QED BY <1>3, <2>2, <2>3 DEF SendErrors
  <1> QED BY <1>1, <1>2, <1>3

\* A receipt of the task means that nothing is pending.
LEMMA ReceiptKeepsIInv ==
    ASSUME IInv, Receipt \/ ReceiptNotFound
    PROVE  IInv'
  <1>1. CASE Receipt
    <2>1. pc = "wait" /\ tx \in mined /\ Returns("ok") /\ UNCHANGED chainVars
      BY <1>1 DEF Receipt
    <2>2. pool = {}
      BY <2>1 DEF IInv, TypeOK, PoolIsCurrent, Awaited
    <2>3. pool' = {} /\ UNCHANGED <<txCount, mined, created>>
      BY <2>1, <2>2 DEF chainVars
    <2> QED BY <2>1, <2>3, ReturnsClosesBatch
  <1>2. CASE ReceiptNotFound
    BY <1>2 DEF ReceiptNotFound, IInv, TypeOK, PostingOpen, PoolIsCurrent, Awaited,
                PricesKept, Transactions, NoTx, Tx, chainVars
  <1> QED BY <1>1, <1>2

-----------------------------------------------------------------------------
\* The bumped price outbids every pending transaction of this batch or of earlier ones.
LEMMA GasPriceKeepsIInv ==
    ASSUME IInv, NEW gas \in GasPrices, GasPrice(gas)
    PROVE  IInv'
  <1>1. /\ pc = "gas" /\ pc' = "nonce"
        /\ price' = BumpedGasPrice(price, gas, iteration) /\ iteration' = iteration + 1
        /\ UNCHANGED <<batch, attempt, tx, outcome, chainVars>>
    BY DEF GasPrice
  <1>2. price \in Nat /\ price >= 10 /\ gas \in Nat /\ iteration \in Nat
    BY <1>1 DEF IInv, TypeOK, PricesKept
  <1>3. \A p \in pool : p.price \in Nat /\ p.price <= price
    BY <1>1 DEF IInv, TypeOK, PricesKept, Transactions
  <1>4. price' \in Nat /\ price' >= 10
    BY <1>1, <1>2, BumpOutbids
  <1>5. \A p \in pool : price' * 100 >= p.price * 110
    BY <1>1, <1>2, <1>3, BumpOutbids
  <1>6. TypeOK' BY <1>1, <1>2, <1>4 DEF IInv, TypeOK, chainVars
  <1>7. PostingOpen' /\ PoolIsCurrent' /\ Awaited'
    BY <1>1 DEF IInv, PostingOpen, PoolIsCurrent, Awaited, chainVars
  <1>8. PricesKept' BY <1>1, <1>4, <1>5 DEF PricesKept, chainVars
  <1> QED BY <1>6, <1>7, <1>8 DEF IInv

\* The cancellation takes the nonce of the next block's transaction.
LEMMA CurrentNonceKeepsIInv ==
    ASSUME IInv, CurrentNonce
    PROVE  IInv'
  <1>1. /\ pc = "nonce" /\ pc' = "cancelSend"
        /\ tx' = [kind |-> "cancel", batch |-> batch, nonce |-> txCount, price |-> price]
        /\ UNCHANGED <<batch, price, attempt, iteration, outcome, chainVars>>
    BY DEF CurrentNonce, CancelNonce, Tx
  <1>2. TypeOK' BY <1>1 DEF IInv, TypeOK, Transactions, chainVars
  <1>3. PostingOpen' /\ PoolIsCurrent'
    BY <1>1 DEF IInv, PostingOpen, PoolIsCurrent, chainVars
  <1>4. Awaited' /\ PricesKept'
    BY <1>1 DEF IInv, TypeOK, Awaited, PricesKept, chainVars
  <1> QED BY <1>2, <1>3, <1>4 DEF IInv

\* The cancellation that is about to be sent: what it may leave in the pool.
LEMMA CancelInPool ==
    ASSUME IInv, pc = "cancelSend", Accepts(tx), pool' = PoolWith(tx)
    PROVE  /\ pool' = {tx} /\ tx \in Transactions
           /\ tx.nonce = txCount /\ tx.kind = "cancel" /\ tx.price = price
  BY PoolWithIsAlone DEF IInv, TypeOK, Transactions, Awaited, PricesKept

\* The cancellation replaces what it overrides.
LEMMA CancelSentKeepsIInv ==
    ASSUME IInv, CancelSent
    PROVE  IInv'
  <1>1. /\ pc = "cancelSend" /\ pc' = "cancelWait"
        /\ pool' = {tx} /\ tx \in Transactions
        /\ tx.nonce = txCount /\ tx.kind = "cancel" /\ tx.price = price
        /\ UNCHANGED <<batch, price, attempt, iteration, tx, outcome, txCount, mined, created>>
    BY CancelInPool DEF CancelSent
  <1>2. TypeOK' BY <1>1 DEF IInv, TypeOK
  <1>3. PostingOpen' /\ PoolIsCurrent'
    BY <1>1 DEF IInv, PostingOpen, PoolIsCurrent
  <1>4. Awaited' /\ PricesKept'
    BY <1>1 DEF IInv, TypeOK, Awaited, PricesKept
  <1> QED BY <1>2, <1>3, <1>4 DEF IInv

\* A cancellation that is tried again or given up; it may be pending all the same.
LEMMA CancelErrorsKeepsIInv ==
    ASSUME IInv, CancelErrors
    PROVE  IInv'
  <1>1. /\ pc \in {"gas", "nonce", "cancelSend", "cancelWait"}
        /\ UNCHANGED <<txCount, mined, created>>
    BY DEF CancelErrors
  <1>2. /\ pool' \subseteq Transactions
        /\ \A p \in pool' : p.nonce = txCount
        /\ \A p \in pool' : p.kind = "create" =>
             p.batch \in Batches /\ outcome[p.batch] \in {"open", "failed"}
        /\ \A p \in pool' : p.price <= price
    <2>1. CASE UNCHANGED pool
      <3>1. \A p \in pool : p.price \in Nat /\ price \in Nat
        BY DEF IInv, TypeOK, Transactions
      <3>2. \A p \in pool : p.price <= price
        BY <1>1, <3>1 DEF IInv, PricesKept
      <3> QED BY <2>1, <3>2 DEF IInv, TypeOK, PoolIsCurrent
    <2>2. CASE pc = "cancelSend" /\ Accepts(tx) /\ pool' = PoolWith(tx)
      BY <2>2, CancelInPool DEF IInv, TypeOK
    <2> QED BY <2>1, <2>2 DEF CancelErrors, Delivers
  <1>3. CASE Again("gas")
    <2>1. /\ attempt' = attempt + 1 /\ pc' = "gas" /\ UNCHANGED <<batch, price, tx, outcome>>
          /\ UNCHANGED iteration
      BY <1>3 DEF Again, CancelErrors
    <2>2. TypeOK' BY <1>1, <1>2, <2>1 DEF IInv, TypeOK
    <2>3. PostingOpen' BY <1>1, <2>1 DEF IInv, PostingOpen
    <2>4. PoolIsCurrent' BY <1>1, <1>2, <2>1 DEF IInv, PoolIsCurrent
    <2>5. Awaited' /\ PricesKept' BY <1>1, <1>2, <2>1 DEF IInv, Awaited, PricesKept
    <2> QED BY <2>2, <2>3, <2>4, <2>5 DEF IInv
  <1>4. CASE Returns("failed")
    BY <1>1, <1>2, <1>4, ReturnsClosesBatch
  <1> QED BY <1>3, <1>4 DEF CancelErrors, CancelRetry

\* A confirmed cancellation means that no task is pending.
LEMMA CancelConfirmedKeepsIInv ==
    ASSUME IInv, CancelConfirmed
    PROVE  IInv'
  <1>1. pc = "cancelWait" /\ Returns("cancelled") /\ UNCHANGED chainVars
    BY DEF CancelConfirmed
  <1>2. /\ pool' \subseteq Transactions
        /\ \A p \in pool' : p.nonce = txCount
        /\ \A p \in pool' : p.kind # "create"
        /\ UNCHANGED <<txCount, mined, created>>
    BY <1>1 DEF IInv, TypeOK, PoolIsCurrent, Awaited, chainVars
  <1> QED BY <1>1, <1>2, ReturnsClosesBatch

\* A block takes the transaction that is pending, which empties the pool.
LEMMA ChainKeepsIInv ==
    ASSUME IInv, NEW t \in pool, Mine(t) \/ Drop(t)
    PROVE  IInv'
  <1>1. UNCHANGED batcherVars BY DEF Mine, Drop
  <1>2. t \in Transactions BY DEF IInv, TypeOK
  <1>3. CASE Mine(t)
    <2>1. t.nonce = txCount /\ txCount' = txCount + 1 /\ mined' = mined \cup {t}
      BY <1>3 DEF Mine
    <2>2. pool' = {} BY <1>3 DEF Mine, IInv, PoolIsCurrent, TypeOK
    <2>3. created' \subseteq Batches
      BY <1>3 DEF Mine, IInv, TypeOK, PoolIsCurrent
    <2>4. TypeOK' BY <1>1, <1>2, <2>1, <2>2, <2>3 DEF IInv, TypeOK, batcherVars
    <2>5. PostingOpen' BY <1>1 DEF IInv, PostingOpen, batcherVars
    <2>6. PoolIsCurrent'
      <3>1. \A m \in mined' : m.nonce < txCount'
        BY <1>2, <2>1 DEF IInv, TypeOK, PoolIsCurrent, Transactions
      <3> QED BY <2>2, <3>1 DEF PoolIsCurrent
    <2>7. Awaited' /\ PricesKept'
      BY <1>1, <2>1, <2>2 DEF IInv, TypeOK, Transactions, Awaited, PricesKept, batcherVars
    <2> QED BY <2>4, <2>5, <2>6, <2>7 DEF IInv
  <1>4. CASE Drop(t)
    <2>1. pool' \subseteq pool /\ UNCHANGED <<txCount, mined, created>>
      BY <1>4 DEF Drop
    <2>2. TypeOK' BY <1>1, <2>1 DEF IInv, TypeOK, batcherVars
    <2>3. PostingOpen' BY <1>1 DEF IInv, PostingOpen, batcherVars
    <2>4. PoolIsCurrent' BY <1>1, <2>1 DEF IInv, PoolIsCurrent, batcherVars
    <2>5. Awaited' /\ PricesKept' BY <1>1, <2>1 DEF IInv, Awaited, PricesKept, batcherVars
    <2> QED BY <2>2, <2>3, <2>4, <2>5 DEF IInv
  <1> QED BY <1>3, <1>4

\* The invariant is inductive.
LEMMA NextKeepsIInv == IInv /\ [Next]_vars => IInv'
  <1> SUFFICES ASSUME IInv, [Next]_vars PROVE IInv'
    OBVIOUS
  <1>1. CASE UNCHANGED vars
    BY <1>1 DEF IInv, TypeOK, PostingOpen, PoolIsCurrent, Awaited, PricesKept,
                vars, batcherVars, chainVars
  <1>2. CASE \E b \in Batches, gas \in GasPrices : StartBatch(b, gas)
    BY <1>2, StartBatchKeepsIInv
  <1>3. CASE CreateStep
    BY <1>3, SimulateKeepsIInv, SendKeepsIInv, ReceiptKeepsIInv DEF CreateStep
  <1>4. CASE CancelStep
    BY <1>4, GasPriceKeepsIInv, CurrentNonceKeepsIInv, CancelSentKeepsIInv,
       CancelErrorsKeepsIInv, CancelConfirmedKeepsIInv DEF CancelStep
  <1>5. CASE ChainStep
    BY <1>5, ChainKeepsIInv DEF ChainStep
  <1>6. CASE Idle
    BY <1>1, <1>6 DEF Idle
  <1> QED BY <1>1, <1>2, <1>3, <1>4, <1>5, <1>6 DEF Next

\* The variables keep their types.
THEOREM TaskTypeCorrect == Spec => []TypeOK
  <1>1. IInv => TypeOK BY DEF IInv
  <1> QED BY InitIInv, NextKeepsIInv, <1>1, PTL DEF Spec

\* Whatever is pending, a cancellation pays enough to replace it.
THEOREM CancellationsOutbid == Spec => []OverridesOutbid
  <1>1. IInv => OverridesOutbid
    BY DEF IInv, OverridesOutbid, PricesKept, Outbids
  <1> QED BY InitIInv, NextKeepsIInv, <1>1, PTL DEF Spec

-----------------------------------------------------------------------------
\* A return of submit_batch is an abstract Succeed or Fail.
LEMMA ReturnsRefines ==
    ASSUME IInv, pc # "idle", NEW o \in {"ok", "failed", "cancelled"}, Returns(o),
           UNCHANGED mined, o = "ok" => batch \in OnChain
    PROVE  Abstract!Next
  <1>1. /\ batch \in Batches /\ outcome[batch] = "open"
        /\ outcome' = [outcome EXCEPT ![batch] = o]
    BY DEF IInv, PostingOpen, Returns
  <1>2. UNCHANGED OnChain BY DEF OnChain
  <1>3. CASE o = "ok"
    BY <1>1, <1>2, <1>3 DEF Abstract!Next, Abstract!Succeed
  <1>4. CASE o # "ok"
    BY <1>1, <1>2, <1>4 DEF Abstract!Next, Abstract!Fail
  <1> QED BY <1>3, <1>4

\* A step that changes neither the outcomes nor the blocks is an abstract stutter.
LEMMA OthersStutter ==
    ASSUME UNCHANGED <<outcome, mined>>
    PROVE  UNCHANGED Abstract!taskVars
  BY DEF Abstract!taskVars, OnChain

\* A step is a step of TaskSubmission, or changes neither outcomes nor blocks.
LEMMA StepRefines == IInv /\ [Next]_vars => [Abstract!Next]_Abstract!taskVars
  <1> SUFFICES ASSUME IInv, [Next]_vars, ~ UNCHANGED Abstract!taskVars
               PROVE  Abstract!Next
    OBVIOUS
  <1> ~ UNCHANGED <<outcome, mined>>
    BY OthersStutter
  <1>1. CASE \E b \in Batches, gas \in GasPrices : StartBatch(b, gas)
    <2>1. PICK b \in Batches, gas \in GasPrices : StartBatch(b, gas) BY <1>1
    <2>2. \A c \in Batches : outcome[c] # "open"
      BY <2>1 DEF StartBatch, IInv, PostingOpen
    <2>3. UNCHANGED OnChain BY <2>1 DEF StartBatch, chainVars, OnChain
    <2> QED BY <2>1, <2>2, <2>3 DEF StartBatch, Abstract!Next, Abstract!Submit
  <1>2. CASE CreateStep
    <2>1. CASE UploadFails \/ SimulateReverts \/ SimulateErrors \/ SendReverts \/ SendErrors
      <3>1. pc # "idle" /\ Returns("failed") /\ UNCHANGED mined
        BY <2>1 DEF UploadFails, SimulateReverts, SimulateErrors, SendReverts, SendErrors,
                    Again, chainVars
      <3> QED BY <3>1, ReturnsRefines
    <2>2. CASE Receipt
      <3>1. pc = "wait" /\ tx \in mined /\ Returns("ok") /\ UNCHANGED mined
        BY <2>2 DEF Receipt, chainVars
      <3>2. batch \in OnChain
        BY <3>1 DEF IInv, Awaited, OnChain
      <3> QED BY <3>1, <3>2, ReturnsRefines
    <2>3. CASE UploadOk \/ SimulateOk \/ SendOk \/ ReceiptNotFound
      BY <2>3 DEF UploadOk, SimulateOk, SendOk, ReceiptNotFound, chainVars
    <2> QED BY <1>2, <2>1, <2>2, <2>3 DEF CreateStep
  <1>3. CASE CancelStep
    <2>1. CASE CancelErrors
      <3>1. pc # "idle" /\ Returns("failed") /\ UNCHANGED mined
        BY <2>1 DEF CancelErrors, CancelRetry, Again
      <3> QED BY <3>1, ReturnsRefines
    <2>2. CASE CancelConfirmed
      <3>1. pc # "idle" /\ Returns("cancelled") /\ UNCHANGED mined
        BY <2>2 DEF CancelConfirmed, chainVars
      <3> QED BY <3>1, ReturnsRefines
    <2>3. CASE (\E gas \in GasPrices : GasPrice(gas)) \/ CurrentNonce \/ CancelSent
      BY <2>3 DEF GasPrice, CurrentNonce, CancelSent, chainVars
    <2> QED BY <1>3, <2>1, <2>2, <2>3 DEF CancelStep
  <1>4. CASE ChainStep
    <2>1. PICK t \in pool : Mine(t) BY <1>4 DEF ChainStep, Drop, batcherVars
    <2>2. mined' = mined \cup {t} /\ UNCHANGED outcome BY <2>1 DEF Mine, batcherVars
    <2>3. CASE t.kind = "create"
      <3>1. t.batch \in Batches /\ outcome[t.batch] \in {"open", "failed"}
        BY <2>3 DEF IInv, PoolIsCurrent
      <3>2. OnChain' = OnChain \cup {t.batch}
        BY <2>2, <2>3 DEF OnChain
      <3> QED BY <2>2, <3>1, <3>2 DEF Abstract!Next, Abstract!Mine
    <2>4. CASE t.kind # "create"
      <3>1. OnChain' = OnChain BY <2>2, <2>4 DEF OnChain
      <3> QED BY <2>2, <3>1 DEF Abstract!taskVars
    <2> QED BY <2>3, <2>4
  <1>5. CASE Idle \/ UNCHANGED vars
    BY <1>5 DEF Idle, vars, batcherVars, chainVars
  <1> QED BY <1>1, <1>2, <1>3, <1>4, <1>5 DEF Next

\* The detailed specification implements the abstract one: an Ok is on chain, and
\* a cancelled batch is not mined after its cancellation was confirmed.
THEOREM TaskRefinement == Spec => ImplementsTaskSubmission
  <1>1. Init => Abstract!Init
    BY DEF Init, Abstract!Init, OnChain
  <1> QED
    BY InitIInv, NextKeepsIInv, StepRefines, <1>1, PTL
       DEF Spec, ImplementsTaskSubmission, Abstract!Spec
=============================================================================
