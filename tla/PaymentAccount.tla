--------------------------- MODULE PaymentAccount ---------------------------
(***************************************************************************)
(* One user's account in BatcherPaymentService over time: the commands of  *)
(* the CLI and the SDK calls that change it, the batches that charge it,   *)
(* and the batcher's poller of BalanceUnlocked events, which has to see an *)
(* unlock before the funds can be withdrawn.  Batcher, which has no clock, *)
(* takes that for granted in its action Withdraw.                          *)
(*                                                                         *)
(* A block holds one transaction of the account; its timestamp is now.     *)
(***************************************************************************)
EXTENDS Integers, Sequences, FiniteSets

CONSTANTS
    UnlockTime,         \* UNLOCK_BLOCK_TIME
    PollInterval,       \* balance_unlock_polling_interval_seconds
    PollDelay,          \* what the calls of a poll may take, retries included
    MaxPollFailures,    \* polls that fail in a row
    ClockSkew,          \* how far the user's clock may be ahead of the chain's
    Amounts,            \* deposits and withdrawals
    Fee,                \* fee_per_proof
    MaxBalance, MaxPool, MaxQueue, MaxBlocks, MaxTime       \* bounds

ASSUME TimeAssumption ==
    /\ PollInterval \in Nat \ {0} /\ PollDelay \in Nat
    /\ MaxPollFailures \in Nat /\ ClockSkew \in Nat /\ UnlockTime \in Nat
    /\ UnlockTime > (MaxPollFailures + 1) * PollInterval + PollDelay

ASSUME AmountAssumption == Amounts \subseteq Nat /\ Fee \in Nat

VARIABLES
    now,
    block,          \* number of the latest block
    balance,        \* userData[user].balance
    unlockTime,     \* userData[user].unlockBlockTime
    lastUnlock,     \* block of the last BalanceUnlocked event, 0 if none
    seen,           \* blocks whose event a poll returned
    pool,           \* transactions of the user that are not mined
    withdrawing,    \* amount of a WithdrawFunds command past its checks, or 0
    poller,         \* from_block, the time of the next tick, failures in a row
    handler,        \* handle_submit_proof_msg between its check and the queue
    queue,          \* the user's proofs in the queue: how each got past an unlock
    batch           \* the user's proofs in the batch that is being submitted

chainVars == <<block, balance, unlockTime, lastUnlock>>
userVars == <<pool, withdrawing>>
batcherVars == <<seen, poller, handler, queue, batch>>
vars == <<now, chainVars, userVars, batcherVars>>

\* How a proof may be in the queue of a user whose unlock was seen: it was checked
\* before and queued after the poll, the check or the removal did not happen, or it
\* was in flight at the removal and its batch failed.
Windows == {"none", "raced", "unchecked", "skipped", "restored"}

Init ==
    /\ now = 0 /\ block = 0
    /\ balance = 0 /\ unlockTime = 0 /\ lastUnlock = 0 /\ seen = {}
    /\ pool = {} /\ withdrawing = 0
    /\ poller = [from |-> 0, next |-> 0, failures |-> 0]
    /\ handler = "idle" /\ queue = <<>> /\ batch = <<>>

Unlocked == unlockTime # 0

\* Requires of unlock, lock and withdraw.
HasFunds == balance > 0
CanWithdraw(amount) == balance >= amount /\ Unlocked /\ unlockTime <= now

-----------------------------------------------------------------------------
(***************************************************************************)
(* The user.  send() estimates the gas first, and a call that would revert *)
(* is not sent.  The receipt's status is not read.                         *)
(***************************************************************************)
Send(tx) ==
    /\ Cardinality(pool) < MaxPool /\ block < MaxBlocks
    /\ pool' = pool \cup {tx}
    /\ UNCHANGED <<now, chainVars, batcherVars>>

Tx(kind, amount) == [kind |-> kind, amount |-> amount]

\* The calls of the SDK ...
DepositToAligned(amount) == balance + amount <= MaxBalance /\ Send(Tx("deposit", amount))

UnlockBalanceInAligned == HasFunds /\ Send(Tx("unlock", 0))

LockBalanceInAligned == HasFunds /\ Send(Tx("lock", 0))

GetUnlockBlockTime == unlockTime

\* ... and the commands of the CLI.
DepositToBatcher(amount) == DepositToAligned(amount) /\ UNCHANGED withdrawing

UnlockFunds == UnlockBalanceInAligned /\ UNCHANGED withdrawing

LockFunds == LockBalanceInAligned /\ UNCHANGED withdrawing

\* The unlock time is compared with the clock of the user's machine.
WithdrawFunds(amount) ==
    /\ withdrawing = 0
    /\ GetUnlockBlockTime # 0
    /\ \E clock \in now..(now + ClockSkew) : GetUnlockBlockTime <= clock
    /\ withdrawing' = amount
    /\ UNCHANGED <<now, chainVars, pool, batcherVars>>

WithdrawBalanceFromAligned ==
    /\ withdrawing # 0 /\ CanWithdraw(withdrawing)
    /\ Send(Tx("withdraw", withdrawing))
    /\ withdrawing' = 0

WithdrawFails ==
    /\ withdrawing # 0 /\ ~CanWithdraw(withdrawing)
    /\ withdrawing' = 0
    /\ UNCHANGED <<now, chainVars, pool, batcherVars>>

-----------------------------------------------------------------------------
(***************************************************************************)
(* BatcherPaymentService.  A transaction whose requirement no longer holds *)
(* reverts.                                                                *)
(***************************************************************************)
Mine(tx) ==
    /\ tx \in pool
    /\ pool' = pool \ {tx}
    /\ block' = block + 1
    /\ UNCHANGED <<now, withdrawing, batcherVars>>

Receive(tx) ==
    /\ tx.kind = "deposit" /\ Mine(tx)
    /\ balance' = balance + tx.amount /\ unlockTime' = 0
    /\ UNCHANGED lastUnlock

Unlock(tx) ==
    /\ tx.kind = "unlock" /\ HasFunds /\ Mine(tx)
    /\ unlockTime' = now + UnlockTime
    /\ lastUnlock' = block'
    /\ UNCHANGED balance

Lock(tx) ==
    /\ tx.kind = "lock" /\ HasFunds /\ Mine(tx)
    /\ unlockTime' = 0
    /\ UNCHANGED <<balance, lastUnlock>>

Withdraw(tx) ==
    /\ tx.kind = "withdraw" /\ CanWithdraw(tx.amount) /\ Mine(tx)
    /\ balance' = balance - tx.amount /\ unlockTime' = 0
    /\ UNCHANGED lastUnlock

Revert(tx) ==
    /\ \/ tx.kind \in {"unlock", "lock"} /\ ~HasFunds
       \/ tx.kind = "withdraw" /\ ~CanWithdraw(tx.amount)
    /\ Mine(tx)
    /\ UNCHANGED <<balance, unlockTime, lastUnlock>>

-----------------------------------------------------------------------------
(***************************************************************************)
(* The batcher                                                             *)
(***************************************************************************)
\* The check is left out.
NoLockCheck == handler' = "none"

\* msg_user_balance_is_locked: unlocked funds are refused, but a query that fails
\* counts as locked funds.
MsgUserBalanceIsLocked == handler' = IF Unlocked THEN "unchecked" ELSE "none"

CheckMessage ==
    /\ handler = "idle"
    /\ MsgUserBalanceIsLocked
    /\ UNCHANGED <<now, chainVars, userVars, seen, poller, queue, batch>>

\* The proof is queued if the balance covers it and those in the queue.  Those in
\* flight are counted as well, unless a removal has reset the user's state.
QueueProof ==
    /\ handler # "idle" /\ handler' = "idle"
    /\ \/ /\ Len(queue) + Len(batch) < MaxQueue
          /\ balance >= (Len(queue) + 1) * Fee
          /\ queue' = Append(queue, handler)
       \/ UNCHANGED queue
    /\ UNCHANGED <<now, chainVars, userVars, seen, poller, batch>>

\* extract_batch_if_ready: a batch with the user's first n proofs.
ExtractBatch ==
    /\ batch = <<>>
    /\ \E n \in 1..Len(queue) :
          batch' = SubSeq(queue, 1, n) /\ queue' = SubSeq(queue, n + 1, Len(queue))
    /\ UNCHANGED <<now, chainVars, userVars, seen, poller, handler>>

\* A batch is charged whatever the balance.
AlwaysPays(n) == TRUE

\* createNewTask: the balance covers n proofs.
Pays(n) == balance >= n * Fee

Charge == Pays(Len(batch)) /\ balance' = balance - Len(batch) * Fee

BatchEnds ==
    /\ batch # <<>> /\ batch' = <<>>
    /\ UNCHANGED <<now, block, unlockTime, lastUnlock, userVars, seen, poller, handler>>

\* The batch is on chain and paid for.
PostBatch == BatchEnds /\ Charge /\ UNCHANGED queue

\* The user cannot pay: nothing of the batch comes back, and the queue is flushed.
FlushQueue == BatchEnds /\ ~Pays(Len(batch)) /\ queue' = <<>> /\ UNCHANGED balance

\* restore_proofs_after_batch_failure: the submission failed, or was only reported
\* as failed, and the proofs go back to the queue whatever happened to their user.
RestoreProofs ==
    /\ BatchEnds
    /\ queue' = batch \o queue
    /\ UNCHANGED balance \/ Charge

\* poll_balance_unlocked_events: a tick of the interval.
Polls == now >= poller.next

NextTick == poller.next + PollInterval

\* query_balance_unlocked_events: from_block to the current block, both included.
EventFound == lastUnlock # 0 /\ poller.from <= lastUnlock

\* The proofs are to be removed: the funds are still unlocked.
MustRemove == EventFound /\ Unlocked

\* from_block advances.  A handler between its check and the queue is passed by, and
\* so is a batch in flight.
Polled ==
    /\ Polls
    /\ poller' = [from |-> block, next |-> NextTick, failures |-> 0]
    /\ seen' = IF EventFound THEN seen \cup {lastUnlock} ELSE seen
    /\ handler' = IF MustRemove /\ handler = "none" THEN "raced" ELSE handler
    /\ batch' = [k \in DOMAIN batch |-> IF MustRemove THEN "restored" ELSE batch[k]]
    /\ UNCHANGED <<now, chainVars, userVars>>

\* process_balance_unlocked_events
PollEvents ==
    /\ Polled
    /\ queue' = IF MustRemove THEN <<>> ELSE queue

\* A lock is not acquired in time, user_balance_is_unlocked fails, or the user's
\* state does not count the proofs, since an earlier removal took the state away
\* before they were restored: from_block advances all the same.
SkipRemoval ==
    /\ Polled /\ MustRemove
    /\ queue' = [k \in DOMAIN queue |-> "skipped"]

\* An error that moves from_block on.
PollFailsAndAdvances ==
    /\ Polls /\ poller.failures < MaxPollFailures
    /\ poller' = [from |-> block + 1, next |-> NextTick, failures |-> poller.failures + 1]
    /\ UNCHANGED <<now, chainVars, userVars, seen, handler, queue, batch>>

\* On error from_block is kept, and the same range is polled next time.
PollFails ==
    /\ Polls /\ poller.failures < MaxPollFailures
    /\ poller' = [poller EXCEPT !.next = NextTick, !.failures = @ + 1]
    /\ UNCHANGED <<now, chainVars, userVars, seen, handler, queue, batch>>

\* Time passes, up to the end of the poll that is due.
Tick ==
    /\ now < MaxTime /\ now < poller.next + PollDelay
    /\ now' = now + 1
    /\ UNCHANGED <<chainVars, userVars, batcherVars>>

-----------------------------------------------------------------------------
UserStep ==
    \/ \E amount \in Amounts : DepositToBatcher(amount) \/ WithdrawFunds(amount)
    \/ UnlockFunds \/ LockFunds
    \/ WithdrawBalanceFromAligned \/ WithdrawFails

ContractStep ==
    \E tx \in pool : Receive(tx) \/ Unlock(tx) \/ Lock(tx) \/ Withdraw(tx) \/ Revert(tx)

BatcherStep ==
    \/ CheckMessage \/ QueueProof
    \/ ExtractBatch \/ PostBatch \/ FlushQueue \/ RestoreProofs
    \/ PollEvents \/ SkipRemoval \/ PollFails

Next == UserStep \/ ContractStep \/ BatcherStep \/ Tick

Spec == Init /\ [][Next]_vars

-----------------------------------------------------------------------------
(***************************************************************************)
(* Properties                                                              *)
(***************************************************************************)
\* The variables have their types; the balance is never negative.
TypeOK ==
    /\ now \in Nat /\ block \in Nat
    /\ balance \in Nat /\ unlockTime \in Nat /\ lastUnlock \in Nat
    /\ seen \subseteq Nat
    /\ pool \subseteq [kind : {"deposit", "unlock", "lock", "withdraw"}, amount : Nat]
    /\ withdrawing \in Nat
    /\ poller \in [from : Nat, next : Nat, failures : 0..MaxPollFailures]
    /\ handler \in Windows \cup {"idle"}
    /\ queue \in Seq(Windows) /\ batch \in Seq(Windows)

\* The funds can be withdrawn.
Withdrawable == Unlocked /\ unlockTime <= now

\* When the funds can be withdrawn, a poll has returned the event of their unlock,
\* although polls fail and come late: the hour is longer than the polls need.
SeenInTime == Withdrawable => lastUnlock \in seen

\* The comments in handle_submit_proof_msg ("some blocks should pass until he can
\* withdraw") and process_balance_unlocked_events ("a brief period between the
\* checks and the removal"): when the funds can be withdrawn, a proof is still in
\* the queue only if it was checked before the poll and queued after it, if its
\* check failed, if the removal was skipped, or if it was in a batch at the removal
\* and came back when the batch failed.  The comments know the first of the four.
OnlyKnownWindows ==
    Withdrawable => \A k \in DOMAIN queue : queue[k] # "none"
=============================================================================
