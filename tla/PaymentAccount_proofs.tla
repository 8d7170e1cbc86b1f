------------------------ MODULE PaymentAccount_proofs ------------------------
(***************************************************************************)
(* Proofs about PaymentAccount: the poller sees every unlock before the    *)
(* funds can be withdrawn, and a proof that is then still in the queue got *)
(* there through one of the known windows, for all times and bounds that   *)
(* satisfy TimeAssumption and AmountAssumption.                            *)
(***************************************************************************)
EXTENDS PaymentAccount, TLAPS, SequenceTheorems

USE TimeAssumption, AmountAssumption

\* The unlock of the account that is open has not been seen by a poll.
Unseen == Unlocked /\ lastUnlock \notin seen

\* What the polls that failed in a row have cost.
Late == poller.failures * PollInterval

\* The time of the unlock is unlockTime - UnlockTime.  As long as it is unseen it is
\* in the range of the next poll, which is due one interval after it, and one more
\* for each poll that failed; and time waits for the poll that is due.
PollIsDue ==
    /\ lastUnlock <= block /\ poller.from <= block
    /\ \A b \in seen : b <= block
    /\ poller.next <= now + PollInterval
    /\ now <= poller.next + PollDelay
    /\ Unlocked => unlockTime <= now + UnlockTime
    /\ Unseen => /\ lastUnlock # 0 /\ poller.from <= lastUnlock
                 /\ poller.next + UnlockTime <= unlockTime + PollInterval + Late

\* Once the open unlock was seen, nothing that should have been removed is left.
WindowsOnly ==
    Unlocked /\ lastUnlock \in seen =>
        /\ handler # "none"
        /\ \A k \in DOMAIN queue : queue[k] # "none"
        /\ \A k \in DOMAIN batch : batch[k] # "none"

IInv == TypeOK /\ PollIsDue /\ WindowsOnly

-----------------------------------------------------------------------------
\* The failures in a row take at most MaxPollFailures intervals.
LEMMA FailuresBounded ==
    ASSUME NEW f \in 0..MaxPollFailures
    PROVE  /\ f * PollInterval \in Nat
           /\ f * PollInterval <= MaxPollFailures * PollInterval
  <1>1. PollInterval \in Nat /\ f \in Nat /\ MaxPollFailures \in Nat /\ f <= MaxPollFailures
    OBVIOUS
  <1>2. \A a, b, c \in Nat : a <= b => a * c \in Nat /\ a * c <= b * c
    BY SMT
  <1> QED BY <1>1, <1>2

\* What a sequence of proofs that is cut or put together holds.
Made(r, q) == \A k \in DOMAIN r : \E j \in DOMAIN q : r[k] = q[j]

\* A part of the queue.
LEMMA PartOfQueue ==
    ASSUME NEW q \in Seq(Windows), NEW m \in 1..(Len(q) + 1), NEW n \in 0..Len(q)
    PROVE  SubSeq(q, m, n) \in Seq(Windows) /\ Made(SubSeq(q, m, n), q)
  <1> DEFINE r == SubSeq(q, m, n)
  <1>1. Len(q) \in Nat /\ \A j \in 1..Len(q) : q[j] \in Windows
    BY LenProperties, ElementOfSeq
  <1>2. r \in Seq(Windows)
    BY <1>1, SubSeqProperties
  <1>3. Len(r) = (IF m <= n THEN n - m + 1 ELSE 0) /\ \A k \in 1..Len(r) : r[k] = q[m + k - 1]
    BY <1>1, SubSeqProperties
  <1>4. ASSUME NEW k \in DOMAIN r PROVE \E j \in DOMAIN q : r[k] = q[j]
    <2>1. k \in 1..Len(r) BY <1>2
    <2>2. m + k - 1 \in DOMAIN q BY <1>1, <1>3, <2>1
    <2> QED BY <1>3, <2>1, <2>2
  <1> QED BY <1>2, <1>4 DEF Made

\* A batch put back in front of the queue.
LEMMA JoinedQueue ==
    ASSUME NEW p \in Seq(Windows), NEW q \in Seq(Windows)
    PROVE  /\ p \o q \in Seq(Windows)
           /\ \A k \in DOMAIN (p \o q) : \/ \E j \in DOMAIN p : (p \o q)[k] = p[j]
                                         \/ \E j \in DOMAIN q : (p \o q)[k] = q[j]
  <1> DEFINE r == p \o q
  <1>1. r \in Seq(Windows) /\ Len(r) = Len(p) + Len(q) /\ Len(p) \in Nat /\ Len(q) \in Nat
    BY ConcatProperties, LenProperties
  <1>2. \A k \in 1..Len(r) : r[k] = IF k <= Len(p) THEN p[k] ELSE q[k - Len(p)]
    BY ConcatProperties
  <1>3. ASSUME NEW k \in DOMAIN r
        PROVE  (\E j \in DOMAIN p : r[k] = p[j]) \/ (\E j \in DOMAIN q : r[k] = q[j])
    <2>1. k \in 1..Len(r) BY <1>1
    <2>2. CASE k <= Len(p)
      BY <1>1, <1>2, <2>1, <2>2
    <2>3. CASE k > Len(p)
      <3>1. k - Len(p) \in DOMAIN q BY <1>1, <2>1, <2>3
      <3> QED BY <1>1, <1>2, <2>1, <2>3, <3>1
    <2> QED BY <1>1, <2>1, <2>2, <2>3
  <1> QED BY <1>1, <1>3

\* An empty account, before the first tick of the poller.
LEMMA InitIInv == Init => IInv
  BY DEF Init, Late, IInv, TypeOK, PollIsDue, WindowsOnly, Unseen, Unlocked, Windows

-----------------------------------------------------------------------------
\* The user's commands only change the transactions that are pending.
LEMMA UserKeepsIInv == IInv /\ UserStep => IInv'
  <1> SUFFICES ASSUME IInv, UserStep PROVE IInv'
    OBVIOUS
  <1>1. UNCHANGED <<now, chainVars, batcherVars>>
    BY DEF UserStep, DepositToBatcher, UnlockFunds, LockFunds, DepositToAligned,
           UnlockBalanceInAligned, LockBalanceInAligned, WithdrawFunds, WithdrawBalanceFromAligned, WithdrawFails, Send
  <1>2. /\ pool' \subseteq [kind : {"deposit", "unlock", "lock", "withdraw"}, amount : Nat]
        /\ withdrawing' \in Nat
    BY DEF UserStep, DepositToBatcher, UnlockFunds, LockFunds, DepositToAligned,
           UnlockBalanceInAligned, LockBalanceInAligned, WithdrawFunds, WithdrawBalanceFromAligned, WithdrawFails, Send, Tx,
           IInv, TypeOK
  <1>3. Late' = Late BY <1>1 DEF Late, batcherVars
  <1> QED
    BY <1>1, <1>2, <1>3 DEF IInv, TypeOK, PollIsDue, WindowsOnly, Unseen, Unlocked,
                            chainVars, batcherVars

\* A transaction that locks the account, or reverts, opens no unlock.
LEMMA ContractKeepsIInv == IInv /\ ContractStep => IInv'
  <1> SUFFICES ASSUME IInv, NEW tx \in pool,
                      Receive(tx) \/ Unlock(tx) \/ Lock(tx) \/ Withdraw(tx) \/ Revert(tx)
               PROVE  IInv'
    BY DEF ContractStep
  <1>1. /\ UNCHANGED <<now, withdrawing, batcherVars>>
        /\ pool' = pool \ {tx} /\ block' = block + 1
    BY DEF Receive, Unlock, Lock, Withdraw, Revert, Mine
  <1>2. tx.amount \in Nat BY DEF IInv, TypeOK
  <1>3. TypeOK'
    BY <1>1, <1>2, SMTT(30) DEF Receive, Unlock, Lock, Withdraw, Revert, CanWithdraw, IInv, TypeOK,
                      batcherVars
  <1>4. Late' = Late BY <1>1 DEF Late, batcherVars
  <1>5. CASE Unlock(tx)
    <2>1. unlockTime' = now + UnlockTime /\ lastUnlock' = block + 1
      BY <1>1, <1>5 DEF Unlock
    <2>2. block + 1 \notin seen BY DEF IInv, TypeOK, PollIsDue
    <2>3. poller.next + UnlockTime <= (now + UnlockTime) + PollInterval + Late
      <3>1. Late \in Nat BY FailuresBounded DEF IInv, TypeOK, Late
      <3> QED BY <3>1 DEF IInv, TypeOK, PollIsDue
    <2>4. PollIsDue'
      <3>1. /\ UNCHANGED <<now, seen, poller>> /\ block' = block + 1 /\ Late' = Late
            /\ block \in Nat /\ now \in Nat /\ poller.from \in Nat /\ UnlockTime \in Nat
        BY <1>1, <1>4 DEF batcherVars, IInv, TypeOK
      <3>2. lastUnlock' <= block' /\ poller'.from <= block' /\ \A b \in seen' : b <= block'
        BY <2>1, <3>1 DEF IInv, TypeOK, PollIsDue
      <3>3. /\ poller'.next <= now' + PollInterval /\ now' <= poller'.next + PollDelay
            /\ unlockTime' <= now' + UnlockTime
        BY <2>1, <3>1 DEF IInv, PollIsDue
      <3>4. /\ lastUnlock' # 0 /\ poller'.from <= lastUnlock'
            /\ poller'.next + UnlockTime <= unlockTime' + PollInterval + Late'
        BY <2>1, <2>3, <3>1 DEF IInv, PollIsDue
      <3> QED BY <3>2, <3>3, <3>4 DEF PollIsDue
    <2>5. WindowsOnly'
      BY <1>1, <2>1, <2>2 DEF WindowsOnly, batcherVars
    <2> QED BY <1>3, <2>4, <2>5 DEF IInv
  <1>6. CASE Receive(tx) \/ Lock(tx) \/ Withdraw(tx)
    <2>1. unlockTime' = 0 /\ lastUnlock' = lastUnlock
      BY <1>6 DEF Receive, Lock, Withdraw
    <2>2. PollIsDue' /\ WindowsOnly'
      BY <1>1, <2>1, SMTT(30) DEF IInv, TypeOK, PollIsDue, WindowsOnly, Unseen, Unlocked, batcherVars
    <2> QED BY <1>3, <2>2 DEF IInv
  <1>7. CASE Revert(tx)
    <2>1. unlockTime' = unlockTime /\ lastUnlock' = lastUnlock
      BY <1>7 DEF Revert
    <2>2. PollIsDue' /\ WindowsOnly'
      BY <1>1, <1>4, <2>1, SMTT(30) DEF IInv, TypeOK, PollIsDue, WindowsOnly, Unseen, Unlocked, batcherVars
    <2> QED BY <1>3, <2>2 DEF IInv
  <1> QED BY <1>5, <1>6, <1>7

-----------------------------------------------------------------------------
\* Proofs move between the handler, the queue and the batch: the poller is not touched.
LEMMA ProofsKeepIInv ==
    IInv /\ (CheckMessage \/ QueueProof \/ ExtractBatch \/ PostBatch \/ FlushQueue \/ RestoreProofs)
      => IInv'
  <1> SUFFICES ASSUME IInv, CheckMessage \/ QueueProof \/ ExtractBatch
                              \/ PostBatch \/ FlushQueue \/ RestoreProofs
               PROVE  IInv'
    OBVIOUS
  <1>1. UNCHANGED <<now, block, unlockTime, lastUnlock, userVars, seen, poller>>
    BY DEF CheckMessage, QueueProof, ExtractBatch, PostBatch, FlushQueue, RestoreProofs,
           BatchEnds, chainVars
  <1>2. PollIsDue'
    <2>1. Late' = Late BY <1>1 DEF Late
    <2> QED BY <1>1, <2>1 DEF IInv, PollIsDue, Unseen, Unlocked
  <1>t. queue \in Seq(Windows) /\ batch \in Seq(Windows) /\ balance \in Nat
    BY DEF IInv, TypeOK
  <1>3. CASE CheckMessage
    <2>1. /\ handler' = (IF Unlocked THEN "unchecked" ELSE "none")
          /\ UNCHANGED <<balance, queue, batch>>
      BY <1>3 DEF CheckMessage, MsgUserBalanceIsLocked, chainVars
    <2> QED BY <1>1, <1>2, <2>1 DEF IInv, TypeOK, WindowsOnly, Unlocked, Windows, userVars
  <1>4. CASE QueueProof
    <2>1. handler' = "idle" /\ handler # "idle" /\ UNCHANGED <<balance, batch>>
      BY <1>4 DEF QueueProof, chainVars
    <2>2. CASE UNCHANGED queue
      BY <1>1, <1>2, <2>1, <2>2 DEF IInv, TypeOK, WindowsOnly, Unlocked, userVars
    <2>3. CASE queue' = Append(queue, handler)
      <3>1. handler \in Windows
        BY <2>1 DEF IInv, TypeOK
      <3>2. queue' \in Seq(Windows) BY <1>t, <2>3, <3>1
      <3>3. WindowsOnly'
        <4> SUFFICES ASSUME Unlocked', (lastUnlock \in seen)'
                     PROVE  /\ handler' # "none" /\ \A k \in DOMAIN queue' : queue'[k] # "none"
                            /\ \A k \in DOMAIN batch' : batch'[k] # "none"
          BY DEF WindowsOnly
        <4>1. /\ handler # "none" /\ \A k \in DOMAIN queue : queue[k] # "none"
              /\ \A k \in DOMAIN batch : batch[k] # "none"
          BY <1>1 DEF IInv, WindowsOnly, Unlocked
        <4> QED BY <1>t, <2>1, <2>3, <3>1, <4>1
      <3> QED BY <1>1, <1>2, <2>1, <3>2, <3>3 DEF IInv, TypeOK, userVars
    <2> QED BY <1>4, <2>2, <2>3 DEF QueueProof
  <1>5. CASE ExtractBatch
    <2>1. PICK n \in 1..Len(queue) : /\ batch' = SubSeq(queue, 1, n)
                                     /\ queue' = SubSeq(queue, n + 1, Len(queue))
      BY <1>5 DEF ExtractBatch
    <2>2. UNCHANGED <<balance, handler>>
      BY <1>5 DEF ExtractBatch, chainVars
    <2>3. /\ batch' \in Seq(Windows) /\ Made(batch', queue)
          /\ queue' \in Seq(Windows) /\ Made(queue', queue)
      <3>1. Len(queue) \in Nat BY <1>t
      <3>2. n \in 0..Len(queue) /\ n + 1 \in 1..(Len(queue) + 1) /\ 1 \in 1..(Len(queue) + 1)
        BY <3>1
      <3>3. SubSeq(queue, 1, n) \in Seq(Windows) /\ Made(SubSeq(queue, 1, n), queue)
        BY <1>t, <3>2, PartOfQueue
      <3>4. /\ SubSeq(queue, n + 1, Len(queue)) \in Seq(Windows)
            /\ Made(SubSeq(queue, n + 1, Len(queue)), queue)
        <4> DEFINE m == n + 1
        <4>1. m \in 1..(Len(queue) + 1) /\ Len(queue) \in 0..Len(queue) BY <3>1, <3>2
        <4> HIDE DEF m
        <4>2. SubSeq(queue, m, Len(queue)) \in Seq(Windows) /\ Made(SubSeq(queue, m, Len(queue)), queue)
          BY <1>t, <4>1, PartOfQueue
        <4> QED BY <4>2 DEF m
      <3> QED BY <2>1, <3>3, <3>4
    <2>4. WindowsOnly'
      BY <1>1, <2>2, <2>3 DEF IInv, WindowsOnly, Unlocked, Made
    <2> QED BY <1>1, <1>2, <2>2, <2>3, <2>4 DEF IInv, TypeOK, userVars
  <1>6. CASE PostBatch \/ FlushQueue \/ RestoreProofs
    <2>1. batch' = <<>> /\ UNCHANGED handler
      BY <1>6 DEF PostBatch, FlushQueue, RestoreProofs, BatchEnds
    <2>2. balance' \in Nat
      <3> DEFINE m == Len(batch) * Fee
      <3>1. Len(batch) \in Nat /\ Fee \in Nat BY <1>t
      <3>2. m \in Nat BY <3>1
      <3> HIDE DEF m
      <3>3. balance' = balance \/ (balance >= m /\ balance' = balance - m)
        BY <1>6 DEF PostBatch, FlushQueue, RestoreProofs, Charge, Pays, m
      <3> QED BY <1>t, <3>2, <3>3
    <2>3. queue' = queue \/ queue' = <<>> \/ queue' = batch \o queue
      BY <1>6 DEF PostBatch, FlushQueue, RestoreProofs
    <2>4. queue' \in Seq(Windows)
      <3>1. batch \o queue \in Seq(Windows) BY <1>t, JoinedQueue
      <3>2. <<>> \in Seq(Windows) OBVIOUS
      <3> QED BY <1>t, <2>3, <3>1, <3>2
    <2>5. WindowsOnly'
      <3> SUFFICES ASSUME Unlocked', (lastUnlock \in seen)'
                   PROVE  /\ handler' # "none" /\ \A k \in DOMAIN queue' : queue'[k] # "none"
                          /\ \A k \in DOMAIN batch' : batch'[k] # "none"
        BY DEF WindowsOnly
      <3>1. /\ handler # "none" /\ \A k \in DOMAIN queue : queue[k] # "none"
            /\ \A k \in DOMAIN batch : batch[k] # "none"
        BY <1>1 DEF IInv, WindowsOnly, Unlocked
      <3>2. CASE queue' = batch \o queue
        <4>1. \A k \in DOMAIN queue' : queue'[k] # "none"
          BY <1>t, <3>1, <3>2, JoinedQueue
        <4> QED BY <2>1, <3>1, <4>1
      <3>3. CASE queue' = queue \/ queue' = <<>>
        BY <2>1, <3>1, <3>3
      <3> QED BY <2>3, <3>2, <3>3
    <2>6. batch' \in Seq(Windows)
      BY <2>1
    <2> QED BY <1>1, <1>2, <2>1, <2>2, <2>4, <2>5, <2>6 DEF IInv, TypeOK, userVars
  <1> QED BY <1>3, <1>4, <1>5, <1>6

\* A poll that succeeds sees the open unlock, and passes nothing by unmarked.
LEMMA PollKeepsIInv == IInv /\ (PollEvents \/ SkipRemoval) => IInv'
  <1> SUFFICES ASSUME IInv, PollEvents \/ SkipRemoval PROVE IInv'
    OBVIOUS
  <1>1. /\ now >= poller.next
        /\ poller' = [from |-> block, next |-> poller.next + PollInterval, failures |-> 0]
        /\ seen' = (IF EventFound THEN seen \cup {lastUnlock} ELSE seen)
        /\ handler' = (IF MustRemove /\ handler = "none" THEN "raced" ELSE handler)
        /\ batch' = [k \in DOMAIN batch |-> IF MustRemove THEN "restored" ELSE batch[k]]
        /\ UNCHANGED <<now, chainVars, userVars>>
    BY DEF PollEvents, SkipRemoval, Polled, Polls, NextTick
  <1>2. /\ queue' \in Seq(Windows)
        /\ MustRemove => \A k \in DOMAIN queue' : queue'[k] # "none"
        /\ ~MustRemove => queue' = queue
    <2>1. queue \in Seq(Windows) BY DEF IInv, TypeOK
    <2>2. CASE PollEvents BY <2>1, <2>2 DEF PollEvents
    <2>3. CASE SkipRemoval
      <3>1. queue' = [k \in 1..Len(queue) |-> "skipped"] /\ MustRemove
        BY <2>1, <2>3 DEF SkipRemoval
      <3> QED BY <2>1, <3>1 DEF Windows
    <2> QED BY <2>2, <2>3
  <1>b. /\ batch' \in Seq(Windows)
        /\ MustRemove => \A k \in DOMAIN batch' : batch'[k] # "none"
        /\ ~MustRemove => batch' = batch
    <2>1. batch \in Seq(Windows) BY DEF IInv, TypeOK
    <2>2. CASE MustRemove
      <3>1. batch' = [k \in 1..Len(batch) |-> "restored"]
        BY <1>1, <2>1, <2>2
      <3> QED BY <2>1, <2>2, <3>1 DEF Windows
    <2>3. CASE ~MustRemove
      <3>1. batch' = [k \in DOMAIN batch |-> batch[k]]
        BY <1>1, <2>3
      <3>2. batch' = batch
        BY <2>1, <3>1
      <3> QED BY <2>1, <2>3, <3>2
    <2> QED BY <2>2, <2>3
  <1>3. TypeOK'
    <2>1. handler' \in Windows \cup {"idle"}
      BY <1>1 DEF IInv, TypeOK, Windows
    <2>2. seen' \subseteq Nat /\ poller' \in [from : Nat, next : Nat, failures : 0..MaxPollFailures]
      BY <1>1 DEF IInv, TypeOK, chainVars
    <2> QED BY <1>1, <1>2, <1>b, <2>1, <2>2 DEF IInv, TypeOK, chainVars, userVars
  <1>4. ~Unseen'
    BY <1>1 DEF IInv, TypeOK, PollIsDue, Unseen, Unlocked, EventFound, chainVars
  <1>5. PollIsDue'
    BY <1>1, <1>4 DEF IInv, TypeOK, PollIsDue, Unlocked, chainVars
  <1>6. WindowsOnly'
    <2>1. CASE MustRemove
      BY <1>1, <1>2, <1>b, <2>1 DEF WindowsOnly
    <2>2. CASE ~MustRemove
      <3>1. queue' = queue /\ handler' = handler /\ batch' = batch
        BY <1>1, <1>2, <1>b, <2>2
      <3>2. Unlocked => ~EventFound BY <2>2 DEF MustRemove
      <3> QED BY <1>1, <3>1, <3>2 DEF IInv, WindowsOnly, Unlocked, chainVars
    <2> QED BY <2>1, <2>2
  <1> QED BY <1>3, <1>5, <1>6 DEF IInv

\* A poll that fails leaves the range as it was, and is one interval late.
LEMMA PollFailsKeepsIInv == IInv /\ PollFails => IInv'
  <1> SUFFICES ASSUME IInv, PollFails PROVE IInv'
    OBVIOUS
  <1>1. /\ now >= poller.next /\ poller.failures < MaxPollFailures
        /\ poller' = [poller EXCEPT !.next = poller.next + PollInterval,
                                    !.failures = poller.failures + 1]
        /\ UNCHANGED <<now, chainVars, userVars, seen, handler, queue, batch>>
    BY DEF PollFails, Polls, NextTick
  <1>2. /\ poller \in [from : Nat, next : Nat, failures : 0..MaxPollFailures]
        /\ PollInterval \in Nat /\ MaxPollFailures \in Nat
    BY DEF IInv, TypeOK
  <1>3. /\ poller'.from = poller.from
        /\ poller'.next = poller.next + PollInterval
        /\ poller'.failures = poller.failures + 1
        /\ poller' \in [from : Nat, next : Nat, failures : 0..MaxPollFailures]
    <2>1. poller.next + PollInterval \in Nat BY <1>2
    <2>2. poller.failures + 1 \in 0..MaxPollFailures BY <1>1, <1>2
    <2> QED BY <1>1, <1>2, <2>1, <2>2
  <1>4. TypeOK' /\ WindowsOnly'
    BY <1>1, <1>3 DEF IInv, TypeOK, WindowsOnly, Unlocked, chainVars, userVars
  <1>5. Late \in Nat /\ Late' = Late + PollInterval
    <2>1. \A a, b \in Nat : (a + 1) * b = a * b + b BY SMT
    <2> QED BY <1>2, <1>3, <2>1, FailuresBounded DEF Late
  <1>6. PollIsDue'
    <2>1. /\ now \in Nat /\ unlockTime \in Nat /\ UnlockTime \in Nat /\ PollDelay \in Nat
      BY DEF IInv, TypeOK
    <2>2. Unseen => poller'.next + UnlockTime <= unlockTime + PollInterval + Late'
      BY <1>2, <1>3, <1>5, <2>1 DEF IInv, PollIsDue
    <2>3. poller'.next <= now + PollInterval /\ now <= poller'.next + PollDelay
      BY <1>1, <1>2, <1>3, <2>1 DEF IInv, PollIsDue
    <2>4. Unseen' <=> Unseen BY <1>1 DEF Unseen, Unlocked, chainVars
    <2> QED
      BY <1>1, <1>3, <2>2, <2>3, <2>4 DEF IInv, PollIsDue, Unlocked, chainVars
  <1> QED BY <1>4, <1>6 DEF IInv

\* Time stops at the end of the poll that is due, so that no poll is later than PollDelay.
LEMMA TickKeepsIInv == IInv /\ Tick => IInv'
  <1> SUFFICES ASSUME IInv, Tick PROVE IInv'
    OBVIOUS
  <1>1. /\ now' = now + 1 /\ now < poller.next + PollDelay
        /\ UNCHANGED <<chainVars, userVars, batcherVars>>
    BY DEF Tick
  <1>2. /\ now \in Nat /\ poller.next \in Nat /\ PollDelay \in Nat /\ PollInterval \in Nat
        /\ unlockTime \in Nat /\ UnlockTime \in Nat
    BY DEF IInv, TypeOK
  <1>3. TypeOK' /\ WindowsOnly'
    BY <1>1 DEF IInv, TypeOK, WindowsOnly, Unlocked, chainVars, userVars, batcherVars
  <1>4. PollIsDue'
    <2>1. Late' = Late BY <1>1 DEF Late, batcherVars
    <2> QED BY <1>1, <1>2, <2>1 DEF IInv, PollIsDue, Unseen, Unlocked, chainVars, batcherVars
  <1> QED BY <1>3, <1>4 DEF IInv

\* The invariant is inductive.
LEMMA NextKeepsIInv == IInv /\ [Next]_vars => IInv'
  <1> SUFFICES ASSUME IInv, [Next]_vars PROVE IInv'
    OBVIOUS
  <1>1. CASE UNCHANGED vars
    <2>1. Late' = Late BY <1>1 DEF Late, vars, batcherVars
    <2> QED BY <1>1, <2>1 DEF IInv, TypeOK, PollIsDue, WindowsOnly, Unseen, Unlocked,
                              vars, chainVars, userVars, batcherVars
  <1>2. CASE Next
    BY <1>2, UserKeepsIInv, ContractKeepsIInv, ProofsKeepIInv, PollKeepsIInv,
       PollFailsKeepsIInv, TickKeepsIInv DEF Next, BatcherStep
  <1> QED BY <1>1, <1>2

\* An unlock that no poll has seen cannot be withdrawn yet: the polls that failed
\* and the one that is due fit into UnlockTime.
LEMMA UnseenIsLocked == IInv => SeenInTime
  <1> SUFFICES ASSUME IInv, Withdrawable, Unseen PROVE FALSE
    BY DEF SeenInTime, Withdrawable, Unseen
  <1> DEFINE Most == MaxPollFailures * PollInterval
  <1>1. /\ now \in Nat /\ poller.next \in Nat /\ unlockTime \in Nat
        /\ UnlockTime \in Nat /\ PollDelay \in Nat /\ PollInterval \in Nat
    BY DEF IInv, TypeOK
  <1>2. Late \in Nat /\ Most \in Nat /\ Late <= Most
    BY FailuresBounded DEF IInv, TypeOK, Late
  <1>3. (MaxPollFailures + 1) * PollInterval = Most + PollInterval
    <2>1. \A a, b \in Nat : (a + 1) * b = a * b + b BY SMT
    <2> QED BY <1>1, <2>1
  <1>4. UnlockTime > Most + PollInterval + PollDelay BY <1>3
  <1>5. /\ poller.next + UnlockTime <= unlockTime + PollInterval + Late
        /\ now <= poller.next + PollDelay /\ unlockTime <= now
    BY DEF IInv, PollIsDue, Withdrawable
  <1> HIDE DEF Most
  <1> QED BY <1>1, <1>2, <1>4, <1>5

\* The variables keep their types: no batch and no withdrawal overdraws the account.
THEOREM AccountTypeCorrect == Spec => []TypeOK
  <1>1. IInv => TypeOK BY DEF IInv
  <1> QED BY InitIInv, NextKeepsIInv, <1>1, PTL DEF Spec

\* Every unlock is seen by a poll before the funds can be withdrawn.
THEOREM UnlockSeenInTime == Spec => []SeenInTime
  BY InitIInv, NextKeepsIInv, UnseenIsLocked, PTL DEF Spec

\* A proof of a user who can withdraw is in the queue through one of four windows
\* only; the fourth is the restoration of a failed batch.
THEOREM KnownWindows == Spec => []OnlyKnownWindows
  <1>1. IInv => OnlyKnownWindows
    BY UnseenIsLocked DEF IInv, SeenInTime, OnlyKnownWindows, WindowsOnly, Withdrawable
  <1> QED BY InitIInv, NextKeepsIInv, <1>1, PTL DEF Spec
=============================================================================
