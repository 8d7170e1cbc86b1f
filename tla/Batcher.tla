------------------------------ MODULE Batcher ------------------------------
(***************************************************************************)
(* The batcher's shared state (crates/batcher/src/lib.rs): the proof       *)
(* queue, the cached user states, the batch being posted, and the tasks    *)
(* that work on them.                                                      *)
(*                                                                         *)
(* A step is what a task does between two points at which another task can *)
(* run and see the difference: an await on the chain, or on a lock that is *)
(* taken after something was read.  What a task does under batch_state     *)
(* without such a point is one step.  Lock waiting itself (order, deadlock *)
(* and timeouts) is the subject of BatcherLocks; here a wait that may time *)
(* out can always do so (Abandon), and the two places where a task waits   *)
(* for a lock it holds itself leave batchLock "stuck" for good.            *)
(*                                                                         *)
(* Left out: message parsing, signatures, chain id, payment address, proof *)
(* size and minimum fee checks of handle_submit_proof_msg (a message that  *)
(* fails them changes nothing), metrics and telemetry.  A message of the   *)
(* non-paying address is a message of user NonPaying with a fixed fee.     *)
(* The block interval check of extract_batch_if_ready is in BatcherLocks:  *)
(* here a block that is due may come at any time.                          *)
(***************************************************************************)
EXTENDS BatchQueue

CONSTANTS
    Users,              \* addresses
    Handlers,           \* websocket connections: one message at a time each
    Serves,             \* Serves[h]: the users that send over connection h
    Fees,               \* max_fee of a message
    Sizes,              \* serialized size of a proof
    GasPrices,          \* gas prices a block may bring
    MaxNonce,           \* bound: messages have nonces below it
    MaxQueueSize,       \* max_size of BatchState
    MinBumpPercentage,  \* min_bump_percentage
    Deposit,            \* balance of every user at the start
    NonPaying,          \* get_nonpaying_replacement_addr(), or None
    Unlimited,          \* U256::MAX as last_max_fee_limit
    UsizeModulus,       \* usize arithmetic wraps here (2^64 in the code)
    Arcs,               \* identities of Arc<Mutex<UserState>> allocations
    None,
    SubmissionFaults,   \* how a submission may fail: "error", "late"
    Unlockers,          \* users that unlock and withdraw their funds
    UnlockQueryFails,   \* user_balance_is_unlocked may fail: it then says no
    VerifiersChange     \* whether the disabled verifiers bitmap changes

ASSUME BatcherAssumption ==
    /\ None \notin Users /\ None \notin Arcs
    /\ Serves \in [Handlers -> SUBSET Users]
    /\ Fees \subseteq Nat /\ Sizes \subseteq Nat /\ GasPrices \subseteq Nat
    /\ MaxNonce \in Nat /\ MaxQueueSize \in Nat /\ MinBumpPercentage \in Nat
    /\ Deposit \in Nat /\ Unlimited \in Nat /\ UsizeModulus \in Nat \ {0}
    /\ NonPaying \in Users \cup {None}
    /\ SubmissionFaults \subseteq {"error", "late"}
    /\ Unlockers \subseteq Users
    /\ UnlockQueryFails \in BOOLEAN
    /\ VerifiersChange \in BOOLEAN

\* max_queue_size is a usize, and there is always room for another allocation.
ASSUME SizesAssumption ==
    /\ MaxQueueSize < UsizeModulus
    /\ IsFiniteSet(Users) /\ IsFiniteSet(Handlers)
    /\ IsFiniteSet(Arcs) =>
         Cardinality(Arcs) > Cardinality(Users) + Cardinality(Handlers)

VARIABLES
    queue,          \* batch_state.batch_queue
    batchLock,      \* "free", "restore" (held over a restoration) or "stuck"
    userStates,     \* user_states: user -> Arc, None when absent
    arcs,           \* the UserState in each Arc somebody still refers to
    handlers,       \* the message handler of each connection
    posting,        \* the block task that set posting_batch
    poller,         \* user whose proofs poll_balance_unlocked_events will remove
    unlockEvents,   \* BalanceUnlocked events not yet polled
    ethNonce,       \* BatcherPaymentService: user_nonces
    balance,        \* BatcherPaymentService: user_balances
    unlocked,       \* BatcherPaymentService: user_unlock_block # 0
    included,       \* <<user, nonce>> of the proofs charged on chain
    sent            \* messages the last step sent to clients of validated proofs

chainVars == <<ethNonce, balance, unlocked, included>>
pollVars  == <<poller, unlockEvents>>
vars == <<queue, batchLock, userStates, arcs, handlers, posting, pollVars,
          chainVars, sent>>

Nonces == 0..(MaxNonce - 1)

-----------------------------------------------------------------------------
(***************************************************************************)
(* User states.  An Arc lives while the map or a handler refers to it.     *)
(***************************************************************************)
NewUserState(n) ==
    [nonce |-> n, last_max_fee_limit |-> Unlimited,
     total_fees_in_queue |-> 0, proofs_in_batch |-> 0]

IdleHandler ==
    [pc |-> "idle", user |-> None, arc |-> None, nonce |-> 0, fee |-> 0, size |-> 0]

NotPosting == [pc |-> "idle", batch |-> <<>>, fee |-> 0, rest |-> <<>>, todo |-> {}]

LiveArcs ==
    ({userStates[u] : u \in Users} \cup {handlers[h].arc : h \in Handlers}) \ {None}

FreshArc == CHOOSE a \in Arcs : a \notin LiveArcs

\* The arcs of the next state, with contents as in f.
ArcsBecome(f) == arcs' = [a \in LiveArcs' |-> f[a]]

\* A handler past validation holds the lock of its user state.
HoldsUserLock(h) == handlers[h].pc \in {"enqueue", "replace", "stuck"}

UserLocked(a) == \E h \in Handlers : HoldsUserLock(h) /\ handlers[h].arc = a

ProofOf(h) ==
    NewEntry(handlers[h].user, handlers[h].nonce, handlers[h].fee, handlers[h].size)

Message(e, kind) == [user |-> e.sender, nonce |-> e.nonce, kind |-> kind]

Tell(S, kind) == {Message(e, kind) : e \in S}

-----------------------------------------------------------------------------
FirstArc == CHOOSE a \in Arcs : TRUE

Init ==
    /\ queue = <<>>
    /\ batchLock = "free"
    /\ userStates = [u \in Users |-> IF u = NonPaying THEN FirstArc ELSE None]
    /\ arcs = [a \in {userStates[u] : u \in Users} \ {None} |-> NewUserState(0)]
    /\ handlers = [h \in Handlers |-> IdleHandler]
    /\ posting = NotPosting
    /\ poller = None
    /\ unlockEvents = {}
    /\ ethNonce = [u \in Users |-> 0]
    /\ balance = [u \in Users |-> Deposit]
    /\ unlocked = [u \in Users |-> FALSE]
    /\ included = {}
    /\ sent = {}

-----------------------------------------------------------------------------
(***************************************************************************)
(* handle_submit_proof_msg.  The nonce, fee and size of a message are      *)
(* chosen where they are first used, at validation.                        *)
(***************************************************************************)

\* Whether user_states can be locked: a restoration holds it for writing, and
\* a stuck task holds it with a writer queued.
MapAvailable == batchLock = "free"

\* The funds are locked on chain, or the query failed; look the user up in the map.
CheckUser(h, u) ==
    /\ handlers[h].pc = "idle" /\ u \in Serves[h]
    /\ ~unlocked[u] \/ UnlockQueryFails
    /\ MapAvailable
    /\ handlers' = [handlers EXCEPT ![h] =
         [IdleHandler EXCEPT !.user = u,
                             !.pc = IF userStates[u] = None THEN "fetch" ELSE "get"]]
    /\ sent' = {}
    /\ UNCHANGED <<queue, batchLock, userStates, arcs, posting, pollVars, chainVars>>

\* get_user_nonce_from_ethereum for a user that was not in the map.
FetchNonce(h) ==
    /\ handlers[h].pc = "fetch"
    /\ handlers' = [handlers EXCEPT ![h].pc = "insert",
                                    ![h].nonce = ethNonce[handlers[h].user]]
    /\ sent' = {}
    /\ UNCHANGED <<queue, batchLock, userStates, arcs, posting, pollVars, chainVars>>

\* Insert a dummy user state, over whatever the map holds by now.
InsertUser(h) ==
    LET a == FreshArc
    IN  /\ handlers[h].pc = "insert"
        /\ MapAvailable
        /\ userStates' = [userStates EXCEPT ![handlers[h].user] = a]
        /\ handlers' = [handlers EXCEPT ![h].pc = "get", ![h].nonce = 0]
        /\ sent' = {}
        /\ UNCHANGED <<queue, batchLock, posting, pollVars, chainVars>>
        /\ ArcsBecome([b \in LiveArcs \cup {a} |->
                         IF b = a THEN NewUserState(handlers[h].nonce) ELSE arcs[b]])

\* Clone the Arc of the user state; the map entry may change from now on.
GetUser(h) ==
    /\ handlers[h].pc = "get"
    /\ MapAvailable
    /\ userStates[handlers[h].user] # None
    /\ handlers' = [handlers EXCEPT ![h].pc = "lock",
                                    ![h].arc = userStates[handlers[h].user]]
    /\ sent' = {}
    /\ UNCHANGED <<queue, batchLock, userStates, arcs, posting, pollVars, chainVars>>

\* A balance check that forgets the proofs already queued.
HasEnoughForOne(u, state, fee) == balance[u] >= fee

\* Lock the user state, read the balance and validate the message against both.
\* The lock stays taken while the proof is verified and the batch lock awaited.
HasEnoughBalance(u, state, fee) == balance[u] >= state.total_fees_in_queue + fee

Validate(h) ==
    LET u == handlers[h].user
        s == arcs[handlers[h].arc]
    IN  /\ handlers[h].pc = "lock"
        /\ ~UserLocked(handlers[h].arc)
        /\ batchLock # "stuck"     \* a stuck handler holds its victim's lock too
        /\ \E n \in Nonces, fee \in Fees, size \in Sizes :
             /\ HasEnoughBalance(u, s, fee)
             /\ n <= s.nonce
             /\ n = s.nonce => fee <= s.last_max_fee_limit
             /\ handlers' = [handlers EXCEPT
                  ![h].pc = IF n < s.nonce THEN "replace" ELSE "enqueue",
                  ![h].nonce = n, ![h].fee = fee, ![h].size = size]
        /\ sent' = {}
        /\ UNCHANGED <<queue, batchLock, userStates, arcs, posting, pollVars, chainVars>>

\* The handler answers its client with an error and ends: a lock or RPC call
\* timed out, the user state is gone, a validation failed, the proof does not
\* verify, or the queue is full and nothing can be evicted.  (Before validation
\* the message has no nonce here, and its error is not recorded.)
Abandon(h) ==
    /\ handlers[h].pc \in {"fetch", "insert", "get", "lock", "enqueue", "replace"}
    /\ handlers' = [handlers EXCEPT ![h] = IdleHandler]
    /\ sent' = IF HoldsUserLock(h) THEN Tell({ProofOf(h)}, "Rejected") ELSE {}
    /\ UNCHANGED <<queue, batchLock, userStates, posting, pollVars, chainVars>>
    /\ ArcsBecome(arcs)

-----------------------------------------------------------------------------
(***************************************************************************)
(* The part of handle_submit_proof_msg under the batch lock.               *)
(***************************************************************************)
\* A capacity check that is off by one.
QueueOverfull == Len(queue) > MaxQueueSize

QueueFull == Len(queue) >= MaxQueueSize

\* An account that keeps expecting the nonce it got.
AfterPushKeepsNonce(state, e) ==
    [state EXCEPT !.last_max_fee_limit = e.max_fee,
                  !.total_fees_in_queue = @ + e.max_fee,
                  !.proofs_in_batch = @ + 1]

\* The user state after its proof e was pushed.
AfterPush(state, e) ==
    [nonce |-> e.nonce + 1,
     last_max_fee_limit |-> e.max_fee,
     total_fees_in_queue |-> state.total_fees_in_queue + e.max_fee,
     proofs_in_batch |-> (state.proofs_in_batch + 1) % UsizeModulus]

\* The entries the proof of h may evict: cheaper ones, whose sender is in the
\* map and not locked.
Evictable(h) ==
    {i \in Positions(queue) :
        /\ queue[i].max_fee < handlers[h].fee
        /\ userStates[queue[i].sender] # None
        /\ ~UserLocked(userStates[queue[i].sender])}

\* The code takes the first in iteration order.
IsVictim(h, i) == i \in Evictable(h) /\ \A j \in Evictable(h) : i <= j

\* update_evicted_user_state_with_lock: the state of the sender of the removed
\* entry e when rest is the queue without it; the new fee limit is the fee of
\* the sender's last entry in iteration order.
LastEntryOf(rest, u) == rest[Max({i \in Positions(rest) : rest[i].sender = u})]

AfterEviction(state, e, rest) ==
    [nonce |-> state.nonce - 1,
     last_max_fee_limit |-> LastEntryOf(rest, e.sender).max_fee,
     total_fees_in_queue |-> state.total_fees_in_queue - e.max_fee,
     proofs_in_batch |-> (state.proofs_in_batch - 1) % UsizeModulus]

\* Subtraction that goes on below zero.
EvictionNeverPanics(state, e) == FALSE

\* U256 subtraction panics below zero.
EvictionPanics(state, e) ==
    state.nonce = 0 \/ state.total_fees_in_queue < e.max_fee

\* There is room: push the proof and account for it.
Enqueue(h) ==
    /\ handlers[h].pc = "enqueue"
    /\ batchLock = "free"
    /\ ~QueueFull
    /\ queue' = Push(queue, ProofOf(h))
    /\ handlers' = [handlers EXCEPT ![h] = IdleHandler]
    /\ sent' = {}
    /\ UNCHANGED <<batchLock, userStates, posting, pollVars, chainVars>>
    /\ ArcsBecome([arcs EXCEPT ![handlers[h].arc] = AfterPush(@, ProofOf(h))])

\* The queue is full: evict a cheaper proof of a user that keeps others.
EnqueueEvicting(h) ==
    \E i \in Positions(queue) :
    LET e == queue[i]
        rest == SwapRemove(queue, i)
        a == userStates[e.sender]
    IN  /\ handlers[h].pc = "enqueue"
        /\ batchLock = "free"
        /\ QueueFull /\ IsVictim(h, i)
        /\ EntriesFrom(rest, e.sender) # {}
        /\ ~EvictionPanics(arcs[a], e)
        /\ queue' = Push(rest, ProofOf(h))
        /\ handlers' = [handlers EXCEPT ![h] = IdleHandler]
        /\ sent' = Tell({e}, "UnderpricedProof")
        /\ UNCHANGED <<batchLock, userStates, posting, pollVars, chainVars>>
        /\ ArcsBecome([arcs EXCEPT ![a] = AfterEviction(@, e, rest),
                                   ![handlers[h].arc] = AfterPush(@, ProofOf(h))])

\* The state of the evicted user does not account for the entry: the handler
\* panics after it removed the entry, and its guards are dropped.
EvictionPanic(h) ==
    \E i \in Positions(queue) :
    LET e == queue[i]
        rest == SwapRemove(queue, i)
        a == userStates[e.sender]
    IN  /\ handlers[h].pc = "enqueue"
        /\ batchLock = "free"
        /\ QueueFull /\ IsVictim(h, i)
        /\ EntriesFrom(rest, e.sender) # {}
        /\ EvictionPanics(arcs[a], e)
        /\ queue' = rest
        /\ handlers' = [handlers EXCEPT ![h] = IdleHandler]
        /\ sent' = {}
        /\ UNCHANGED <<batchLock, userStates, posting, pollVars, chainVars>>
        /\ ArcsBecome([arcs EXCEPT
             ![a].proofs_in_batch = (@ - 1) % UsizeModulus,
             ![a].nonce = IF @ = 0 THEN 0 ELSE @ - 1])

\* The evicted user has no other proof: its state is to be removed from
\* user_states, whose read guard this very statement holds.  The handler waits
\* for itself, with the batch lock taken.
EvictionBlocks(h) ==
    \E i \in Positions(queue) :
    LET e == queue[i]
        rest == SwapRemove(queue, i)
    IN  /\ handlers[h].pc = "enqueue"
        /\ batchLock = "free"
        /\ QueueFull /\ IsVictim(h, i)
        /\ EntriesFrom(rest, e.sender) = {}
        /\ queue' = rest
        /\ batchLock' = "stuck"
        /\ handlers' = [handlers EXCEPT ![h].pc = "stuck"]
        /\ sent' = {}
        /\ UNCHANGED <<userStates, arcs, posting, pollVars, chainVars>>

-----------------------------------------------------------------------------
(***************************************************************************)
(* handle_replacement_message.  The old client is told that its proof was  *)
(* replaced, and its socket closed, before the replacement is validated    *)
(* against the user's other proofs.                                        *)
(***************************************************************************)
MinBump(fee) == fee + (fee * MinBumpPercentage) \div 100

\* A replacement that does not adjust the fees of the user.
AfterReplacementKeepsTotal(state, e, old) ==
    [state EXCEPT !.last_max_fee_limit = MinFeeOf(queue', e.sender)]

\* The state of the user whose entry old became e in the new queue.
AfterReplacement(state, e, old) ==
    [state EXCEPT !.last_max_fee_limit = MinFeeOf(queue', e.sender),
                  !.total_fees_in_queue = @ + (e.max_fee - old.max_fee)]

ReplacementMayProceed(h) ==
    /\ handlers[h].pc = "replace"
    /\ batchLock = "free"
    /\ HasEntry(queue, handlers[h].user, handlers[h].nonce)
    /\ handlers[h].fee >=
         MinBump(queue[EntryAt(queue, handlers[h].user, handlers[h].nonce)].max_fee)

Replace(h) ==
    LET i == EntryAt(queue, handlers[h].user, handlers[h].nonce)
    IN  /\ ReplacementMayProceed(h)
        /\ ReplacementEntryIsValid(queue, ProofOf(h))
        /\ queue' = Push(SwapRemove(queue, i), ProofOf(h))
        /\ handlers' = [handlers EXCEPT ![h] = IdleHandler]
        /\ sent' = Tell({queue[i]}, "ProofReplaced")
        /\ UNCHANGED <<batchLock, userStates, posting, pollVars, chainVars>>
        /\ ArcsBecome([arcs EXCEPT ![handlers[h].arc] =
                         AfterReplacement(@, ProofOf(h), queue[i])])

ReplaceInvalid(h) ==
    LET i == EntryAt(queue, handlers[h].user, handlers[h].nonce)
    IN  /\ ReplacementMayProceed(h)
        /\ ~ReplacementEntryIsValid(queue, ProofOf(h))
        /\ handlers' = [handlers EXCEPT ![h] = IdleHandler]
        /\ sent' = Tell({queue[i]}, "ProofReplaced") \cup Tell({ProofOf(h)}, "Rejected")
        /\ UNCHANGED <<queue, batchLock, userStates, posting, pollVars, chainVars>>
        /\ ArcsBecome(arcs)

-----------------------------------------------------------------------------
(***************************************************************************)
(* handle_new_block: extract_batch_if_ready, finalize_batch and what       *)
(* follows.  posting_batch lets one block task at a time past extraction;  *)
(* posting is that task.  posting.batch is the extracted batch, in pop     *)
(* order; posting.rest what is left to restore; posting.todo the users     *)
(* whose state is still to be recomputed.                                  *)
(***************************************************************************)
SendersOf(batch) == {e.sender : e \in EntriesOf(batch)}

CountOf(batch, u) == Cardinality(EntriesFrom(batch, u))

ExtractBatch ==
    /\ posting.pc = "idle"
    /\ batchLock = "free"
    /\ queue # <<>>
    /\ \E gasPrice \in GasPrices : \E x \in ExtractBatchDirectly(queue, gasPrice) :
         /\ queue' = x.queue
         /\ posting' = IF x.batch = <<>> THEN posting
                       ELSE [NotPosting EXCEPT !.pc = "submit", !.batch = x.batch,
                               !.fee = FeePerProof(Len(x.batch), gasPrice)]
    /\ sent' = {}
    /\ UNCHANGED <<batchLock, userStates, arcs, handlers, pollVars, chainVars>>

\* BatcherPaymentService.createNewTask charges every proof of the batch the
\* same fee, or reverts.
CanCharge == \A u \in SendersOf(posting.batch) :
                balance[u] >= CountOf(posting.batch, u) * posting.fee

KeysOf(S) == {<<e.sender, e.nonce>> : e \in S}

ChargeBatch ==
    /\ ethNonce' = [u \in Users |-> ethNonce[u] + CountOf(posting.batch, u)]
    /\ balance' = [u \in Users |-> balance[u] - CountOf(posting.batch, u) * posting.fee]
    /\ included' = included \cup KeysOf(EntriesOf(posting.batch))
    /\ UNCHANGED unlocked

\* The simulation of create_new_task succeeds and the transaction is sent.
SendTask ==
    /\ posting.pc = "submit"
    /\ CanCharge
    /\ posting' = [posting EXCEPT !.pc = "sent"]
    /\ sent' = {}
    /\ UNCHANGED <<queue, batchLock, userStates, arcs, handlers, pollVars, chainVars>>

\* A receipt arrives.  Its status is not looked at: a transaction that
\* reverted because a balance went away in between counts as a success.
TaskReceipt ==
    /\ posting.pc = "sent"
    /\ \/ CanCharge /\ ChargeBatch
       \/ ~CanCharge /\ UNCHANGED chainVars
    /\ posting' = [posting EXCEPT !.pc = "updateOk", !.todo = SendersOf(posting.batch)]
    /\ sent' = {}
    /\ UNCHANGED <<queue, batchLock, userStates, arcs, handlers, pollVars>>

\* A flush that tells only the clients whose proofs are still queued.
ResetQueued(lost) == Tell(EntriesOf(queue), "BatchReset")

\* The messages of a flush, with those for the proofs of a batch that is lost.
ResetMessages(lost) == Tell(EntriesOf(queue) \cup lost, "BatchReset")

\* flush_queue_and_clear_nonce_cache, with the messages its caller adds.
FlushQueue(lost) ==
    LET a == FreshArc
    IN  /\ batchLock = "free"
        /\ queue' = <<>>
        /\ \E keep \in {None, NonPaying} :      \* None: the nonce query failed
             userStates' = [u \in Users |-> IF u = keep THEN a ELSE None]
        /\ ArcsBecome([b \in LiveArcs \cup {a} |->
             IF b = a THEN NewUserState(IF NonPaying = None THEN 0 ELSE ethNonce[NonPaying])
                      ELSE arcs[b]])
        /\ sent' = ResetMessages(lost)

\* The simulation says SubmissionInsufficientBalance: everything is flushed.
InsufficientBalance ==
    /\ posting.pc = "submit"
    /\ ~CanCharge
    /\ posting' = NotPosting
    /\ UNCHANGED <<batchLock, handlers, pollVars, chainVars>>
    /\ FlushQueue(EntriesOf(posting.batch))

\* handle_new_block finds other disabled verifiers on chain.
VerifiersChanged ==
    /\ VerifiersChange
    /\ UNCHANGED <<batchLock, handlers, posting, pollVars, chainVars>>
    /\ FlushQueue({})

\* Any other failure: upload, simulation, sending, or no receipt in time and the
\* transaction cancelled.  With "late", the transaction is mined all the same.
SubmissionFails ==
    /\ batchLock = "free"
    /\ \/ "error" \in SubmissionFaults /\ posting.pc \in {"submit", "sent"}
          /\ UNCHANGED chainVars
       \/ "late" \in SubmissionFaults /\ posting.pc = "sent" /\ CanCharge /\ ChargeBatch
    /\ posting' = [posting EXCEPT !.pc = "restore", !.rest = posting.batch]
    /\ batchLock' = "restore"
    /\ sent' = {}
    /\ UNCHANGED <<queue, userStates, arcs, handlers, pollVars>>

-----------------------------------------------------------------------------
(***************************************************************************)
(* restore_proofs_after_batch_failure: one step per proof, all of them     *)
(* with user_states and batch_state taken.                                 *)
(***************************************************************************)
RestoreProof ==
    LET e == Head(posting.rest)
    IN  /\ posting.pc = "restore" /\ posting.rest # <<>>
        /\ ~QueueFull
        /\ queue' = Push(queue, [e EXCEPT !.prio = e.max_fee])
        /\ posting' = [posting EXCEPT !.rest = Tail(@), !.todo = @ \cup {e.sender}]
        /\ sent' = {}
        /\ UNCHANGED <<batchLock, userStates, arcs, handlers, pollVars, chainVars>>

\* The queue is full and the proof not worth more than the cheapest in it: it
\* is dropped, and nobody is told.
RestoreDrops ==
    /\ posting.pc = "restore" /\ posting.rest # <<>>
    /\ QueueFull
    /\ \E i \in Peekable(queue) : Head(posting.rest).max_fee <= queue[i].max_fee
    /\ posting' = [posting EXCEPT !.rest = Tail(@)]
    /\ sent' = {}
    /\ UNCHANGED <<queue, batchLock, userStates, arcs, handlers, pollVars, chainVars>>

\* Otherwise the cheapest is evicted, and update_evicted_user_state_async waits
\* for user_states, which this task holds for writing.
RestoreBlocks ==
    /\ posting.pc = "restore" /\ posting.rest # <<>>
    /\ QueueFull
    /\ \E i \in Peekable(queue) :
         /\ Head(posting.rest).max_fee > queue[i].max_fee
         /\ queue' = SwapRemove(queue, i)
    /\ batchLock' = "stuck"
    /\ posting' = [posting EXCEPT !.pc = "stuck"]
    /\ sent' = {}
    /\ UNCHANGED <<userStates, arcs, handlers, pollVars, chainVars>>

RestoreEnds ==
    /\ posting.pc = "restore" /\ posting.rest = <<>>
    /\ batchLock' = "free"
    /\ posting' = [posting EXCEPT !.pc = "updateFailed"]
    /\ sent' = {}
    /\ UNCHANGED <<queue, userStates, arcs, handlers, pollVars, chainVars>>

-----------------------------------------------------------------------------
(***************************************************************************)
(* update_user_states_from_queue_state, cleanup_user_states_after_         *)
(* successful_submission and the end of the block task.                    *)
(***************************************************************************)
\* A recomputation that also counts the nonce from the queue.
FromQueueWithNonce(state, u) ==
    LET S == EntriesFrom(queue, u)
    IN  [nonce |-> Cardinality(S),
         proofs_in_batch |-> Cardinality(S),
         total_fees_in_queue |-> TotalFees(S),
         last_max_fee_limit |-> IF S = {} THEN Unlimited ELSE MinFeeOf(queue, u)]

FromQueue(state, u) ==
    LET S == EntriesFrom(queue, u)
    IN  [state EXCEPT
           !.proofs_in_batch = Cardinality(S),
           !.total_fees_in_queue = TotalFees(S),
           !.last_max_fee_limit = IF S = {} THEN Unlimited ELSE MinFeeOf(queue, u)]

UpdateUser(u) ==
    /\ posting.pc \in {"updateOk", "updateFailed"} /\ u \in posting.todo
    /\ batchLock = "free"
    /\ \/ userStates[u] = None /\ UNCHANGED arcs
       \/ /\ userStates[u] # None
          /\ ~UserLocked(userStates[u])
          /\ arcs' = [arcs EXCEPT ![userStates[u]] = FromQueue(@, u)]
    /\ posting' = [posting EXCEPT !.todo = @ \ {u}]
    /\ sent' = {}
    /\ UNCHANGED <<queue, batchLock, userStates, handlers, pollVars, chainVars>>

\* The users whose fee limit the cleanup resets: gone from the queue, unlocked.
CleanupUsers ==
    {u \in SendersOf(posting.batch) :
        /\ EntriesFrom(queue, u) = {}
        /\ userStates[u] # None
        /\ ~UserLocked(userStates[u])}

FinishPosting ==
    /\ posting.pc = "updateOk" /\ posting.todo = {}
    /\ batchLock = "free"
    /\ \/ UNCHANGED arcs                    \* try_lock of batch_state failed
       \/ arcs' = [a \in LiveArcs |->
                     IF \E u \in CleanupUsers : userStates[u] = a
                       THEN [arcs[a] EXCEPT !.last_max_fee_limit = Unlimited]
                       ELSE arcs[a]]
    /\ posting' = NotPosting
    /\ sent' = Tell(EntriesOf(posting.batch), "BatchInclusionData")
    /\ UNCHANGED <<queue, batchLock, userStates, handlers, pollVars, chainVars>>

\* A failed posting answered like a successful one.
FinishFailedAnswers ==
    /\ posting.pc = "updateFailed" /\ posting.todo = {}
    /\ posting' = NotPosting
    /\ sent' = Tell(EntriesOf(posting.batch), "BatchInclusionData")
    /\ UNCHANGED <<queue, batchLock, userStates, arcs, handlers, pollVars, chainVars>>

FinishFailedPosting ==
    /\ posting.pc = "updateFailed" /\ posting.todo = {}
    /\ posting' = NotPosting
    /\ sent' = {}
    /\ UNCHANGED <<queue, batchLock, userStates, arcs, handlers, pollVars, chainVars>>

-----------------------------------------------------------------------------
(***************************************************************************)
(* poll_balance_unlocked_events.  An event at the last polled block is     *)
(* seen again by the next poll.                                            *)
(***************************************************************************)
MustRemove(u) ==
    /\ userStates[u] # None
    /\ arcs[userStates[u]].proofs_in_batch > 0
    /\ unlocked[u]

PollEvent(u) ==
    /\ poller = None /\ u \in unlockEvents
    /\ MapAvailable
    /\ unlockEvents' \in {unlockEvents, unlockEvents \ {u}}
    /\ \/ MustRemove(u) /\ ~UserLocked(userStates[u]) /\ poller' = u
       \/ /\ UnlockQueryFails \/ ~MustRemove(u) \/ UserLocked(userStates[u])
          /\ UNCHANGED poller
    /\ sent' = {}
    /\ UNCHANGED <<queue, batchLock, userStates, arcs, handlers, posting, chainVars>>

\* remove_user_proofs_and_reset_state; the order of the proofs left is not
\* specified by extract_if.
RemoveUserProofs ==
    /\ poller # None
    /\ batchLock = "free"
    /\ queue' \in Arrangements({e \in EntriesOf(queue) : e.sender # poller})
    /\ userStates' = [userStates EXCEPT ![poller] = None]
    /\ sent' = Tell(EntriesFrom(queue, poller), "UserFundsUnlocked")
    /\ poller' = None
    /\ UNCHANGED <<batchLock, handlers, posting, unlockEvents, chainVars>>
    /\ ArcsBecome(arcs)

\* The batch lock was not available for POLLING_EVENTS_LOCK_TIMEOUT.
SkipRemoval ==
    /\ poller # None
    /\ poller' = None
    /\ sent' = {}
    /\ UNCHANGED <<queue, batchLock, userStates, arcs, handlers, posting,
                   unlockEvents, chainVars>>

-----------------------------------------------------------------------------
(***************************************************************************)
(* Users calling BatcherPaymentService.  A withdrawal takes everything and *)
(* needs an unlock an hour old; the events of that hour have been polled   *)
(* by then.                                                                *)
(***************************************************************************)
Unlock(u) ==
    /\ u \in Unlockers /\ balance[u] > 0
    /\ unlocked' = [unlocked EXCEPT ![u] = TRUE]
    /\ unlockEvents' = unlockEvents \cup {u}
    /\ sent' = {}
    /\ UNCHANGED <<queue, batchLock, userStates, arcs, handlers, posting, poller,
                   ethNonce, balance, included>>

Lock(u) ==
    /\ unlocked[u] /\ balance[u] > 0
    /\ unlocked' = [unlocked EXCEPT ![u] = FALSE]
    /\ sent' = {}
    /\ UNCHANGED <<queue, batchLock, userStates, arcs, handlers, posting, pollVars,
                   ethNonce, balance, included>>

Withdraw(u) ==
    /\ unlocked[u] /\ u \notin unlockEvents /\ poller # u
    /\ unlocked' = [unlocked EXCEPT ![u] = FALSE]
    /\ balance' = [balance EXCEPT ![u] = 0]
    /\ sent' = {}
    /\ UNCHANGED <<queue, batchLock, userStates, arcs, handlers, posting, pollVars,
                   ethNonce, included>>

-----------------------------------------------------------------------------
HandlerStep(h) ==
    \/ \E u \in Users : CheckUser(h, u)
    \/ FetchNonce(h) \/ InsertUser(h) \/ GetUser(h) \/ Validate(h) \/ Abandon(h)
    \/ Enqueue(h) \/ EnqueueEvicting(h) \/ EvictionPanic(h) \/ EvictionBlocks(h)
    \/ Replace(h) \/ ReplaceInvalid(h)

BlockStep ==
    \/ ExtractBatch \/ SendTask \/ TaskReceipt
    \/ InsufficientBalance \/ VerifiersChanged \/ SubmissionFails
    \/ RestoreProof \/ RestoreDrops \/ RestoreBlocks \/ RestoreEnds
    \/ \E u \in Users : UpdateUser(u)
    \/ FinishPosting \/ FinishFailedPosting

PollStep == (\E u \in Users : PollEvent(u)) \/ RemoveUserProofs \/ SkipRemoval

ChainStep == \E u \in Users : Unlock(u) \/ Lock(u) \/ Withdraw(u)

Next == (\E h \in Handlers : HandlerStep(h)) \/ BlockStep \/ PollStep \/ ChainStep

Spec == Init /\ [][Next]_vars

-----------------------------------------------------------------------------
(***************************************************************************)
(* Properties                                                              *)
(***************************************************************************)
Entry == EntryOf(Users)

UserState == [nonce : Nat, last_max_fee_limit : Nat,
              total_fees_in_queue : Nat, proofs_in_batch : Nat]

\* The shape of the state: the variables have their types, and arcs holds
\* exactly the user states somebody refers to.
TypeOK ==
    /\ queue \in Seq(Entry)
    /\ batchLock \in {"free", "restore", "stuck"}
    /\ userStates \in [Users -> Arcs \cup {None}]
    /\ arcs \in [LiveArcs -> UserState]
    /\ handlers \in [Handlers ->
         [pc : {"idle", "fetch", "insert", "get", "lock", "enqueue", "replace", "stuck"},
          user : Users \cup {None}, arc : Arcs \cup {None},
          nonce : Nat, fee : Nat, size : Nat]]
    /\ posting \in
         [pc : {"idle", "submit", "sent", "restore", "updateOk", "updateFailed", "stuck"},
          batch : Seq(Entry), fee : Nat, rest : Seq(Entry), todo : SUBSET Users]
    /\ poller \in Users \cup {None}
    /\ unlockEvents \subseteq Users
    /\ ethNonce \in [Users -> Nat]
    /\ balance \in [Users -> Nat]
    /\ unlocked \in [Users -> BOOLEAN]

\* The queue never outgrows max_queue_size, not even when a failed batch is put
\* back into a queue that filled up meanwhile, and never holds two entries of
\* one sender and nonce.
QueueOK ==
    /\ Len(queue) <= MaxQueueSize
    /\ \A i, j \in Positions(queue) : i # j => ~SameEntry(queue[i], queue[j])

\* The proofs in a batch whose fate is open.
InFlight ==
    CASE posting.pc \in {"submit", "sent"} -> EntriesOf(posting.batch)
      [] posting.pc = "restore" -> EntriesOf(posting.rest)
      [] OTHER -> {}

Outstanding(u) == EntriesFrom(queue, u) \cup {e \in InFlight : e.sender = u}

NoncesOf(S) == {e.nonce : e \in S}

\* The proofs of a user that are queued or in flight carry exactly the nonces
\* from the next one on chain up to the one the cached user state expects.
NoncesContiguous ==
    \A u \in Users :
        NoncesOf(Outstanding(u)) =
            IF userStates[u] = None THEN {}
            ELSE ethNonce[u]..(arcs[userStates[u]].nonce - 1)

\* In the queue, a later nonce of a user never offers more than an earlier one:
\* the heap would give up the earlier nonce first.
FeesFollowNonces ==
    \A u \in Users : \A e, f \in EntriesFrom(queue, u) :
        e.nonce < f.nonce => e.max_fee >= f.max_fee

\* A batch takes the next nonces of each of its users, so that what the contract
\* charges (its nonce counts proofs, it does not see the signed nonces) is what
\* the user signed.
BatchInNonceOrder ==
    posting.pc \in {"submit", "sent"} =>
        \A u \in Users :
            NoncesOf(EntriesFrom(posting.batch, u)) =
                ethNonce[u]..(ethNonce[u] + CountOf(posting.batch, u) - 1)

\* A user's balance covers the fees it offered for everything outstanding.
Solvent == \A u \in Users : balance[u] >= TotalFees(Outstanding(u))

\* Outside the posting of one of its proofs, a user's cached state agrees with
\* the queue.
StateMatchesQueue ==
    \A u \in Users :
        (userStates[u] # None /\ u \notin SendersOf(posting.batch)) =>
            arcs[userStates[u]] = FromQueue(arcs[userStates[u]], u)

\* The proofs of the batch that are neither answered nor put back yet.
Posted ==
    IF posting.pc = "updateOk" THEN EntriesOf(posting.batch) ELSE InFlight

\* The proofs whose clients wait for an answer, by where they are held: two
\* proofs of one sender and nonce are two when they are at two places.
Held ==
    {<<"queue", k>> : k \in KeysOf(EntriesOf(queue))}
    \cup {<<"batch", k>> : k \in KeysOf(Posted)}
    \cup {<<"handler", <<handlers[h].user, handlers[h].nonce>>, h>> :
            h \in {g \in Handlers : HoldsUserLock(g)}}

\* What leaves a place in a step arrives at a place that did not hold it, or a
\* message about it is sent.
LossIsTold ==
    \A x \in Held \ Held' :
        \/ \E y \in Held' \ Held : y[2] = x[2]
        \/ \E m \in sent' : <<m.user, m.nonce>> = x[2]

\* push keeps the entry the queue has and drops the new one, with its sink.
PushSwallows ==
    \E h \in Handlers :
        (Enqueue(h) \/ EnqueueEvicting(h)) /\ Contains(queue, ProofOf(h))

RestoreSwallows == RestoreProof /\ Contains(queue, Head(posting.rest))

\* The steps in which the code loses a proof without a word: two onto an equal
\* entry of the queue, and four in a queue that is full.
LosesSilently ==
    \/ PushSwallows \/ RestoreSwallows
    \/ \E h \in Handlers : EvictionPanic(h) \/ EvictionBlocks(h)
    \/ RestoreDrops \/ RestoreBlocks

\* In every other step a validated proof, held by its handler, by the queue or
\* by the batch being posted, leaves the batcher only with a message about it.
NoSilentLoss == [][LosesSilently \/ LossIsTold]_vars

\* A batch in flight holds no proof that was charged before.
NoResubmission ==
    posting.pc \in {"submit", "sent"} => KeysOf(EntriesOf(posting.batch)) \cap included = {}

\* Clients get inclusion data only for proofs that are on chain.
InclusionIsReal ==
    \A m \in sent : m.kind = "BatchInclusionData" => <<m.user, m.nonce>> \in included
=============================================================================
