---------------------------- MODULE BatcherLocks ----------------------------
(***************************************************************************)
(* The locks of the batcher (crates/batcher/src/lib.rs) and the tasks that *)
(* take them: message handlers, one task per new block, and the task that  *)
(* polls BalanceUnlocked events.                                           *)
(*                                                                         *)
(* Data is left out: which branch a task takes on it is a free choice, as  *)
(* far as the constants below allow it.  What is kept is every lock        *)
(* acquisition, in the order of the code, what is held meanwhile, which    *)
(* waits have a timeout, and the posting_batch and                         *)
(* last_uploaded_batch_block values that decide who posts.                 *)
(*                                                                         *)
(* batch_state, posting_batch, last_uploaded_batch_block,                  *)
(* disabled_verifiers and each user's state are tokio mutexes.             *)
(* user_states is a tokio RwLock: it serves its waiters in order, so that  *)
(* a reader waits behind a writer that came first even while others read.  *)
(*                                                                         *)
(* Answers are sent over the client's websocket and awaited without a      *)
(* timeout.  Those that are sent with a lock held, and those that hold up  *)
(* the end of a posting, are waits of their own: the client ends them.     *)
(***************************************************************************)
EXTENDS Integers, Sequences, FiniteSets

CONSTANTS
    Users,              \* users with a state in user_states
    Handlers,           \* message handling tasks
    NumBlocks,          \* bound: blocks 1..NumBlocks are received
    Poller,             \* the poll_balance_unlocked_events task
    None,
    MinBlockInterval,   \* min_block_interval
    BlocksOverlap,      \* a block may arrive before the last one is handled
    PreVerification,    \* pre_verification_is_enabled
    VerifiersChange,    \* the disabled verifiers bitmap changes on chain
    QueueFills,         \* the queue reaches max_queue_size
    SubmissionFails     \* a batch submission may fail

Blocks == 1..NumBlocks

Tasks == Blocks \cup Handlers \cup {Poller}

SharedMutexes == {"batch", "posting", "uploaded", "verifiers"}

Mutexes == SharedMutexes \cup Users

ASSUME LocksAssumption ==
    /\ NumBlocks \in Nat /\ MinBlockInterval \in Nat
    /\ {BlocksOverlap, PreVerification, VerifiersChange,
        QueueFills, SubmissionFails} \subseteq BOOLEAN
    /\ Blocks \cap Handlers = {} /\ Poller \notin Blocks \cup Handlers
    /\ None \notin Tasks /\ None \notin Mutexes
    /\ Users \cap SharedMutexes = {}

VARIABLES
    pc,         \* where each task is
    who,        \* the user each task works for
    todo,       \* users each block task has still to update
    holder,     \* the task that holds each mutex
    usReaders,  \* tasks that hold user_states for reading
    usWriter,   \* the task that holds user_states for writing
    usQueue,    \* tasks waiting for user_states, first come first
    postingBatch,   \* the value of posting_batch
    lastUploaded,   \* the value of last_uploaded_batch_block
    lastPosted      \* history: the block of the last batch extracted

lockVars == <<holder, usReaders, usWriter, usQueue>>
valueVars == <<postingBatch, lastUploaded, lastPosted>>
vars == <<pc, who, todo, lockVars, valueVars>>

-----------------------------------------------------------------------------
(***************************************************************************)
(* Waiting.  A program counter is named after the lock the task waits for. *)
(***************************************************************************)
WaitsForRead ==
    {"submit_check", "submit_get", "submit_evict", "query_map",
     "update_map", "cleanup_map", "restore_evict_read", "poll_map"}

WaitsForWrite ==
    {"submit_insert", "evict_remove", "flush_map", "restore_map",
     "restore_evict_write", "poll_remove"}

\* The mutex a task waits for, if it waits for one.
WantedMutex(t) ==
    CASE pc[t] \in {"submit_user", "query_user", "update_user", "poll_user"} -> who[t]
      [] pc[t] \in {"submit_batch", "replace_batch", "flush_batch", "extract_batch",
                    "update_batch", "restore_batch", "poll_batch"} -> "batch"
      [] pc[t] \in {"submit_verify", "replace_verify", "block_verifiers"} -> "verifiers"
      [] pc[t] \in {"extract_uploaded", "finalize_uploaded"} -> "uploaded"
      [] pc[t] \in {"extract_posting", "reset_posting"} -> "posting"
      [] OTHER -> None

\* The removal of a user's proofs waiting for batch_state without a timeout.
TimedWaitsOfHandlers ==
    {"submit_check", "submit_insert", "submit_get", "submit_user", "submit_batch",
     "replace_batch", "query_map", "query_user", "poll_user"}

\* Waits that end in a timeout: MESSAGE_HANDLER_LOCK_TIMEOUT and
\* POLLING_EVENTS_LOCK_TIMEOUT.
TimedWaits ==
    {"submit_check", "submit_insert", "submit_get", "submit_user", "submit_batch",
     "replace_batch", "query_map", "query_user", "poll_user", "poll_batch"}

\* Waits for a client to take a message off the wire.  The lock of a client's
\* sink is held for such a send only, so that a wait for it is one of these.
AwaitsClient == {"reply", "send_inclusion"}

WaitsForMap(t) == pc[t] \in WaitsForRead \cup WaitsForWrite

Waiting(t) == WaitsForMap(t) \/ WantedMutex(t) # None

\* The tasks ahead of t in the queue for user_states.
Ahead(t) ==
    {usQueue[i] : i \in {i \in 1..Len(usQueue) :
                            \E j \in 1..Len(usQueue) : usQueue[j] = t /\ i < j}}

\* The tasks that must move before t gets what it waits for.
BlockedBy(t) ==
    IF pc[t] \in WaitsForRead
      THEN ({usWriter} \ {None}) \cup {w \in Ahead(t) : pc[w] \in WaitsForWrite}
    ELSE IF pc[t] \in WaitsForWrite
      THEN ({usWriter} \ {None}) \cup usReaders \cup Ahead(t)
    ELSE IF WantedMutex(t) # None
      THEN {holder[WantedMutex(t)]} \ {None}
    ELSE {}

Free(t) == BlockedBy(t) = {}

-----------------------------------------------------------------------------
(***************************************************************************)
(* Moving.  A task that goes to wait for user_states joins its queue, and  *)
(* a task that takes or gives up user_states leaves it.                    *)
(***************************************************************************)
Leave(q, t) ==
    IF \E i \in 1..Len(q) : q[i] = t
      THEN LET i == CHOOSE i \in 1..Len(q) : q[i] = t
           IN  SubSeq(q, 1, i - 1) \o SubSeq(q, i + 1, Len(q))
      ELSE q

\* Task t, which is at from and gets what it waits for, goes on to to.
Go(t, from, to) ==
    /\ pc[t] = from
    /\ Free(t)
    /\ pc' = [pc EXCEPT ![t] = to]
    /\ usQueue' = IF to \in WaitsForRead \cup WaitsForWrite
                    THEN Append(Leave(usQueue, t), t) ELSE Leave(usQueue, t)

Keep == UNCHANGED <<holder, usReaders, usWriter>>

Take(m, t) == holder' = [holder EXCEPT ![m] = t]

\* t gives up the mutexes in M and takes none.
Release(t, M) ==
    holder' = [m \in Mutexes |-> IF m \in M /\ holder[m] = t THEN None ELSE holder[m]]

ReleaseMap(t) ==
    /\ usReaders' = usReaders \ {t}
    /\ usWriter' = IF usWriter = t THEN None ELSE usWriter

ReleaseAll(t) == Release(t, Mutexes) /\ ReleaseMap(t)

ReadMap(t) == usReaders' = usReaders \cup {t} /\ UNCHANGED usWriter

WriteMap(t) == usWriter' = t /\ UNCHANGED usReaders

Init ==
    /\ pc = [t \in Tasks |-> "idle"]
    /\ who = [t \in Tasks |-> None]
    /\ todo = [b \in Blocks |-> {}]
    /\ holder = [m \in Mutexes |-> None]
    /\ usReaders = {}
    /\ usWriter = None
    /\ usQueue = <<>>
    /\ postingBatch = FALSE
    /\ lastUploaded = 0
    /\ lastPosted = 0

-----------------------------------------------------------------------------
(***************************************************************************)
(* Message handlers.  All their waits have timeouts, except those for      *)
(* disabled_verifiers and those made while a proof is evicted.             *)
(***************************************************************************)
Message(h) ==
    /\ \E to \in {"submit_check", "query_map"} : Go(h, "idle", to)
    /\ \E u \in Users : who' = [who EXCEPT ![h] = u]
    /\ Keep
    /\ UNCHANGED <<todo, valueVars>>

SubmitCheck(h) ==
    /\ \E to \in {"submit_insert", "submit_get"} : Go(h, "submit_check", to)
    /\ Keep
    /\ UNCHANGED <<who, todo, valueVars>>

SubmitInsert(h) ==
    /\ Go(h, "submit_insert", "submit_get")
    /\ Keep
    /\ UNCHANGED <<who, todo, valueVars>>

\* The state may have been removed since it was inserted: then the handler ends.
SubmitGet(h) ==
    /\ \E to \in {"submit_user", "idle"} : Go(h, "submit_get", to)
    /\ Keep
    /\ UNCHANGED <<who, todo, valueVars>>

SubmitUser(h) ==
    /\ Go(h, "submit_user", "submit_validate")
    /\ Take(who[h], h)
    /\ UNCHANGED <<who, todo, usReaders, usWriter, valueVars>>

\* With the user's state locked: balance, nonce and fee checks.  A refusal is
\* sent before the lock is dropped.
SubmitValidate(h) ==
    /\ \/ /\ \E to \in {"replace_batch",
                        IF PreVerification THEN "submit_verify" ELSE "submit_batch"} :
                Go(h, "submit_validate", to)
          /\ Keep
       \/ Go(h, "submit_validate", "reply") /\ Keep
    /\ UNCHANGED <<who, todo, valueVars>>

\* verify_proof_if_enabled, which reads disabled_verifiers and answers itself.
SubmitVerify(h) ==
    /\ \E to \in {"submit_batch", "reply"} : Go(h, "submit_verify", to)
    /\ Keep
    /\ UNCHANGED <<who, todo, valueVars>>

\* The proof is pushed; or it is not, and the client is told so; or a full queue
\* makes the handler look for a proof to evict.
SubmitBatch(h) ==
    /\ \/ Go(h, "submit_batch", "idle") /\ ReleaseAll(h)
       \/ Go(h, "submit_batch", "reply") /\ Keep
       \/ /\ QueueFills
          /\ Go(h, "submit_batch", "submit_evict")
          /\ Take("batch", h)
          /\ UNCHANGED <<usReaders, usWriter>>
    /\ UNCHANGED <<who, todo, valueVars>>

\* Each candidate is looked up under a read guard that the `if let` keeps.  The
\* candidate's lock is only tried.  When the evicted proof was its user's last
\* one, the handler keeps the guard and goes on to ask for the write lock:
\* evict_remove has no action, since the handler's own guard is in the way.
\* With nothing to evict, batch_state is dropped before the client is told.
SubmitEvict(h) ==
    /\ \/ Go(h, "submit_evict", "submit_evict") /\ Keep
       \/ Go(h, "submit_evict", "idle") /\ ReleaseAll(h)
       \/ Go(h, "submit_evict", "reply") /\ Release(h, {"batch"}) /\ ReleaseMap(h)
       \/ \E v \in Users : /\ holder[v] = None
                           /\ Go(h, "submit_evict", "evict_remove")
                           /\ Take(v, h)
                           /\ ReadMap(h)
    /\ UNCHANGED <<who, todo, valueVars>>

ReplaceBatch(h) ==
    /\ \/ Go(h, "replace_batch", "idle") /\ ReleaseAll(h)
       \/ /\ PreVerification
          /\ Go(h, "replace_batch", "replace_verify")
          /\ Take("batch", h)
          /\ UNCHANGED <<usReaders, usWriter>>
    /\ UNCHANGED <<who, todo, valueVars>>

\* A replacement that is not valid is answered with batch_state locked.
ReplaceVerify(h) ==
    /\ \/ Go(h, "replace_verify", "idle") /\ ReleaseAll(h)
       \/ Go(h, "replace_verify", "reply") /\ Keep
    /\ UNCHANGED <<who, todo, valueVars>>

\* handle_get_nonce_for_address_msg and handle_get_last_max_fee.
QueryMap(h) ==
    /\ \/ Go(h, "query_map", "query_user") /\ ReadMap(h)
       \/ Go(h, "query_map", "idle") /\ ReleaseMap(h)
    /\ UNCHANGED <<who, todo, holder, valueVars>>

QueryUser(h) ==
    /\ Go(h, "query_user", "idle")
    /\ ReleaseAll(h)
    /\ UNCHANGED <<who, todo, valueVars>>

\* The client has taken the answer; the guards the handler still has go.
Reply(h) ==
    /\ Go(h, "reply", "idle")
    /\ ReleaseAll(h)
    /\ UNCHANGED <<who, todo, valueVars>>

HandlerStep(h) ==
    \/ SubmitCheck(h) \/ SubmitInsert(h) \/ SubmitGet(h) \/ SubmitUser(h)
    \/ SubmitValidate(h) \/ SubmitVerify(h) \/ SubmitBatch(h) \/ SubmitEvict(h)
    \/ ReplaceBatch(h) \/ ReplaceVerify(h)
    \/ QueryMap(h) \/ QueryUser(h)

-----------------------------------------------------------------------------
(***************************************************************************)
(* Block tasks.  listen_new_blocks_retryable spawns one for each block, in *)
(* order, whether or not the earlier ones have ended.                      *)
(***************************************************************************)
NewBlock(b) ==
    /\ \A c \in 1..(b - 1) : IF BlocksOverlap THEN pc[c] # "idle" ELSE pc[c] = "done"
    /\ Go(b, "idle", "block_verifiers")
    /\ Keep
    /\ UNCHANGED <<who, todo, valueVars>>

BlockVerifiers(b) ==
    /\ \/ Go(b, "block_verifiers", "extract_batch") /\ Keep
       \/ /\ VerifiersChange
          /\ Go(b, "block_verifiers", "flush_batch")
          /\ Take("verifiers", b)
          /\ UNCHANGED <<usReaders, usWriter>>
    /\ UNCHANGED <<who, todo, valueVars>>

FlushBatch(b) ==
    /\ Go(b, "flush_batch", "flush_map")
    /\ Take("batch", b)
    /\ UNCHANGED <<who, todo, usReaders, usWriter, valueVars>>

\* A flush in finalize_batch that returns past the reset of posting_batch.
AfterFlushReturns(b) == IF holder["verifiers"] = b THEN "extract_batch" ELSE "done"

\* After a flush the block task goes on where flush_queue_and_clear_nonce_cache
\* was called: in handle_new_block, which holds disabled_verifiers, or in
\* finalize_batch.
AfterFlush(b) == IF holder["verifiers"] = b THEN "extract_batch" ELSE "reset_posting"

\* The map is cleared; with a non-paying address it is locked again to insert
\* that address's state.
FlushMap(b) ==
    /\ \/ Go(b, "flush_map", "flush_insert") /\ Keep
       \/ \E from \in {"flush_map", "flush_insert"} :
             Go(b, from, AfterFlush(b)) /\ ReleaseAll(b)
    /\ UNCHANGED <<who, todo, valueVars>>

ExtractBatch(b) ==
    /\ Go(b, "extract_batch", "extract_uploaded")
    /\ Take("batch", b)
    /\ UNCHANGED <<who, todo, usReaders, usWriter, valueVars>>

\* An interval check that is off by one.
IntervalAlmostPassed(b) == b + 1 >= lastUploaded + MinBlockInterval

IntervalPassed(b) == b >= lastUploaded + MinBlockInterval

\* An empty queue, or too few blocks since the last batch, ends the task.
ExtractUploaded(b) ==
    /\ \/ Go(b, "extract_uploaded", "done") /\ ReleaseAll(b)
       \/ /\ IntervalPassed(b)
          /\ Go(b, "extract_uploaded", "extract_posting")
          /\ Take("uploaded", b)
          /\ UNCHANGED <<usReaders, usWriter>>
    /\ UNCHANGED <<who, todo, valueVars>>

\* An extraction that does not look whether a batch is being posted.
PostingIgnored == TRUE

NoBatchPosting == ~postingBatch

\* Either a batch is being posted or no working batch is found, and the task
\* ends; or a batch of the proofs of the users in todo is extracted.
ExtractPosting(b) ==
    /\ ReleaseAll(b)
    /\ \/ /\ Go(b, "extract_posting", "done")
          /\ UNCHANGED <<todo, valueVars>>
       \/ /\ NoBatchPosting
          /\ Go(b, "extract_posting", "finalize_uploaded")
          /\ \E S \in (SUBSET Users) \ {{}} : todo' = [todo EXCEPT ![b] = S]
          /\ postingBatch' = TRUE
          /\ lastPosted' = b
          /\ UNCHANGED lastUploaded
    /\ UNCHANGED who

\* last_uploaded_batch_block set to the next block that may post.
FinalizeNextDue(b) ==
    /\ Go(b, "finalize_uploaded", "submit_task")
    /\ lastUploaded' = b + MinBlockInterval
    /\ Keep
    /\ UNCHANGED <<who, todo, postingBatch, lastPosted>>

FinalizeUploaded(b) ==
    /\ Go(b, "finalize_uploaded", "submit_task")
    /\ lastUploaded' = b
    /\ Keep
    /\ UNCHANGED <<who, todo, postingBatch, lastPosted>>

\* submit_batch: the batch is on chain; or a user could not pay and the queue is
\* flushed; or it failed otherwise, and todo remembers whose proofs to restore.
SubmitTask(b) ==
    /\ \/ Go(b, "submit_task", "update_map") /\ UNCHANGED todo
       \/ SubmissionFails /\ Go(b, "submit_task", "reset_posting") /\ UNCHANGED todo
       \/ /\ SubmissionFails
          /\ Go(b, "submit_task", "flush_batch")
          /\ todo' = [todo EXCEPT ![b] = {}]
    /\ Keep
    /\ UNCHANGED <<who, valueVars>>

\* update_user_states_from_queue_state, for each affected user.  It is called by
\* finalize_batch, and by the recovery, which holds posting_batch.
AfterUpdate(b, u) ==
    IF todo[b] # {u} THEN "update_map"
    ELSE IF holder["posting"] = b THEN "done" ELSE "cleanup"

UserUpdated(b, u) ==
    /\ todo' = [todo EXCEPT ![b] = @ \ {u}]
    /\ Release(b, IF AfterUpdate(b, u) = "done" THEN Mutexes ELSE Users)
    /\ ReleaseMap(b)

\* A user without a state is skipped.
UpdateMap(b) ==
    /\ \E u \in todo[b] :
          \/ /\ Go(b, "update_map", "update_user")
             /\ who' = [who EXCEPT ![b] = u]
             /\ ReadMap(b)
             /\ UNCHANGED <<todo, holder>>
          \/ /\ Go(b, "update_map", AfterUpdate(b, u))
             /\ UserUpdated(b, u)
             /\ UNCHANGED who
    /\ UNCHANGED valueVars

UpdateUser(b) ==
    /\ Go(b, "update_user", "update_batch")
    /\ Take(who[b], b)
    /\ UNCHANGED <<who, todo, usReaders, usWriter, valueVars>>

UpdateBatch(b) ==
    /\ Go(b, "update_batch", AfterUpdate(b, who[b]))
    /\ UserUpdated(b, who[b])
    /\ UNCHANGED <<who, valueVars>>

\* cleanup_user_states_after_successful_submission only tries batch_state, and
\* then waits for user_states once for each user left without proofs.
Cleanup(b) ==
    /\ \/ Go(b, "cleanup", "send_inclusion") /\ Keep /\ UNCHANGED todo
       \/ /\ holder["batch"] = None
          /\ Go(b, "cleanup", "cleanup_map")
          /\ Take("batch", b)
          /\ \E S \in (SUBSET Users) \ {{}} : todo' = [todo EXCEPT ![b] = S]
          /\ UNCHANGED <<usReaders, usWriter>>
    /\ UNCHANGED <<who, valueVars>>

CleanupMap(b) ==
    /\ \E u \in todo[b] :
          /\ todo' = [todo EXCEPT ![b] = @ \ {u}]
          /\ \/ todo[b] # {u} /\ Go(b, "cleanup_map", "cleanup_map") /\ Keep
             \/ todo[b] = {u} /\ Go(b, "cleanup_map", "send_inclusion") /\ ReleaseAll(b)
    /\ UNCHANGED <<who, valueVars>>

\* send_batch_inclusion_data_responses: the batch's clients, one after the
\* other, have taken their inclusion data.  No lock is held, but posting_batch
\* is still set.
SendInclusion(b) ==
    /\ Go(b, "send_inclusion", "reset_posting")
    /\ Keep
    /\ UNCHANGED <<who, todo, valueVars>>

\* handle_new_block keeps posting_batch locked while proofs are restored.
ResetPosting(b) ==
    /\ postingBatch' = FALSE
    /\ \/ todo[b] = {} /\ Go(b, "reset_posting", "done") /\ ReleaseAll(b)
       \/ /\ todo[b] # {}
          /\ Go(b, "reset_posting", "restore_map")
          /\ Take("posting", b)
          /\ UNCHANGED <<usReaders, usWriter>>
    /\ UNCHANGED <<who, todo, lastUploaded, lastPosted>>

RestoreMap(b) ==
    /\ Go(b, "restore_map", "restore_batch")
    /\ WriteMap(b)
    /\ UNCHANGED <<who, todo, holder, valueVars>>

\* The proofs of some of the batch's users go back to the queue.  In a full
\* queue, evicting a proof asks for user_states again: the task holds its write
\* lock, so that restore_evict_write and restore_evict_read have no action.
RestoreBatch(b) ==
    /\ \/ \E S \in SUBSET todo[b] :
             /\ Go(b, "restore_batch", IF S = {} THEN "done" ELSE "update_map")
             /\ todo' = [todo EXCEPT ![b] = S]
             /\ Release(b, IF S = {} THEN Mutexes ELSE {"batch"})
             /\ ReleaseMap(b)
       \/ /\ QueueFills
          /\ \E to \in {"restore_evict_write", "restore_evict_read"} :
                Go(b, "restore_batch", to)
          /\ Take("batch", b)
          /\ UNCHANGED <<todo, usReaders, usWriter>>
    /\ UNCHANGED <<who, valueVars>>

BlockStep(b) ==
    \/ BlockVerifiers(b) \/ FlushBatch(b) \/ FlushMap(b)
    \/ ExtractBatch(b) \/ ExtractUploaded(b) \/ ExtractPosting(b)
    \/ FinalizeUploaded(b) \/ SubmitTask(b)
    \/ UpdateMap(b) \/ UpdateUser(b) \/ UpdateBatch(b)
    \/ Cleanup(b) \/ CleanupMap(b) \/ ResetPosting(b)
    \/ RestoreMap(b) \/ RestoreBatch(b)

-----------------------------------------------------------------------------
(***************************************************************************)
(* The task that polls BalanceUnlocked events.                             *)
(***************************************************************************)
PollEvent ==
    /\ Go(Poller, "idle", "poll_map")
    /\ \E u \in Users : who' = [who EXCEPT ![Poller] = u]
    /\ Keep
    /\ UNCHANGED <<todo, valueVars>>

PollMap ==
    /\ \/ Go(Poller, "poll_map", "poll_user") /\ ReadMap(Poller)
       \/ Go(Poller, "poll_map", "idle") /\ ReleaseMap(Poller)
    /\ UNCHANGED <<who, todo, holder, valueVars>>

PollUser ==
    /\ \E to \in {"poll_remove", "idle"} : Go(Poller, "poll_user", to)
    /\ ReleaseAll(Poller)
    /\ UNCHANGED <<who, todo, valueVars>>

PollRemove ==
    /\ Go(Poller, "poll_remove", "poll_batch")
    /\ WriteMap(Poller)
    /\ UNCHANGED <<who, todo, holder, valueVars>>

PollBatch ==
    /\ Go(Poller, "poll_batch", "idle")
    /\ ReleaseAll(Poller)
    /\ UNCHANGED <<who, todo, valueVars>>

PollStep == PollMap \/ PollUser \/ PollRemove \/ PollBatch

-----------------------------------------------------------------------------
\* try_user_lock_with_timeout, try_batch_lock_with_timeout and the timeouts on
\* user_states: the task gives up, drops its guards and answers ServerBusy.  A
\* submission that waited for batch_state, and handle_get_nonce_for_address_msg
\* (not handle_get_last_max_fee), answer first and drop their guards then.
Timeout(t) ==
    /\ pc[t] \in TimedWaits
    /\ ~Free(t)
    /\ usQueue' = Leave(usQueue, t)
    /\ \/ /\ pc[t] # "submit_batch"
          /\ pc' = [pc EXCEPT ![t] = "idle"]
          /\ ReleaseAll(t)
       \/ /\ pc[t] \in {"submit_batch", "query_user"}
          /\ pc' = [pc EXCEPT ![t] = "reply"]
          /\ Keep
    /\ UNCHANGED <<who, todo, valueVars>>

Next ==
    \/ \E h \in Handlers : Message(h) \/ HandlerStep(h) \/ Reply(h)
    \/ \E b \in Blocks : NewBlock(b) \/ BlockStep(b) \/ SendInclusion(b)
    \/ PollEvent \/ PollStep
    \/ \E t \in Handlers \cup {Poller} : Timeout(t)

(***************************************************************************)
(* tokio serves the waiters of a lock in order, so that a task whose lock  *)
(* is free again and again gets it: its steps are strongly fair.  A timer  *)
(* fires as long as the task keeps waiting.  Nothing makes messages, blocks *)
(* or unlock events arrive, and nothing makes a client read: Reply and     *)
(* SendInclusion are not fair.                                             *)
(***************************************************************************)
Fairness ==
    /\ \A h \in Handlers : SF_vars(HandlerStep(h))
    /\ \A b \in Blocks : SF_vars(BlockStep(b))
    /\ SF_vars(PollStep)
    /\ \A t \in Handlers \cup {Poller} : WF_vars(Timeout(t))

Spec == Init /\ [][Next]_vars

FairSpec == Spec /\ Fairness

-----------------------------------------------------------------------------
PCs ==
    WaitsForRead \cup WaitsForWrite \cup TimedWaits \cup AwaitsClient
      \cup {"idle", "submit_validate", "submit_verify", "replace_verify",
            "block_verifiers", "flush_batch", "flush_insert", "extract_batch",
            "extract_uploaded", "extract_posting", "finalize_uploaded", "submit_task",
            "update_user", "update_batch", "cleanup", "reset_posting",
            "restore_batch", "done"}

\* Every variable has its type.
TypeOK ==
    /\ pc \in [Tasks -> PCs]
    /\ who \in [Tasks -> Users \cup {None}]
    /\ todo \in [Blocks -> SUBSET Users]
    /\ holder \in [Mutexes -> Tasks \cup {None}]
    /\ usReaders \subseteq Tasks
    /\ usWriter \in Tasks \cup {None}
    /\ usQueue \in Seq(Tasks)
    /\ postingBatch \in BOOLEAN
    /\ lastUploaded \in {0} \cup Blocks
    /\ lastPosted \in {0} \cup Blocks

\* Where a block task owns a batch that posting_batch announces.
PostingPCs ==
    {"finalize_uploaded", "submit_task", "flush_batch", "flush_map", "flush_insert",
     "update_map", "update_user", "update_batch", "cleanup", "cleanup_map",
     "send_inclusion", "reset_posting"}

\* The flushes of handle_new_block and the updates of a recovery come outside.
PostsBatch(b) ==
    /\ pc[b] \in PostingPCs
    /\ holder["verifiers"] # b
    /\ holder["posting"] # b

\* "This is used to avoid multiple batches being submitted at the same time":
\* of all the block tasks that run at once, one at most is between extracting a
\* batch and learning what became of it, and posting_batch is set just then.
OneBatchAtATime ==
    /\ \A b, c \in Blocks : PostsBatch(b) /\ PostsBatch(c) => b = c
    /\ postingBatch <=> \E b \in Blocks : PostsBatch(b)

\* Two batches are never extracted less than min_block_interval blocks apart,
\* although the check reads last_uploaded_batch_block and finalize_batch writes
\* it in another critical section, after others may have looked.
IntervalRespected ==
    [][lastPosted' # lastPosted => lastPosted' >= lastPosted + MinBlockInterval]_vars

\* The tasks of S wait for one another with no timeout to break the circle.
WaitForEver(S) ==
    \A t \in S : /\ Waiting(t)
                 /\ pc[t] \notin TimedWaits
                 /\ BlockedBy(t) \cap S # {}

\* No set of tasks waits for ever on its own members: what the locking rules on
\* the shared state, and the timeouts of the message handlers, are for.
NoDeadlock == \A S \in (SUBSET Tasks) \ {{}} : ~WaitForEver(S)

\* Every client in turn takes what it is sent: the condition of the two liveness
\* properties.  The code has no timeout that would make it true.
ClientsRead == \A t \in Handlers \cup Blocks : []<>(pc[t] \notin AwaitsClient)

\* If clients read what they are sent, every posting of a batch comes to an end
\* and the next one becomes possible: posting_batch is reset on every way
\* through finalize_batch, and no lock on the way is kept for ever.
PostingEnds == ClientsRead => (postingBatch ~> ~postingBatch)

\* If clients read what they are sent, the task of every block that is handled
\* ends, whatever locks it has to wait for: the chain is not left without a
\* batcher.
BlocksHandled ==
    ClientsRead => \A b \in Blocks : pc[b] = "block_verifiers" ~> pc[b] = "done"
=============================================================================
