--------------------------- MODULE Batcher_proofs ---------------------------
(***************************************************************************)
(* Proofs about the batcher, for any users, fees, limits, faults and       *)
(* number of connections: its queue, the types of its state, the accounts  *)
(* of its users, the inclusion data it sends, and the proofs it loses.     *)
(***************************************************************************)
EXTENDS Batcher, BatchQueue_proofs

USE DEF Entry

-----------------------------------------------------------------------------
(***************************************************************************)
(* The queue.  Besides QueueOK, the invariant says that queue and batches  *)
(* are sequences of entries, and that a handler that is about to push an   *)
(* entry has all the parts of one.                                         *)
(***************************************************************************)
HandlerInv(x) ==
    /\ DOMAIN x = {"pc", "user", "arc", "nonce", "fee", "size"}
    /\ x.pc # "idle" => x.user \in Users
    /\ x.pc \in {"enqueue", "replace"} => x.nonce \in Nat /\ x.fee \in Nat /\ x.size \in Nat

\* What the queue's proof needs of the posting task.
PostingShape ==
    /\ DOMAIN posting = {"pc", "batch", "fee", "rest", "todo"}
    /\ posting.batch \in Seq(Entry)
    /\ posting.rest \in Seq(Entry)

\* What it needs of the handlers.
HandlersShape ==
    /\ DOMAIN handlers = Handlers
    /\ \A h \in Handlers : HandlerInv(handlers[h])

\* The inductive invariant of the queue.
QueueInv ==
    /\ queue \in Seq(Entry)
    /\ QueueOK
    /\ PostingShape
    /\ HandlersShape

\* The entry a handler is about to push.
LEMMA ProofOfType ==
  ASSUME HandlersShape, NEW h \in Handlers, handlers[h].pc \in {"enqueue", "replace"}
  PROVE  ProofOf(h) \in Entry
BY DEF HandlersShape, HandlerInv, ProofOf, NewEntry, EntryOf

\* A handler that ends leaves the others as they are.
LEMMA HandlerEnds ==
  ASSUME HandlersShape, NEW h \in Handlers,
         handlers' = [handlers EXCEPT ![h] = IdleHandler]
  PROVE  HandlersShape'
BY DEF HandlersShape, HandlerInv, IdleHandler

\* Steps of handlers keep the invariant.
LEMMA HandlerStepInv ==
  ASSUME QueueInv, NEW h \in Handlers, HandlerStep(h)
  PROVE  QueueInv'
<1> USE DEF QueueInv
<1>d. Distinct(queue) /\ Len(queue) \in Nat /\ Len(queue) <= MaxQueueSize /\ MaxQueueSize \in Nat
  BY LenProperties, BatcherAssumption DEF QueueOK, Distinct
<1>1. ASSUME NEW u \in Users, CheckUser(h, u) PROVE QueueInv'
  BY <1>1 DEF CheckUser, QueueOK, Positions, PostingShape, HandlersShape, HandlerInv, IdleHandler
<1>2. ASSUME FetchNonce(h) PROVE QueueInv'
  BY <1>2 DEF FetchNonce, QueueOK, Positions, PostingShape, HandlersShape, HandlerInv
<1>3. ASSUME InsertUser(h) PROVE QueueInv'
  BY <1>3 DEF InsertUser, QueueOK, Positions, PostingShape, HandlersShape, HandlerInv
<1>4. ASSUME GetUser(h) PROVE QueueInv'
  BY <1>4 DEF GetUser, QueueOK, Positions, PostingShape, HandlersShape, HandlerInv
<1>5. ASSUME Validate(h) PROVE QueueInv'
  <2>1. PICK n \in Nonces, fee \in Fees, size \in Sizes :
          handlers' = [handlers EXCEPT
             ![h].pc = IF n < arcs[handlers[h].arc].nonce THEN "replace" ELSE "enqueue",
             ![h].nonce = n, ![h].fee = fee, ![h].size = size]
    BY <1>5 DEF Validate
  <2>2. n \in Nat /\ fee \in Nat /\ size \in Nat
    BY BatcherAssumption DEF Nonces
  <2>3. handlers[h].pc = "lock"
    BY <1>5 DEF Validate
  <2>4. HandlersShape'
    BY <2>1, <2>2, <2>3, ZenonT(40) DEF HandlersShape, HandlerInv
  <2> QED
    BY <1>5, <2>4 DEF Validate, QueueOK, Positions, PostingShape
<1>6. ASSUME Abandon(h) PROVE QueueInv'
  BY <1>6, HandlerEnds DEF Abandon, QueueOK, Positions, PostingShape
<1>7. ASSUME Enqueue(h) PROVE QueueInv'
  <2>1. ProofOf(h) \in Entry
    BY <1>7, ProofOfType DEF Enqueue
  <2>2. /\ queue' \in Seq(Entry) /\ Len(queue') <= Len(queue) + 1 /\ Distinct(queue')
    BY <1>7, <1>d, <2>1, PushProperties DEF Enqueue
  <2>3. Len(queue') \in Nat /\ Len(queue) < MaxQueueSize
    BY <1>7, <1>d, <2>2, LenProperties DEF Enqueue, QueueFull
  <2>4. QueueOK'
    BY <1>d, <2>2, <2>3 DEF QueueOK, Distinct
  <2> QED
    BY <1>7, <2>2, <2>4, HandlerEnds DEF Enqueue, PostingShape
<1>8. ASSUME EnqueueEvicting(h) PROVE QueueInv'
  <2>1. PICK i \in Positions(queue) : queue' = Push(SwapRemove(queue, i), ProofOf(h))
    BY <1>8 DEF EnqueueEvicting
  <2>2. ProofOf(h) \in Entry
    BY <1>8, ProofOfType DEF EnqueueEvicting
  <2>3. /\ SwapRemove(queue, i) \in Seq(Entry)
        /\ Len(SwapRemove(queue, i)) = Len(queue) - 1
        /\ Distinct(SwapRemove(queue, i))
    BY <1>d, SwapRemoveProperties
  <2>4. /\ queue' \in Seq(Entry) /\ Distinct(queue')
        /\ Len(queue') <= Len(SwapRemove(queue, i)) + 1
    BY <2>1, <2>2, <2>3, PushProperties
  <2>5. Len(queue') \in Nat
    BY <2>4, LenProperties
  <2>6. QueueOK'
    BY <1>d, <2>3, <2>4, <2>5 DEF QueueOK, Distinct
  <2> QED
    BY <1>8, <2>4, <2>6, HandlerEnds DEF EnqueueEvicting, PostingShape
<1>9. ASSUME EvictionPanic(h) PROVE QueueInv'
  <2>1. PICK i \in Positions(queue) : queue' = SwapRemove(queue, i)
    BY <1>9 DEF EvictionPanic
  <2>2. queue' \in Seq(Entry) /\ Len(queue') = Len(queue) - 1 /\ Distinct(queue')
    BY <1>d, <2>1, SwapRemoveProperties
  <2>3. QueueOK'
    BY <1>d, <2>2 DEF QueueOK, Distinct
  <2> QED
    BY <1>9, <2>2, <2>3, HandlerEnds DEF EvictionPanic, PostingShape
<1>10. ASSUME EvictionBlocks(h) PROVE QueueInv'
  <2>1. PICK i \in Positions(queue) : queue' = SwapRemove(queue, i)
    BY <1>10 DEF EvictionBlocks
  <2>2. queue' \in Seq(Entry) /\ Len(queue') = Len(queue) - 1 /\ Distinct(queue')
    BY <1>d, <2>1, SwapRemoveProperties
  <2>3. QueueOK'
    BY <1>d, <2>2 DEF QueueOK, Distinct
  <2> QED
    BY <1>10, <2>2, <2>3 DEF EvictionBlocks, PostingShape, HandlersShape, HandlerInv
<1>11. ASSUME Replace(h) PROVE QueueInv'
  <2> DEFINE i == EntryAt(queue, handlers[h].user, handlers[h].nonce)
  <2>1. i \in Positions(queue)
    BY <1>11 DEF Replace, ReplacementMayProceed, HasEntry, EntriesOf, EntryAt
  <2>2. ProofOf(h) \in Entry
    BY <1>11, ProofOfType DEF Replace, ReplacementMayProceed
  <2>3. queue' = Push(SwapRemove(queue, i), ProofOf(h))
    BY <1>11 DEF Replace
  <2> HIDE DEF i
  <2>4. /\ SwapRemove(queue, i) \in Seq(Entry)
        /\ Len(SwapRemove(queue, i)) = Len(queue) - 1
        /\ Distinct(SwapRemove(queue, i))
    BY <1>d, <2>1, SwapRemoveProperties
  <2>5. /\ queue' \in Seq(Entry) /\ Distinct(queue')
        /\ Len(queue') <= Len(SwapRemove(queue, i)) + 1
    BY <2>2, <2>3, <2>4, PushProperties
  <2>6. Len(queue') \in Nat
    BY <2>5, LenProperties
  <2>7. QueueOK'
    BY <1>d, <2>4, <2>5, <2>6 DEF QueueOK, Distinct
  <2> QED
    BY <1>11, <2>5, <2>7, HandlerEnds DEF Replace, PostingShape
<1>12. ASSUME ReplaceInvalid(h) PROVE QueueInv'
  BY <1>12, HandlerEnds DEF ReplaceInvalid, QueueOK, Positions, PostingShape
<1> QED
  BY <1>1, <1>2, <1>3, <1>4, <1>5, <1>6, <1>7, <1>8, <1>9, <1>10, <1>11, <1>12
     DEF HandlerStep

\* Steps of the block task keep the invariant.
LEMMA BlockStepInv ==
  ASSUME QueueInv, BlockStep
  PROVE  QueueInv'
<1> USE DEF QueueInv
<1>d. Distinct(queue) /\ Len(queue) \in Nat /\ Len(queue) <= MaxQueueSize /\ MaxQueueSize \in Nat
  BY LenProperties, BatcherAssumption DEF QueueOK, Distinct
<1>e. <<>> \in Seq(Entry) /\ Len(<<>>) = 0
  BY EmptySeq
<1>1. ASSUME ExtractBatch PROVE QueueInv'
  <2>a. PICK gasPrice \in GasPrices : \E x \in ExtractBatchDirectly(queue, gasPrice) :
          /\ queue' = x.queue
          /\ posting' = IF x.batch = <<>> THEN posting
                        ELSE [NotPosting EXCEPT !.pc = "submit", !.batch = x.batch,
                               !.fee = FeePerProof(Len(x.batch), gasPrice)]
    BY <1>1 DEF ExtractBatch
  <2>1. PICK x \in ExtractBatchDirectly(queue, gasPrice) :
          /\ queue' = x.queue
          /\ posting' = IF x.batch = <<>> THEN posting
                        ELSE [NotPosting EXCEPT !.pc = "submit", !.batch = x.batch,
                               !.fee = FeePerProof(Len(x.batch), gasPrice)]
    BY <2>a
  <2>2. /\ queue' \in Seq(Entry) /\ Len(queue') <= Len(queue) /\ Distinct(queue')
        /\ x.batch \in Seq(Entry)
    BY <1>d, <2>1, ExtractProperties
  <2>3. Len(queue') \in Nat
    BY <2>2, LenProperties
  <2>4. QueueOK'
    BY <1>d, <2>2, <2>3 DEF QueueOK, Distinct
  <2>5. PostingShape'
    BY <1>e, <2>1, <2>2 DEF PostingShape, NotPosting
  <2> QED
    BY <1>1, <2>2, <2>4, <2>5 DEF ExtractBatch, HandlersShape
<1>2. ASSUME SendTask PROVE QueueInv'
  BY <1>2 DEF SendTask, QueueOK, Positions, PostingShape, HandlersShape
<1>3. ASSUME TaskReceipt PROVE QueueInv'
  BY <1>3 DEF TaskReceipt, QueueOK, Positions, PostingShape, HandlersShape
<1>4. ASSUME InsufficientBalance PROVE QueueInv'
  <2>1. queue' = <<>> /\ posting' = NotPosting /\ UNCHANGED handlers
    BY <1>4 DEF InsufficientBalance, FlushQueue
  <2> QED
    BY <1>d, <1>e, <2>1 DEF QueueOK, Positions, PostingShape, NotPosting, HandlersShape
<1>5. ASSUME VerifiersChanged PROVE QueueInv'
  <2>1. queue' = <<>> /\ UNCHANGED <<posting, handlers>>
    BY <1>5 DEF VerifiersChanged, FlushQueue
  <2> QED
    BY <1>d, <1>e, <2>1 DEF QueueOK, Positions, PostingShape, HandlersShape
<1>6. ASSUME SubmissionFails PROVE QueueInv'
  BY <1>6 DEF SubmissionFails, QueueOK, Positions, PostingShape, HandlersShape
<1>7. ASSUME RestoreProof PROVE QueueInv'
  <2> DEFINE e == Head(posting.rest)
             f == [e EXCEPT !.prio = e.max_fee]
  <2>1. e \in Entry /\ Tail(posting.rest) \in Seq(Entry)
    BY <1>7, HeadTailProperties DEF RestoreProof, PostingShape
  <2>2. f \in Entry
    BY <2>1 DEF EntryOf
  <2>3. queue' = Push(queue, f)
    BY <1>7 DEF RestoreProof
  <2>4. PostingShape'
    BY <1>7, <2>1 DEF RestoreProof, PostingShape
  <2> HIDE DEF f
  <2>5. /\ queue' \in Seq(Entry) /\ Len(queue') <= Len(queue) + 1 /\ Distinct(queue')
    BY <1>d, <2>2, <2>3, PushProperties
  <2>6. Len(queue') \in Nat /\ Len(queue) < MaxQueueSize
    BY <1>7, <1>d, <2>5, LenProperties DEF RestoreProof, QueueFull
  <2>7. QueueOK'
    BY <1>d, <2>5, <2>6 DEF QueueOK, Distinct
  <2> QED
    BY <1>7, <2>4, <2>5, <2>7 DEF RestoreProof, HandlersShape
<1>8. ASSUME RestoreDrops PROVE QueueInv'
  <2>1. Tail(posting.rest) \in Seq(Entry)
    BY <1>8, HeadTailProperties DEF RestoreDrops, PostingShape
  <2> QED
    BY <1>8, <2>1 DEF RestoreDrops, QueueOK, Positions, PostingShape, HandlersShape
<1>9. ASSUME RestoreBlocks PROVE QueueInv'
  <2>1. PICK i \in Positions(queue) : queue' = SwapRemove(queue, i)
    BY <1>9 DEF RestoreBlocks, Peekable
  <2>2. queue' \in Seq(Entry) /\ Len(queue') = Len(queue) - 1 /\ Distinct(queue')
    BY <1>d, <2>1, SwapRemoveProperties
  <2>3. QueueOK'
    BY <1>d, <2>2 DEF QueueOK, Distinct
  <2> QED
    BY <1>9, <2>2, <2>3 DEF RestoreBlocks, PostingShape, HandlersShape
<1>10. ASSUME RestoreEnds PROVE QueueInv'
  BY <1>10 DEF RestoreEnds, QueueOK, Positions, PostingShape, HandlersShape
<1>11. ASSUME NEW u \in Users, UpdateUser(u) PROVE QueueInv'
  BY <1>11 DEF UpdateUser, QueueOK, Positions, PostingShape, HandlersShape
<1>12. ASSUME FinishPosting PROVE QueueInv'
  BY <1>12, <1>e DEF FinishPosting, QueueOK, Positions, PostingShape, NotPosting, HandlersShape
<1>13. ASSUME FinishFailedPosting PROVE QueueInv'
  BY <1>13, <1>e
     DEF FinishFailedPosting, QueueOK, Positions, PostingShape, NotPosting, HandlersShape
<1> QED
  BY <1>1, <1>2, <1>3, <1>4, <1>5, <1>6, <1>7, <1>8, <1>9, <1>10, <1>11, <1>12, <1>13
     DEF BlockStep

\* Steps of the poller and of the chain keep the invariant.
LEMMA OtherStepInv ==
  ASSUME QueueInv, PollStep \/ ChainStep
  PROVE  QueueInv'
<1> USE DEF QueueInv
<1>d. Distinct(queue) /\ Len(queue) \in Nat /\ Len(queue) <= MaxQueueSize /\ MaxQueueSize \in Nat
  BY LenProperties, BatcherAssumption DEF QueueOK, Distinct
<1>1. ASSUME RemoveUserProofs PROVE QueueInv'
  <2>1. queue' \in Seq(Entry) /\ Len(queue') <= Len(queue) /\ Distinct(queue')
    BY <1>1, <1>d, RemoveProperties DEF RemoveUserProofs
  <2>2. Len(queue') \in Nat
    BY <2>1, LenProperties
  <2>3. QueueOK'
    BY <1>d, <2>1, <2>2 DEF QueueOK, Distinct
  <2> QED
    BY <1>1, <2>1, <2>3 DEF RemoveUserProofs, PostingShape, HandlersShape
<1>2. ASSUME UNCHANGED <<queue, posting, handlers>> PROVE QueueInv'
  BY <1>2 DEF QueueOK, Positions, PostingShape, HandlersShape
<1>3. ASSUME SkipRemoval \/ (\E u \in Users : PollEvent(u)) \/ ChainStep PROVE QueueInv'
  BY <1>2, <1>3 DEF SkipRemoval, PollEvent, ChainStep, Unlock, Lock, Withdraw
<1> QED
  BY <1>1, <1>3 DEF PollStep

\* The queue stays within max_queue_size and never holds a sender and nonce
\* twice, through evictions, replacements, failed batches put back and flushes,
\* and even though two connections can disagree on a user's state.
THEOREM QueueCorrect == Spec => []QueueOK
<1>1. Init => QueueInv
  <2> SUFFICES ASSUME Init PROVE QueueInv
    OBVIOUS
  <2>1. <<>> \in Seq(Entry) /\ Len(<<>>) = 0 /\ MaxQueueSize \in Nat
    BY EmptySeq, BatcherAssumption
  <2> QED
    BY <2>1 DEF Init, QueueInv, QueueOK, Positions, PostingShape, NotPosting, HandlersShape,
                HandlerInv, IdleHandler
<1>2. QueueInv /\ [Next]_vars => QueueInv'
  <2> SUFFICES ASSUME QueueInv, [Next]_vars PROVE QueueInv'
    OBVIOUS
  <2>1. CASE UNCHANGED vars
    BY <2>1 DEF vars, QueueInv, QueueOK, Positions, PostingShape, HandlersShape
  <2> QED
    BY <2>1, HandlerStepInv, BlockStepInv, OtherStepInv DEF Next
<1>3. QueueInv => QueueOK
  BY DEF QueueInv
<1> QED
  BY <1>1, <1>2, <1>3, PTL DEF Spec

-----------------------------------------------------------------------------
(***************************************************************************)
(* Type correctness.  A handler refers to a user state from the time it    *)
(* gets it until it ends.                                                  *)
(***************************************************************************)
\* The parts of the state.
PcOfHandler == {"idle", "fetch", "insert", "get", "lock", "enqueue", "replace", "stuck"}

HandlerRecord == [pc : PcOfHandler, user : Users \cup {None}, arc : Arcs \cup {None},
                  nonce : Nat, fee : Nat, size : Nat]

PcOfPosting == {"idle", "submit", "sent", "restore", "updateOk", "updateFailed", "stuck"}

HandlersTyped ==
    /\ handlers \in [Handlers -> HandlerRecord]
    /\ \A h \in Handlers :
         handlers[h].arc # None <=> handlers[h].pc \in {"lock", "enqueue", "replace", "stuck"}

PostingTyped == posting \in [pc : PcOfPosting, batch : Seq(Entry), fee : Nat,
                             rest : Seq(Entry), todo : SUBSET Users]

StatesTyped == userStates \in [Users -> Arcs \cup {None}]

ArcsTyped == arcs \in [LiveArcs -> UserState]

ChainTyped ==
    /\ poller \in Users \cup {None}
    /\ unlockEvents \subseteq Users
    /\ ethNonce \in [Users -> Nat]
    /\ balance \in [Users -> Nat]
    /\ unlocked \in [Users -> BOOLEAN]

\* The inductive invariant of the types.
StateTyped ==
    /\ batchLock \in {"free", "restore", "stuck"}
    /\ HandlersTyped /\ PostingTyped /\ StatesTyped /\ ArcsTyped /\ ChainTyped

TypeInv == QueueInv /\ StateTyped

\* The invariant implies the types the run checks.
LEMMA TypeInvImplies == TypeInv => TypeOK
BY DEF TypeOK, TypeInv, StateTyped, QueueInv, HandlersTyped, HandlerRecord, PcOfHandler, PostingTyped,
       PcOfPosting, StatesTyped, ArcsTyped, ChainTyped

\* There is an allocation nobody refers to.
LEMMA FreshArcIsFresh ==
  ASSUME StatesTyped, HandlersTyped
  PROVE  FreshArc \in Arcs /\ FreshArc \notin LiveArcs /\ FreshArc # None
<1> DEFINE A == {userStates[u] : u \in Users}
           B == {handlers[h].arc : h \in Handlers}
           f == [u \in Users |-> userStates[u]]
           g == [h \in Handlers |-> handlers[h].arc]
<1>1. IsFiniteSet(A) /\ Cardinality(A) <= Cardinality(Users)
  <2>1. f \in Surjection(Users, A)
    BY DEF Surjection
  <2> HIDE DEF f, A
  <2> QED
    BY <2>1, SizesAssumption, FS_Surjection
<1>2. IsFiniteSet(B) /\ Cardinality(B) <= Cardinality(Handlers)
  <2>1. g \in Surjection(Handlers, B)
    BY DEF Surjection
  <2> HIDE DEF g, B
  <2> QED
    BY <2>1, SizesAssumption, FS_Surjection
<1> HIDE DEF A, B
<1>3. IsFiniteSet(A \cup B) /\ Cardinality(A \cup B) <= Cardinality(A) + Cardinality(B)
  <2>1. /\ IsFiniteSet(A \cup B) /\ IsFiniteSet(A \cap B)
        /\ Cardinality(A \cup B) = Cardinality(A) + Cardinality(B) - Cardinality(A \cap B)
    BY <1>1, <1>2, FS_Union, FS_Intersection
  <2>2. /\ Cardinality(A) \in Nat /\ Cardinality(B) \in Nat /\ Cardinality(A \cap B) \in Nat
        /\ Cardinality(A \cup B) \in Nat
    BY <1>1, <1>2, <2>1, FS_CardinalityType
  <2> QED
    BY <2>1, <2>2
<1>4. LiveArcs \subseteq A \cup B
  BY DEF LiveArcs, A, B
<1>5. IsFiniteSet(LiveArcs) /\ Cardinality(LiveArcs) <= Cardinality(A \cup B)
  BY <1>3, <1>4, FS_Subset
<1>6. ~(Arcs \subseteq LiveArcs)
  <2>1. SUFFICES ASSUME Arcs \subseteq LiveArcs PROVE FALSE
    OBVIOUS
  <2>2. IsFiniteSet(Arcs) /\ Cardinality(Arcs) <= Cardinality(LiveArcs)
    BY <1>5, <2>1, FS_Subset
  <2>3. /\ Cardinality(Arcs) \in Nat /\ Cardinality(LiveArcs) \in Nat
        /\ Cardinality(A \cup B) \in Nat /\ Cardinality(A) \in Nat /\ Cardinality(B) \in Nat
        /\ Cardinality(Users) \in Nat /\ Cardinality(Handlers) \in Nat
    BY <1>1, <1>2, <1>3, <1>5, <2>2, SizesAssumption, FS_CardinalityType
  <2> QED
    BY <1>1, <1>2, <1>3, <1>5, <2>2, <2>3, SizesAssumption
<1> QED
  BY <1>6, BatcherAssumption DEF FreshArc

\* There is an allocation for the state of the non-paying user.
LEMMA FirstArcIsArc == FirstArc \in Arcs
<1>1. Arcs # {}
  <2>1. Cardinality({}) = 0 /\ IsFiniteSet({})
    BY FS_EmptySet
  <2>2. Cardinality(Users) \in Nat /\ Cardinality(Handlers) \in Nat
    BY SizesAssumption, FS_CardinalityType
  <2>3. ~(0 > Cardinality(Users) + Cardinality(Handlers))
    BY <2>2
  <2> QED
    BY <2>1, <2>3, SizesAssumption
<1> QED
  BY <1>1 DEF FirstArc

\* The user states somebody refers to, written again by a step.
LEMMA ArcsBecomeTyped ==
  ASSUME NEW f, ArcsBecome(f), \A a \in LiveArcs' : f[a] \in UserState
  PROVE  ArcsTyped'
BY DEF ArcsBecome, ArcsTyped

\* A step that leaves the user states alone and drops no reference but that of h.
LEMMA LiveShrinks ==
  ASSUME HandlersTyped, UNCHANGED userStates, NEW h \in Handlers,
         handlers' = [handlers EXCEPT ![h] = IdleHandler]
  PROVE  HandlersTyped' /\ LiveArcs' \subseteq LiveArcs
<1>1. IdleHandler \in HandlerRecord
  BY DEF IdleHandler, HandlerRecord, PcOfHandler
<1>2. HandlersTyped'
  BY <1>1 DEF HandlersTyped, IdleHandler
<1>3. \A g \in Handlers : handlers'[g].arc # None => handlers'[g].arc = handlers[g].arc
  BY DEF HandlersTyped, IdleHandler
<1> QED
  BY <1>2, <1>3 DEF LiveArcs

\* A step of h that keeps its reference.
LEMMA LiveSame ==
  ASSUME HandlersTyped, UNCHANGED userStates, HandlersTyped',
         \A g \in Handlers : handlers'[g].arc = handlers[g].arc
  PROVE  LiveArcs' = LiveArcs
BY DEF LiveArcs

\* A user state after a push, an eviction or a recomputation is one.
LEMMA AfterPushTyped ==
  ASSUME NEW s \in UserState, NEW e \in Entry
  PROVE  AfterPush(s, e) \in UserState
<1>1. /\ s.total_fees_in_queue + e.max_fee \in Nat /\ s.proofs_in_batch + 1 \in Nat
      /\ e.nonce + 1 \in Nat /\ e.max_fee \in Nat
  BY DEF UserState, EntryOf
<1>2. (s.proofs_in_batch + 1) % UsizeModulus \in Nat
  BY <1>1, BatcherAssumption
<1> QED
  BY <1>1, <1>2 DEF AfterPush, UserState

\* The least and the greatest of a set of naturals.
LEMMA MinIsLeast ==
  ASSUME NEW S \in SUBSET Nat, S # {}
  PROVE  Min(S) \in S /\ \A n \in S : Min(S) <= n
<1>1. \E n \in S : \A m \in S : n <= m
  BY LeastNatural
<1> QED
  BY <1>1 DEF Min

\* Of a nonempty set of naturals that is bounded, Max is a member.
LEMMA MaxIsGreatest ==
  ASSUME NEW n \in Nat, NEW S \in SUBSET (1..n), S # {}
  PROVE  Max(S) \in S
<1> DEFINE N == {n - i : i \in S}
<1>1. N \in SUBSET Nat /\ N # {}
  OBVIOUS
<1> HIDE DEF N
<1>2. PICK m \in N : \A k \in N : m <= k
  BY <1>1, LeastNatural
<1>3. PICK i \in S : m = n - i
  BY DEF N
<1>4. ASSUME NEW j \in S PROVE i >= j
  <2>1. n - j \in N
    BY DEF N
  <2>2. i \in Nat /\ j \in Nat /\ n - i <= n - j
    BY <1>2, <1>3, <2>1
  <2> QED
    BY <2>2
<1>5. \E x \in S : \A y \in S : x >= y
  BY <1>4
<1> QED
  BY <1>5 DEF Max

\* The state of a user that keeps proofs in the queue after an eviction.
LEMMA AfterEvictionTyped ==
  ASSUME NEW s \in UserState, NEW e \in Entry, ~EvictionPanics(s, e),
         NEW rest \in Seq(Entry), EntriesFrom(rest, e.sender) # {}
  PROVE  AfterEviction(s, e, rest) \in UserState
<1>1. /\ s.nonce - 1 \in Nat /\ s.total_fees_in_queue - e.max_fee \in Nat
      /\ s.proofs_in_batch - 1 \in Int
  BY DEF UserState, EntryOf, EvictionPanics
<1>2. (s.proofs_in_batch - 1) % UsizeModulus \in Nat
  BY <1>1, BatcherAssumption
<1> DEFINE S == {i \in Positions(rest) : rest[i].sender = e.sender}
<1>3. S # {} /\ Len(rest) \in Nat /\ S \in SUBSET (1..Len(rest))
  BY LenProperties DEF EntriesFrom, EntriesOf, Positions
<1> HIDE DEF S
<1>4. Max(S) \in 1..Len(rest)
  BY <1>3, MaxIsGreatest
<1>5. LastEntryOf(rest, e.sender).max_fee \in Nat
  <2>1. rest[Max(S)] \in Entry
    BY <1>4, ElementOfSeq
  <2>2. LastEntryOf(rest, e.sender) = rest[Max(S)]
    BY DEF LastEntryOf, S
  <2> QED
    BY <2>1, <2>2 DEF EntryOf
<1> QED
  BY <1>1, <1>2, <1>5 DEF AfterEviction, UserState

\* The lowest fee of a user's queued proofs is the fee of one of them.
LEMMA MinFeeTyped ==
  ASSUME NEW q \in Seq(Entry), NEW u, EntriesFrom(q, u) # {}
  PROVE  /\ MinFeeOf(q, u) \in Nat
         /\ \A e \in EntriesFrom(q, u) : MinFeeOf(q, u) <= e.max_fee
         /\ \E e \in EntriesFrom(q, u) : MinFeeOf(q, u) = e.max_fee
<1> DEFINE S == {e.max_fee : e \in EntriesFrom(q, u)}
<1>1. S \in SUBSET Nat /\ S # {}
  <2>1. EntriesOf(q) \in SUBSET Entry
    BY EntriesFinite
  <2>2. \A e \in EntriesFrom(q, u) : e.max_fee \in Nat
    BY <2>1 DEF EntriesFrom, EntryOf
  <2> QED
    BY <2>2
<1>2. Min(S) \in S /\ \A n \in S : Min(S) <= n
  <2> HIDE DEF S
  <2> QED
    BY <1>1, MinIsLeast
<1>3. Min(S) \in Nat
  BY <1>1, <1>2
<1> QED
  BY <1>2, <1>3 DEF MinFeeOf

\* The state that update_user_states_from_queue_state computes.
LEMMA FromQueueTyped ==
  ASSUME NEW s \in UserState, NEW u, queue \in Seq(Entry)
  PROVE  FromQueue(s, u) \in UserState
<1> DEFINE S == EntriesFrom(queue, u)
<1>1. IsFiniteSet(S) /\ S \in SUBSET Entry
  BY EntriesFinite, FS_Subset DEF EntriesFrom
<1>2. Cardinality(S) \in Nat /\ TotalFees(S) \in Nat
  BY <1>1, FS_CardinalityType, FeesType
<1>3. (IF S = {} THEN Unlimited ELSE MinFeeOf(queue, u)) \in Nat
  BY MinFeeTyped, BatcherAssumption
<1> QED
  BY <1>2, <1>3 DEF FromQueue, UserState

\* Steps of a handler before it has the batch lock keep the types.
LEMMA EarlyHandlerTyped ==
  ASSUME TypeInv, NEW h \in Handlers,
         \/ \E u \in Users : CheckUser(h, u)
         \/ FetchNonce(h) \/ InsertUser(h) \/ GetUser(h) \/ Validate(h) \/ Abandon(h)
  PROVE  StateTyped'
<1>5. ASSUME Validate(h) PROVE StateTyped'
  <2>0. PICK n \in Nonces, fee \in Fees, size \in Sizes :
          handlers' = [handlers EXCEPT
             ![h].pc = IF n < arcs[handlers[h].arc].nonce THEN "replace" ELSE "enqueue",
             ![h].nonce = n, ![h].fee = fee, ![h].size = size]
    BY <1>5 DEF Validate
  <2>a. n \in Nat /\ fee \in Nat /\ size \in Nat
    BY BatcherAssumption DEF Nonces
  <2>b. handlers[h].pc = "lock" /\ HandlersTyped
    BY <1>5 DEF Validate, TypeInv, StateTyped
  <2>1. HandlersTyped'
    <3> DEFINE p == IF n < arcs[handlers[h].arc].nonce THEN "replace" ELSE "enqueue"
    <3>1. p \in {"replace", "enqueue"}
      OBVIOUS
    <3>2. handlers' = [handlers EXCEPT ![h].pc = p, ![h].nonce = n, ![h].fee = fee, ![h].size = size]
      BY <2>0
    <3> HIDE DEF p
    <3> DEFINE x == [handlers[h] EXCEPT !.pc = p, !.nonce = n, !.fee = fee, !.size = size]
    <3>a. x \in HandlerRecord
      BY <2>a, <2>b, <3>1 DEF HandlersTyped, HandlerRecord, PcOfHandler
    <3>b. handlers' = [handlers EXCEPT ![h] = x]
      BY <2>b, <3>2 DEF HandlersTyped
    <3>3. handlers' \in [Handlers -> HandlerRecord]
      BY <2>b, <3>a, <3>b DEF HandlersTyped
    <3> QED
      BY <2>b, <3>1, <3>2, <3>3 DEF HandlersTyped, HandlerRecord
  <2>2. \A g \in Handlers : handlers'[g].arc = handlers[g].arc
    BY <2>0, <2>b DEF HandlersTyped, HandlerRecord
  <2>3. LiveArcs' = LiveArcs
    BY <1>5, <2>b, <2>1, <2>2, LiveSame DEF Validate
  <2> QED
    BY <1>5, <2>1, <2>3 DEF TypeInv, StateTyped, Validate, PostingTyped, StatesTyped, ArcsTyped, ChainTyped,
                             chainVars, pollVars
<1> USE DEF TypeInv, StateTyped
<1>1. ASSUME NEW u \in Users, CheckUser(h, u) PROVE StateTyped'
  <2>1. HandlersTyped'
    BY <1>1, BatcherAssumption DEF CheckUser, HandlersTyped, HandlerRecord, PcOfHandler, IdleHandler
  <2>2. \A g \in Handlers : handlers'[g].arc = handlers[g].arc
    BY <1>1 DEF CheckUser, HandlersTyped, IdleHandler
  <2>3. LiveArcs' = LiveArcs
    BY <1>1, <2>1, <2>2, LiveSame DEF CheckUser
  <2> QED
    BY <1>1, <2>1, <2>3 DEF CheckUser, PostingTyped, StatesTyped, ArcsTyped, ChainTyped,
                             chainVars, pollVars
<1>2. ASSUME FetchNonce(h) PROVE StateTyped'
  <2>0. handlers[h].user \in Users
    BY <1>2 DEF FetchNonce, QueueInv, HandlersShape, HandlerInv
  <2>a. ethNonce[handlers[h].user] \in Nat
    BY <2>0 DEF ChainTyped
  <2>1. HandlersTyped'
    <3>1. handlers' = [handlers EXCEPT ![h].pc = "insert", ![h].nonce = ethNonce[handlers[h].user]]
      BY <1>2 DEF FetchNonce
    <3> DEFINE x == [handlers[h] EXCEPT !.pc = "insert", !.nonce = ethNonce[handlers[h].user]]
    <3>a. x \in HandlerRecord
      BY <2>a DEF HandlersTyped, HandlerRecord, PcOfHandler
    <3>b. handlers' = [handlers EXCEPT ![h] = x]
      BY <3>1 DEF HandlersTyped
    <3>2. handlers' \in [Handlers -> HandlerRecord]
      BY <3>a, <3>b DEF HandlersTyped
    <3> QED
      BY <1>2, <3>1, <3>2 DEF FetchNonce, HandlersTyped, HandlerRecord
  <2>2. \A g \in Handlers : handlers'[g].arc = handlers[g].arc
    BY <1>2 DEF FetchNonce, HandlersTyped, HandlerRecord
  <2>3. LiveArcs' = LiveArcs
    BY <1>2, <2>1, <2>2, LiveSame DEF FetchNonce
  <2> QED
    BY <1>2, <2>1, <2>3 DEF FetchNonce, PostingTyped, StatesTyped, ArcsTyped, ChainTyped,
                             chainVars, pollVars
<1>3. ASSUME InsertUser(h) PROVE StateTyped'
  <2> DEFINE f == [b \in LiveArcs \cup {FreshArc} |->
                     IF b = FreshArc THEN NewUserState(handlers[h].nonce) ELSE arcs[b]]
  <2>0. handlers[h].user \in Users /\ handlers[h].nonce \in Nat
    BY <1>3 DEF InsertUser, QueueInv, HandlersShape, HandlerInv, HandlersTyped, HandlerRecord
  <2>1. HandlersTyped'
    BY <1>3, <2>0, ZenonT(40) DEF InsertUser, HandlersTyped, HandlerRecord, PcOfHandler
  <2>2. FreshArc \in Arcs
    BY FreshArcIsFresh
  <2>3. StatesTyped'
    BY <1>3, <2>0, <2>2 DEF InsertUser, StatesTyped
  <2>4. \A g \in Handlers : handlers'[g].arc = handlers[g].arc
    BY <1>3 DEF InsertUser, HandlersTyped, HandlerRecord
  <2>5. LiveArcs' \subseteq LiveArcs \cup {FreshArc}
    BY <1>3, <2>4 DEF InsertUser, StatesTyped, LiveArcs
  <2>6. \A a \in LiveArcs' : f[a] \in UserState
    BY <2>0, <2>5, BatcherAssumption DEF ArcsTyped, NewUserState, UserState
  <2>7. ArcsBecome(f)
    BY <1>3 DEF InsertUser
  <2> HIDE DEF f
  <2>8. ArcsTyped'
    BY <2>6, <2>7, ArcsBecomeTyped
  <2> QED
    BY <1>3, <2>1, <2>3, <2>8 DEF InsertUser, PostingTyped, ChainTyped, chainVars, pollVars
<1>4. ASSUME GetUser(h) PROVE StateTyped'
  <2>0. handlers[h].user \in Users
    BY <1>4 DEF GetUser, QueueInv, HandlersShape, HandlerInv
  <2>1. HandlersTyped'
    BY <1>4, <2>0 DEF GetUser, HandlersTyped, HandlerRecord, PcOfHandler, StatesTyped
  <2>2. /\ \A g \in Handlers : g # h => handlers'[g].arc = handlers[g].arc
        /\ handlers[h].arc = None /\ handlers'[h].arc = userStates[handlers[h].user]
    BY <1>4 DEF GetUser, HandlersTyped, HandlerRecord
  <2>a. UNCHANGED userStates /\ DOMAIN handlers = Handlers /\ DOMAIN handlers' = Handlers
    BY <1>4 DEF GetUser, HandlersTyped
  <2>3. LiveArcs' = LiveArcs
    BY <2>0, <2>2, <2>a DEF LiveArcs
  <2> QED
    BY <1>4, <2>1, <2>3 DEF GetUser, PostingTyped, StatesTyped, ArcsTyped, ChainTyped,
                             chainVars, pollVars
<1>6. ASSUME Abandon(h) PROVE StateTyped'
  <2>1. HandlersTyped' /\ LiveArcs' \subseteq LiveArcs
    BY <1>6, LiveShrinks DEF Abandon
  <2>2. ArcsTyped'
    BY <1>6, <2>1, ArcsBecomeTyped DEF Abandon, ArcsTyped
  <2> QED
    BY <1>6, <2>1, <2>2 DEF Abandon, PostingTyped, StatesTyped, ChainTyped, chainVars, pollVars
<1> QED
  BY <1>1, <1>2, <1>3, <1>4, <1>5, <1>6

\* Steps of a handler under the batch lock keep the types.
LEMMA LateHandlerTyped ==
  ASSUME TypeInv, NEW h \in Handlers,
         \/ Enqueue(h) \/ EnqueueEvicting(h) \/ EvictionPanic(h) \/ EvictionBlocks(h)
         \/ Replace(h) \/ ReplaceInvalid(h)
  PROVE  StateTyped'
<1> USE DEF TypeInv, StateTyped
<1>a. \A a \in LiveArcs : arcs[a] \in UserState
  BY DEF ArcsTyped
<1>b. handlers[h].pc \in {"enqueue", "replace"} => ProofOf(h) \in Entry
  BY ProofOfType DEF QueueInv
<1>1. ASSUME Enqueue(h) PROVE StateTyped'
  <2> DEFINE f == [arcs EXCEPT ![handlers[h].arc] = AfterPush(@, ProofOf(h))]
  <2>1. HandlersTyped' /\ LiveArcs' \subseteq LiveArcs
    BY <1>1, LiveShrinks DEF Enqueue
  <2>2. \A a \in LiveArcs : f[a] \in UserState
    BY <1>1, <1>a, <1>b, AfterPushTyped DEF Enqueue, ArcsTyped
  <2>3. ArcsBecome(f)
    BY <1>1 DEF Enqueue
  <2> HIDE DEF f
  <2>4. ArcsTyped'
    BY <2>1, <2>2, <2>3, ArcsBecomeTyped
  <2> QED
    BY <1>1, <2>1, <2>4 DEF Enqueue, PostingTyped, StatesTyped, ChainTyped, chainVars, pollVars
<1>2. ASSUME EnqueueEvicting(h) PROVE StateTyped'
  <2>0. PICK i \in Positions(queue) :
          LET e == queue[i]
              rest == SwapRemove(queue, i)
              a == userStates[e.sender]
          IN  /\ EntriesFrom(rest, e.sender) # {}
              /\ ~EvictionPanics(arcs[a], e)
              /\ IsVictim(h, i)
              /\ ArcsBecome([arcs EXCEPT ![a] = AfterEviction(@, e, rest),
                                         ![handlers[h].arc] = AfterPush(@, ProofOf(h))])
    BY <1>2 DEF EnqueueEvicting
  <2> DEFINE e == queue[i]
             rest == SwapRemove(queue, i)
             a == userStates[e.sender]
             f == [arcs EXCEPT ![a] = AfterEviction(@, e, rest),
                               ![handlers[h].arc] = AfterPush(@, ProofOf(h))]
  <2>1. HandlersTyped' /\ LiveArcs' \subseteq LiveArcs
    BY <1>2, LiveShrinks DEF EnqueueEvicting
  <2>2. e \in Entry /\ rest \in Seq(Entry)
    BY ElementOfSeq, SwapRemoveProperties DEF Positions, QueueInv, QueueOK, Distinct
  <2>3. a \in LiveArcs
    BY <2>0, <2>2 DEF IsVictim, Evictable, LiveArcs, EntryOf
  <2>4. AfterEviction(arcs[a], e, rest) \in UserState
    BY <1>a, <2>0, <2>2, <2>3, AfterEvictionTyped
  <2>5. ArcsBecome(f)
    BY <2>0
  <2> HIDE DEF e, rest, a
  <2>6. ProofOf(h) \in Entry
    BY <1>2, <1>b DEF EnqueueEvicting
  <2>7. \A b \in LiveArcs : f[b] \in UserState
    BY <1>a, <2>3, <2>4, <2>6, AfterPushTyped DEF ArcsTyped
  <2> HIDE DEF f
  <2>8. ArcsTyped'
    BY <2>1, <2>5, <2>7, ArcsBecomeTyped
  <2> QED
    BY <1>2, <2>1, <2>8
       DEF EnqueueEvicting, PostingTyped, StatesTyped, ChainTyped, chainVars, pollVars
<1>3. ASSUME EvictionPanic(h) PROVE StateTyped'
  <2>0. PICK i \in Positions(queue) :
          /\ IsVictim(h, i)
          /\ ArcsBecome([arcs EXCEPT
               ![userStates[queue[i].sender]].proofs_in_batch = (@ - 1) % UsizeModulus,
               ![userStates[queue[i].sender]].nonce = IF @ = 0 THEN 0 ELSE @ - 1])
    BY <1>3 DEF EvictionPanic
  <2> DEFINE a == userStates[queue[i].sender]
             f == [arcs EXCEPT ![a].proofs_in_batch = (@ - 1) % UsizeModulus,
                               ![a].nonce = IF @ = 0 THEN 0 ELSE @ - 1]
  <2>1. HandlersTyped' /\ LiveArcs' \subseteq LiveArcs
    BY <1>3, LiveShrinks DEF EvictionPanic
  <2>2. queue[i] \in Entry
    BY ElementOfSeq DEF Positions, QueueInv
  <2>3. a \in LiveArcs
    BY <2>0, <2>2 DEF IsVictim, Evictable, LiveArcs, EntryOf
  <2>4. ArcsBecome(f)
    BY <2>0
  <2> HIDE DEF a
  <2>5. /\ arcs[a] \in UserState /\ arcs[a].proofs_in_batch - 1 \in Int
        /\ (IF arcs[a].nonce = 0 THEN 0 ELSE arcs[a].nonce - 1) \in Nat
    BY <1>a, <2>3 DEF UserState
  <2>6. (arcs[a].proofs_in_batch - 1) % UsizeModulus \in Nat
    BY <2>5, BatcherAssumption
  <2>7. \A b \in LiveArcs : f[b] \in UserState
    BY <1>a, <2>3, <2>5, <2>6 DEF ArcsTyped, UserState
  <2> HIDE DEF f
  <2>8. ArcsTyped'
    BY <2>1, <2>4, <2>7, ArcsBecomeTyped
  <2> QED
    BY <1>3, <2>1, <2>8
       DEF EvictionPanic, PostingTyped, StatesTyped, ChainTyped, chainVars, pollVars
<1>4. ASSUME EvictionBlocks(h) PROVE StateTyped'
  <2>1. HandlersTyped'
    BY <1>4 DEF EvictionBlocks, HandlersTyped, HandlerRecord, PcOfHandler
  <2>2. \A g \in Handlers : handlers'[g].arc = handlers[g].arc
    BY <1>4 DEF EvictionBlocks, HandlersTyped, HandlerRecord
  <2>3. LiveArcs' = LiveArcs
    BY <1>4, <2>1, <2>2, LiveSame DEF EvictionBlocks
  <2> QED
    BY <1>4, <2>1, <2>3 DEF EvictionBlocks, PostingTyped, StatesTyped, ArcsTyped, ChainTyped,
                             chainVars, pollVars
<1>5. ASSUME Replace(h) PROVE StateTyped'
  <2> DEFINE i == EntryAt(queue, handlers[h].user, handlers[h].nonce)
             a == handlers[h].arc
             f == [arcs EXCEPT ![a] = AfterReplacement(@, ProofOf(h), queue[i])]
  <2>1. HandlersTyped' /\ LiveArcs' \subseteq LiveArcs
    BY <1>5, LiveShrinks DEF Replace
  <2>2. i \in Positions(queue)
    BY <1>5 DEF Replace, ReplacementMayProceed, HasEntry, EntriesOf, EntryAt
  <2>3. ArcsBecome(f)
    BY <1>5 DEF Replace
  <2>4. queue[i] \in Entry /\ handlers[h].fee >= MinBump(queue[i].max_fee)
    BY <1>5, <2>2, ElementOfSeq DEF Positions, QueueInv, Replace, ReplacementMayProceed
  <2>5. ProofOf(h) \in Entry /\ ProofOf(h).max_fee = handlers[h].fee /\ handlers[h].pc = "replace"
    BY <1>5, <1>b DEF Replace, ReplacementMayProceed, ProofOf, NewEntry
  <2>6. queue' = Push(SwapRemove(queue, i), ProofOf(h))
    BY <1>5 DEF Replace
  <2> HIDE DEF i
  <2>7. ProofOf(h).max_fee - queue[i].max_fee \in Nat
    <3>1. queue[i].max_fee \in Nat /\ ProofOf(h).max_fee \in Nat
      BY <2>4, <2>5 DEF EntryOf
    <3>2. (queue[i].max_fee * MinBumpPercentage) \div 100 \in Nat
      BY <3>1, BatcherAssumption
    <3> QED
      BY <2>4, <2>5, <3>1, <3>2 DEF MinBump
  <2>8. MinFeeOf(queue', ProofOf(h).sender) \in Nat
    <3>1. /\ SwapRemove(queue, i) \in Seq(Entry) /\ Distinct(SwapRemove(queue, i))
      BY <2>2, SwapRemoveProperties DEF QueueInv, QueueOK, Distinct
    <3>2. queue' \in Seq(Entry)
      BY <2>5, <2>6, <3>1, PushProperties
    <3>3. EntriesFrom(queue', ProofOf(h).sender) # {}
      BY <2>5, <2>6, <3>1, PushHolds
    <3> QED
      BY <3>2, <3>3, MinFeeTyped
  <2>9. a \in LiveArcs
    BY <2>5 DEF HandlersTyped, LiveArcs
  <2>10. \A b \in LiveArcs : f[b] \in UserState
    <3>1. AfterReplacement(arcs[a], ProofOf(h), queue[i]) \in UserState
      <4> DEFINE d == ProofOf(h).max_fee - queue[i].max_fee
      <4>1. arcs[a] \in UserState /\ arcs[a].total_fees_in_queue + d \in Nat
        BY <1>a, <2>7, <2>9 DEF UserState
      <4>2. AfterReplacement(arcs[a], ProofOf(h), queue[i]) =
              [arcs[a] EXCEPT !.last_max_fee_limit = MinFeeOf(queue', ProofOf(h).sender),
                              !.total_fees_in_queue = @ + d]
        BY DEF AfterReplacement
      <4> HIDE DEF d
      <4> QED
        BY <2>8, <4>1, <4>2 DEF UserState
    <3> QED
      BY <1>a, <2>9, <3>1 DEF ArcsTyped
  <2> HIDE DEF f
  <2>11. ArcsTyped'
    BY <2>1, <2>3, <2>10, ArcsBecomeTyped
  <2> QED
    BY <1>5, <2>1, <2>11 DEF Replace, PostingTyped, StatesTyped, ChainTyped, chainVars, pollVars
<1>6. ASSUME ReplaceInvalid(h) PROVE StateTyped'
  <2>1. HandlersTyped' /\ LiveArcs' \subseteq LiveArcs
    BY <1>6, LiveShrinks DEF ReplaceInvalid
  <2>2. ArcsTyped'
    BY <1>6, <2>1, ArcsBecomeTyped DEF ReplaceInvalid, ArcsTyped
  <2> QED
    BY <1>6, <2>1, <2>2 DEF ReplaceInvalid, PostingTyped, StatesTyped, ChainTyped, chainVars, pollVars
<1> QED
  BY <1>1, <1>2, <1>3, <1>4, <1>5, <1>6

\* A flush leaves typed user states.
LEMMA FlushTyped ==
  ASSUME StateTyped, UNCHANGED <<handlers, ethNonce>>, NEW lost, FlushQueue(lost)
  PROVE  StatesTyped' /\ ArcsTyped'
<1> USE DEF StateTyped
<1> DEFINE f == [b \in LiveArcs \cup {FreshArc} |->
             IF b = FreshArc THEN NewUserState(IF NonPaying = None THEN 0 ELSE ethNonce[NonPaying])
                             ELSE arcs[b]]
<1>1. FreshArc \in Arcs
  BY FreshArcIsFresh
<1>2. PICK keep \in {None, NonPaying} :
         userStates' = [u \in Users |-> IF u = keep THEN FreshArc ELSE None]
  BY DEF FlushQueue
<1>3. StatesTyped'
  BY <1>1, <1>2 DEF StatesTyped
<1>4. LiveArcs' \subseteq LiveArcs \cup {FreshArc}
  BY <1>2 DEF LiveArcs
<1>5. (IF NonPaying = None THEN 0 ELSE ethNonce[NonPaying]) \in Nat
  BY BatcherAssumption DEF ChainTyped
<1>6. \A a \in LiveArcs' : f[a] \in UserState
  BY <1>4, <1>5, BatcherAssumption DEF ArcsTyped, NewUserState, UserState
<1>7. ArcsBecome(f)
  BY DEF FlushQueue
<1> HIDE DEF f
<1> QED
  BY <1>3, <1>6, <1>7, ArcsBecomeTyped

\* Numbers of proofs and fees of a batch are naturals.
LEMMA CountTyped ==
  ASSUME PostingTyped, NEW u
  PROVE  CountOf(posting.batch, u) \in Nat /\ SendersOf(posting.batch) \subseteq Users
<1>1. IsFiniteSet(EntriesOf(posting.batch)) /\ EntriesOf(posting.batch) \in SUBSET Entry
  BY EntriesFinite DEF PostingTyped
<1>2. IsFiniteSet(EntriesFrom(posting.batch, u))
  BY <1>1, FS_Subset DEF EntriesFrom
<1> QED
  BY <1>1, <1>2, FS_CardinalityType DEF CountOf, SendersOf, EntryOf

\* What the contract charges leaves balances and nonces naturals.
LEMMA ChargeTyped ==
  ASSUME PostingTyped, ChainTyped, CanCharge, ChargeBatch, UNCHANGED pollVars
  PROVE  ChainTyped'
<1>1. \A u \in Users : CountOf(posting.batch, u) \in Nat
  BY CountTyped
<1>2. posting.fee \in Nat
  BY DEF PostingTyped
<1>3. ASSUME NEW u \in Users PROVE balance[u] - CountOf(posting.batch, u) * posting.fee \in Nat
  <2>1. CASE u \in SendersOf(posting.batch)
    <3>1. CountOf(posting.batch, u) * posting.fee \in Nat /\ balance[u] \in Nat
      BY <1>1, <1>2 DEF ChainTyped
    <3>2. balance[u] >= CountOf(posting.batch, u) * posting.fee
      BY <2>1 DEF CanCharge
    <3> QED
      BY <3>1, <3>2
  <2>2. CASE u \notin SendersOf(posting.batch)
    <3>1. EntriesFrom(posting.batch, u) = {}
      BY <2>2 DEF EntriesFrom, SendersOf
    <3>2. CountOf(posting.batch, u) = 0
      BY <3>1, FS_EmptySet DEF CountOf
    <3> QED
      BY <1>2, <3>2 DEF ChainTyped
  <2> QED
    BY <2>1, <2>2
<1>4. balance' \in [Users -> Nat]
  BY <1>3 DEF ChargeBatch
<1>5. ethNonce' \in [Users -> Nat]
  BY <1>1 DEF ChargeBatch, ChainTyped
<1> QED
  BY <1>4, <1>5 DEF ChargeBatch, ChainTyped, pollVars

\* Steps of the block task keep the types.
LEMMA BlockStepTyped ==
  ASSUME TypeInv, BlockStep
  PROVE  StateTyped'
<1> USE DEF TypeInv, StateTyped
<1>l. UNCHANGED <<userStates, handlers>> => LiveArcs' = LiveArcs /\ HandlersTyped' /\ StatesTyped'
  BY DEF LiveArcs, HandlersTyped, StatesTyped
<1>p. NotPosting \in [pc : PcOfPosting, batch : Seq(Entry), fee : Nat, rest : Seq(Entry),
                      todo : SUBSET Users]
  BY EmptySeq DEF NotPosting, PcOfPosting
<1>1. ASSUME ExtractBatch PROVE StateTyped'
  <2>a. PICK gasPrice \in GasPrices : \E x \in ExtractBatchDirectly(queue, gasPrice) :
          posting' = IF x.batch = <<>> THEN posting
                     ELSE [NotPosting EXCEPT !.pc = "submit", !.batch = x.batch,
                               !.fee = FeePerProof(Len(x.batch), gasPrice)]
    BY <1>1 DEF ExtractBatch
  <2>1. PICK x \in ExtractBatchDirectly(queue, gasPrice) :
          posting' = IF x.batch = <<>> THEN posting
                     ELSE [NotPosting EXCEPT !.pc = "submit", !.batch = x.batch,
                               !.fee = FeePerProof(Len(x.batch), gasPrice)]
    BY <2>a
  <2>2. x.batch \in Seq(Entry)
    BY ExtractProperties DEF QueueInv, QueueOK, Distinct
  <2>3. x.batch # <<>> => FeePerProof(Len(x.batch), gasPrice) \in Nat
    BY <2>2, EmptySeq, LenProperties, FeePerProofTyped, BatcherAssumption
  <2>4. PostingTyped'
    BY <1>p, <2>1, <2>2, <2>3 DEF PostingTyped, PcOfPosting, NotPosting
  <2> QED
    BY <1>1, <1>l, <2>4 DEF ExtractBatch, ArcsTyped, ChainTyped, chainVars, pollVars
<1>2. ASSUME SendTask PROVE StateTyped'
  BY <1>2, <1>l DEF SendTask, ArcsTyped, ChainTyped, PostingTyped, PcOfPosting, chainVars, pollVars
<1>3. ASSUME TaskReceipt PROVE StateTyped'
  <2>1. ChainTyped'
    BY <1>3, ChargeTyped DEF TaskReceipt, ChainTyped, chainVars, pollVars
  <2>2. SendersOf(posting.batch) \subseteq Users
    BY CountTyped
  <2> QED
    BY <1>3, <1>l, <2>1, <2>2 DEF TaskReceipt, ArcsTyped, PostingTyped, PcOfPosting
<1>4. ASSUME InsufficientBalance PROVE StateTyped'
  <2>1. StatesTyped' /\ ArcsTyped'
    BY <1>4, FlushTyped DEF InsufficientBalance, chainVars
  <2> QED
    BY <1>4, <1>p, <2>1
       DEF InsufficientBalance, HandlersTyped, PostingTyped, ChainTyped, chainVars, pollVars
<1>5. ASSUME VerifiersChanged PROVE StateTyped'
  <2>1. StatesTyped' /\ ArcsTyped'
    BY <1>5, FlushTyped DEF VerifiersChanged, chainVars
  <2> QED
    BY <1>5, <2>1
       DEF VerifiersChanged, HandlersTyped, PostingTyped, ChainTyped, chainVars, pollVars
<1>6. ASSUME SubmissionFails PROVE StateTyped'
  <2>1. ChainTyped'
    BY <1>6, ChargeTyped DEF SubmissionFails, ChainTyped, chainVars, pollVars
  <2> QED
    BY <1>6, <1>l, <2>1 DEF SubmissionFails, ArcsTyped, PostingTyped, PcOfPosting
<1>7. ASSUME RestoreProof PROVE StateTyped'
  <2>1. Head(posting.rest).sender \in Users /\ Tail(posting.rest) \in Seq(Entry)
    <3>1. posting.rest \in Seq(Entry) /\ posting.rest # <<>>
      BY <1>7 DEF RestoreProof, PostingTyped
    <3>2. Head(posting.rest) \in Entry /\ Tail(posting.rest) \in Seq(Entry)
      BY <3>1, HeadTailProperties
    <3> QED
      BY <3>2 DEF EntryOf
  <2> QED
    BY <1>7, <1>l, <2>1
       DEF RestoreProof, ArcsTyped, PostingTyped, PcOfPosting, ChainTyped, chainVars, pollVars
<1>8. ASSUME RestoreDrops PROVE StateTyped'
  <2>1. Tail(posting.rest) \in Seq(Entry)
    BY <1>8, HeadTailProperties DEF RestoreDrops, PostingTyped
  <2> QED
    BY <1>8, <1>l, <2>1
       DEF RestoreDrops, ArcsTyped, PostingTyped, PcOfPosting, ChainTyped, chainVars, pollVars
<1>9. ASSUME RestoreBlocks PROVE StateTyped'
  BY <1>9, <1>l
     DEF RestoreBlocks, ArcsTyped, PostingTyped, PcOfPosting, ChainTyped, chainVars, pollVars
<1>10. ASSUME RestoreEnds PROVE StateTyped'
  BY <1>10, <1>l
     DEF RestoreEnds, ArcsTyped, PostingTyped, PcOfPosting, ChainTyped, chainVars, pollVars
<1>11. ASSUME NEW u \in Users, UpdateUser(u) PROVE StateTyped'
  <2>1. ArcsTyped'
    <3>1. CASE UNCHANGED arcs
      BY <1>11, <1>l, <3>1 DEF UpdateUser, ArcsTyped
    <3>2. CASE /\ userStates[u] # None
               /\ arcs' = [arcs EXCEPT ![userStates[u]] = FromQueue(@, u)]
      <4>1. userStates[u] \in LiveArcs
        BY <3>2 DEF LiveArcs
      <4>2. FromQueue(arcs[userStates[u]], u) \in UserState
        BY <4>1, FromQueueTyped DEF ArcsTyped, QueueInv
      <4> QED
        BY <1>11, <1>l, <3>2, <4>2 DEF UpdateUser, ArcsTyped
    <3> QED
      BY <1>11, <3>1, <3>2 DEF UpdateUser
  <2> QED
    BY <1>11, <1>l, <2>1
       DEF UpdateUser, PostingTyped, PcOfPosting, ChainTyped, chainVars, pollVars
<1>12. ASSUME FinishPosting PROVE StateTyped'
  <2>1. ArcsTyped'
    <3>1. CASE UNCHANGED arcs
      BY <1>12, <1>l, <3>1 DEF FinishPosting, ArcsTyped
    <3>2. CASE arcs' = [a \in LiveArcs |->
                     IF \E u \in CleanupUsers : userStates[u] = a
                       THEN [arcs[a] EXCEPT !.last_max_fee_limit = Unlimited]
                       ELSE arcs[a]]
      <4>1. \A a \in LiveArcs : [arcs[a] EXCEPT !.last_max_fee_limit = Unlimited] \in UserState
        BY BatcherAssumption DEF ArcsTyped, UserState
      <4> QED
        BY <1>12, <1>l, <3>2, <4>1 DEF FinishPosting, ArcsTyped
    <3> QED
      BY <1>12, <3>1, <3>2 DEF FinishPosting
  <2> QED
    BY <1>12, <1>l, <1>p, <2>1 DEF FinishPosting, PostingTyped, ChainTyped, chainVars, pollVars
<1>13. ASSUME FinishFailedPosting PROVE StateTyped'
  BY <1>13, <1>l, <1>p
     DEF FinishFailedPosting, ArcsTyped, PostingTyped, ChainTyped, chainVars, pollVars
<1> QED
  BY <1>1, <1>2, <1>3, <1>4, <1>5, <1>6, <1>7, <1>8, <1>9, <1>10, <1>11, <1>12, <1>13
     DEF BlockStep

\* Steps of the poller and of the chain keep the types.
LEMMA OtherStepTyped ==
  ASSUME TypeInv, PollStep \/ ChainStep
  PROVE  StateTyped'
<1> USE DEF TypeInv, StateTyped
<1>l. UNCHANGED <<userStates, handlers, arcs, posting>> =>
        HandlersTyped' /\ StatesTyped' /\ ArcsTyped' /\ PostingTyped'
  BY DEF LiveArcs, HandlersTyped, StatesTyped, ArcsTyped, PostingTyped
<1>1. ASSUME RemoveUserProofs PROVE StateTyped'
  <2>1. StatesTyped' /\ LiveArcs' \subseteq LiveArcs
    BY <1>1 DEF RemoveUserProofs, StatesTyped, LiveArcs
  <2>2. ArcsTyped'
    BY <1>1, <2>1, ArcsBecomeTyped DEF RemoveUserProofs, ArcsTyped
  <2> QED
    BY <1>1, <2>1, <2>2 DEF RemoveUserProofs, HandlersTyped, PostingTyped, ChainTyped, chainVars
<1>2. ASSUME SkipRemoval PROVE StateTyped'
  BY <1>2, <1>l DEF SkipRemoval, ChainTyped, chainVars
<1>3. ASSUME NEW u \in Users, PollEvent(u) PROVE StateTyped'
  BY <1>3, <1>l DEF PollEvent, ChainTyped, chainVars
<1>4. ASSUME NEW u \in Users, Unlock(u) \/ Lock(u) \/ Withdraw(u) PROVE StateTyped'
  <2>1. CASE Unlock(u)
    BY <1>l, <2>1, BatcherAssumption DEF Unlock, ChainTyped, pollVars
  <2>2. CASE Lock(u)
    BY <1>l, <2>2 DEF Lock, ChainTyped, pollVars
  <2>3. CASE Withdraw(u)
    BY <1>l, <2>3 DEF Withdraw, ChainTyped, pollVars
  <2> QED
    BY <1>4, <2>1, <2>2, <2>3
<1> QED
  BY <1>1, <1>2, <1>3, <1>4 DEF PollStep, ChainStep

\* The invariant holds initially.
LEMMA InitTyped == Init => TypeInv
<1> SUFFICES ASSUME Init PROVE TypeInv
  OBVIOUS
<1>1. <<>> \in Seq(Entry) /\ Len(<<>>) = 0 /\ MaxQueueSize \in Nat
  BY EmptySeq, BatcherAssumption
<1>2. QueueInv
  BY <1>1 DEF Init, QueueInv, QueueOK, Positions, PostingShape, NotPosting, HandlersShape,
              HandlerInv, IdleHandler
<1>3. HandlersTyped
  BY DEF Init, HandlersTyped, HandlerRecord, PcOfHandler, IdleHandler
<1>4. StatesTyped
  BY FirstArcIsArc DEF Init, StatesTyped
<1>5. ArcsTyped
  <2>1. LiveArcs = {userStates[u] : u \in Users} \ {None}
    BY DEF Init, LiveArcs, IdleHandler
  <2>2. NewUserState(0) \in UserState
    BY BatcherAssumption DEF NewUserState, UserState
  <2> QED
    BY <2>1, <2>2 DEF Init, ArcsTyped
<1>6. PostingTyped
  BY <1>1 DEF Init, PostingTyped, PcOfPosting, NotPosting
<1>7. ChainTyped
  BY BatcherAssumption DEF Init, ChainTyped
<1> QED
  BY <1>2, <1>3, <1>4, <1>5, <1>6, <1>7 DEF TypeInv, StateTyped, Init

\* Every step keeps the invariant.
LEMMA NextTyped == TypeInv /\ [Next]_vars => TypeInv'
<1> SUFFICES ASSUME TypeInv, [Next]_vars PROVE TypeInv'
  OBVIOUS
<1>1. CASE UNCHANGED vars
  <2>1. QueueInv'
    BY <1>1 DEF vars, TypeInv, QueueInv, QueueOK, Positions, PostingShape, HandlersShape
  <2>2. StateTyped'
    BY <1>1 DEF vars, TypeInv, StateTyped, HandlersTyped, PostingTyped, StatesTyped, ArcsTyped,
                ChainTyped, LiveArcs, chainVars, pollVars
  <2> QED
    BY <2>1, <2>2 DEF TypeInv
<1>2. ASSUME NEW h \in Handlers, HandlerStep(h) PROVE TypeInv'
  <2>1. QueueInv'
    BY <1>2, HandlerStepInv DEF TypeInv
  <2>2. StateTyped'
    BY <1>2, EarlyHandlerTyped, LateHandlerTyped DEF HandlerStep
  <2> QED
    BY <2>1, <2>2 DEF TypeInv
<1>3. CASE BlockStep
  BY <1>3, BlockStepInv, BlockStepTyped DEF TypeInv
<1>4. CASE PollStep \/ ChainStep
  BY <1>4, OtherStepInv, OtherStepTyped DEF TypeInv
<1> QED
  BY <1>1, <1>2, <1>3, <1>4 DEF Next

\* The variables keep their types, and arcs holds exactly the user states that the map
\* or a handler refers to: no subtraction of the accounting goes below zero without a
\* panic, and no handler works on a user state that is gone.
THEOREM BatcherTypeCorrect == Spec => []TypeOK
<1> QED
  BY InitTyped, NextTyped, TypeInvImplies, PTL DEF Spec

-----------------------------------------------------------------------------
(***************************************************************************)
(* The accounts.  What the batcher's checks promise of a user's proofs     *)
(* holds as long as none of these happens, and each of them can break it:  *)
(*   - a message of a user arrives while another connection handles one;   *)
(*   - the queue is full and a proof makes room for another, or is dropped *)
(*     when a failed batch is put back;                                    *)
(*   - the disabled verifiers change, or a user unlocks its funds;         *)
(*   - a batch counted as failed is mined after all;                       *)
(*   - a proof is replaced while another of the user is in a batch that    *)
(*     can still fail: the fee is not compared with that one's.            *)
(* Undisturbed says of a behaviour that none of them does.                 *)
(***************************************************************************)
\* The proofs of a user in the queue, and in the batch that is being posted.
Queued(u) == EntriesFrom(queue, u)

Flying(u) == {e \in InFlight : e.sender = u}

\* A message of a user that has one in another connection's hands.
SecondMessage ==
    \E h \in Handlers, u \in Users :
        CheckUser(h, u) /\ \E g \in Handlers \ {h} : handlers[g].pc # "idle" /\ handlers[g].user = u

\* The queue is full.
MakesRoom ==
    \/ \E h \in Handlers : EnqueueEvicting(h) \/ EvictionBlocks(h)
    \/ RestoreDrops \/ RestoreBlocks

\* A replacement while a proof of the user may still be put back.
OvertakesFailing ==
    \E h \in Handlers :
        Replace(h) /\ "error" \in SubmissionFaults /\ Flying(handlers[h].user) # {}

Disturbance ==
    \/ SecondMessage
    \/ MakesRoom
    \/ VerifiersChanged
    \/ \E u \in Users : Unlock(u)
    \/ SubmissionFails /\ ChargeBatch
    \/ OvertakesFailing

Undisturbed == [][~Disturbance]_vars

(***************************************************************************)
(* The invariant, per user and in terms of what is queued (q), in flight   *)
(* (f), cached (s, when known) and on chain.  The proofs that are or may   *)
(* come back to the queue keep the order of the fees, and the fee limit    *)
(* and the total of the cached state bound all of them.                    *)
(***************************************************************************)
\* The proofs that are or may come back to the queue.
Kept(q, f) == IF "error" \in SubmissionFaults THEN q \cup f ELSE q

FeesFall(S) == \A e, g \in S : e.nonce < g.nonce => g.max_fee <= e.max_fee

AtMost(fee, S) == \A e \in S : fee <= e.max_fee

\* One user's account.
Accounted(q, f, known, s, eth, bal) ==
    /\ known => /\ eth <= s.nonce
                /\ NoncesOf(q \cup f) = eth..(s.nonce - 1)
                /\ AtMost(s.last_max_fee_limit, Kept(q, f))
                /\ TotalFees(q \cup f) <= s.total_fees_in_queue
    /\ ~known => q \cup f = {}
    /\ FeesFall(Kept(q, f))
    /\ TotalFees(q \cup f) <= bal

\* The account of a user in the current state.
Known(u) == userStates[u] # None

Account(u) == IF Known(u) THEN arcs[userStates[u]] ELSE NewUserState(0)

AccountOK(u) ==
    Accounted(Queued(u), Flying(u), Known(u), Account(u), ethNonce[u], balance[u])

\* The cached state as update_user_states_from_queue_state would compute it.
Matches(s, q) ==
    /\ s.proofs_in_batch = Cardinality(q)
    /\ s.total_fees_in_queue = TotalFees(q)
    /\ s.last_max_fee_limit = IF q = {} THEN Unlimited ELSE Min({e.max_fee : e \in q})

\* The users whose cached state no posting is about to correct.
Settled(u) ==
    \/ u \notin SendersOf(posting.batch)
    \/ posting.pc \in {"updateOk", "updateFailed"} /\ u \notin posting.todo

SettledOK(u) == Known(u) /\ Settled(u) => Matches(Account(u), Queued(u))

\* A message that passed the checks can still be accounted for.
Affordable(x, q, f, s, bal) ==
    /\ TotalFees(q \cup f) + x.fee <= bal
    /\ x.pc = "enqueue" => x.nonce = s.nonce /\ AtMost(x.fee, Kept(q, f))

ReadyOK(h) ==
    LET u == handlers[h].user
    IN  handlers[h].pc \in {"enqueue", "replace"} =>
            Affordable(handlers[h], Queued(u), Flying(u), Account(u), balance[u])

\* Handlers of different users, at work on the state the map holds.
HandlerOK(h) ==
    LET x == handlers[h]
    IN  /\ x.pc # "stuck"
        /\ x.pc \in {"fetch", "insert"} => ~Known(x.user)
        /\ x.pc = "insert" => x.nonce = ethNonce[x.user]
        /\ x.pc \in {"get", "lock", "enqueue", "replace"} => Known(x.user)
        /\ x.pc \in {"lock", "enqueue", "replace"} => x.arc = userStates[x.user]

\* No user has two messages being handled.
OneMessageEach ==
    \A g, h \in Handlers :
        g # h /\ handlers[g].pc # "idle" /\ handlers[h].pc # "idle" =>
            handlers[g].user # handlers[h].user

\* No two users share a state.
OneStateEach ==
    \A u, v \in Users : u # v /\ Known(u) => userStates[u] # userStates[v]

\* No unlock was requested.
NobodyUnlocks ==
    poller = None /\ unlockEvents = {} /\ \A u \in Users : ~unlocked[u]

\* The batch being posted.
Priced(S) == \A e \in S : e.prio = e.max_fee

BatchOK ==
    /\ Distinct(posting.batch) /\ Distinct(posting.rest)
    /\ Priced(EntriesOf(queue)) /\ Priced(EntriesOf(posting.batch))
    /\ \A e \in EntriesOf(queue), g \in InFlight : ~SameEntry(e, g)
    /\ posting.pc # "stuck"
    /\ posting.pc = "idle" => posting.batch = <<>>
    /\ posting.pc \in {"submit", "sent"} => AtMost(posting.fee, EntriesOf(posting.batch))
    /\ posting.pc = "restore" =>
         /\ EntriesOf(posting.rest) \subseteq EntriesOf(posting.batch)
         /\ SendersOf(posting.batch) \subseteq posting.todo \cup SendersOf(posting.rest)
    /\ posting.pc \in {"restore", "updateFailed"} => "error" \in SubmissionFaults
    /\ posting.pc = "updateOk" => KeysOf(EntriesOf(posting.batch)) \subseteq included

\* The contract charges nonces below the user's.
ChargedBefore == \A u \in Users, n \in Nat : <<u, n>> \in included => n < ethNonce[u]

\* The inductive invariant of the accounts.
AccountsInv ==
    /\ \A u \in Users : AccountOK(u) /\ SettledOK(u)
    /\ \A h \in Handlers : HandlerOK(h) /\ ReadyOK(h)
    /\ OneMessageEach /\ OneStateEach /\ NobodyUnlocks
    /\ BatchOK /\ BatchInNonceOrder
    /\ ChargedBefore /\ InclusionIsReal

-----------------------------------------------------------------------------
(***************************************************************************)
(* What happens to one user, in terms of sets of proofs.                   *)
(***************************************************************************)
Proofs(S) == S \in SUBSET Entry /\ IsFiniteSet(S)

\* Nonces, fees and states are naturals.
LEMMA ProofsTyped ==
  ASSUME NEW S, Proofs(S)
  PROVE  \A e \in S : e.nonce \in Nat /\ e.max_fee \in Nat /\ e.prio \in Nat /\ e.sender \in Users
BY DEF Proofs, EntryOf

\* A union of two sets of proofs is one.
LEMMA ProofsUnion ==
  ASSUME NEW S, Proofs(S), NEW T, Proofs(T)
  PROVE  Proofs(S \cup T) /\ TotalFees(S \cup T) \in Nat
BY FS_Union, FeesType DEF Proofs

\* The next proof of a user is pushed.
LEMMA AccountedPush ==
  ASSUME NEW q, Proofs(q), NEW f, Proofs(f), NEW s \in UserState, NEW eth \in Nat, NEW bal \in Nat,
         NEW e \in Entry, Accounted(q, f, TRUE, s, eth, bal), e.nonce = s.nonce,
         AtMost(e.max_fee, Kept(q, f)), TotalFees(q \cup f) + e.max_fee <= bal
  PROVE  Accounted(q \cup {e}, f, TRUE, AfterPush(s, e), eth, bal)
<1> DEFINE S == q \cup f
           K == Kept(q, f)
<1>1. Proofs(S) /\ TotalFees(S) \in Nat /\ s.nonce \in Nat /\ e.max_fee \in Nat
  BY ProofsUnion DEF UserState, EntryOf
<1>2. \A g \in S : g.nonce \in eth..(s.nonce - 1)
  BY DEF Accounted, NoncesOf
<1>3. e \notin S
  BY <1>1, <1>2
<1>4. TotalFees(S \cup {e}) = TotalFees(S) + e.max_fee
  BY <1>1, <1>3, FeesWith DEF Proofs
<1>5. K \subseteq S
  BY DEF Kept
<1>6. AfterPush(s, e).nonce = s.nonce + 1 /\ AfterPush(s, e).last_max_fee_limit = e.max_fee
      /\ AfterPush(s, e).total_fees_in_queue = s.total_fees_in_queue + e.max_fee
  BY DEF AfterPush
<1>7. NoncesOf(S \cup {e}) = eth..(AfterPush(s, e).nonce - 1)
  <2>1. eth <= s.nonce /\ NoncesOf(S) = eth..(s.nonce - 1)
    BY DEF Accounted
  <2>2. NoncesOf(S \cup {e}) = NoncesOf(S) \cup {s.nonce}
    BY DEF NoncesOf
  <2>3. eth..s.nonce = (eth..(s.nonce - 1)) \cup {s.nonce}
    BY <1>1, <2>1
  <2>4. AfterPush(s, e).nonce - 1 = s.nonce
    BY <1>1, <1>6
  <2> QED
    BY <2>1, <2>2, <2>3, <2>4
<1>8. FeesFall(K \cup {e})
  <2>1. FeesFall(K) /\ \A g \in K : g.nonce < e.nonce /\ g.nonce \in Nat /\ e.max_fee <= g.max_fee
    BY <1>1, <1>2, <1>5 DEF Accounted, AtMost
  <2>2. e.nonce \in Nat
    BY <1>1
  <2> HIDE DEF K
  <2> QED
    BY <2>1, <2>2 DEF FeesFall
<1>9. AtMost(e.max_fee, K \cup {e})
  BY <1>1 DEF AtMost
<1>10. TotalFees(S) <= s.total_fees_in_queue /\ s.total_fees_in_queue \in Nat /\ eth <= s.nonce
  BY DEF Accounted, UserState
<1>11. (q \cup {e}) \cup f = S \cup {e}
  OBVIOUS
<1>12. Kept(q \cup {e}, f) = K \cup {e}
  BY DEF Kept
<1> HIDE DEF S, K
<1>13. /\ eth <= AfterPush(s, e).nonce
       /\ TotalFees(S \cup {e}) <= AfterPush(s, e).total_fees_in_queue
       /\ TotalFees(S \cup {e}) <= bal
  BY <1>1, <1>4, <1>6, <1>10 DEF S
<1>14. AtMost(AfterPush(s, e).last_max_fee_limit, K \cup {e})
  BY <1>6, <1>9
<1> QED
  BY <1>7, <1>8, <1>11, <1>12, <1>13, <1>14 DEF Accounted

\* Proofs move between the queue and a batch.
LEMMA AccountedMove ==
  ASSUME NEW q, NEW f, NEW q2, NEW f2, NEW known, NEW s, NEW eth, NEW bal,
         Accounted(q, f, known, s, eth, bal), q2 \cup f2 = q \cup f, Kept(q2, f2) \subseteq Kept(q, f)
  PROVE  Accounted(q2, f2, known, s, eth, bal)
<1>1. FeesFall(Kept(q2, f2))
  BY DEF Accounted, FeesFall
<1>2. known => AtMost(s.last_max_fee_limit, Kept(q2, f2))
  BY DEF Accounted, AtMost
<1> QED
  BY <1>1, <1>2 DEF Accounted

\* A message is affordable with the same proofs outstanding.
LEMMA AffordableMove ==
  ASSUME NEW x, NEW q, NEW f, NEW q2, NEW f2, NEW s, NEW bal,
         Affordable(x, q, f, s, bal), q2 \cup f2 = q \cup f, Kept(q2, f2) \subseteq Kept(q, f)
  PROVE  Affordable(x, q2, f2, s, bal)
BY DEF Affordable, AtMost

\* The user state is recomputed while nothing is in flight.
LEMMA AccountedUpdate ==
  ASSUME NEW q, Proofs(q), NEW s \in UserState, NEW s2 \in UserState, NEW eth, NEW bal,
         Accounted(q, {}, TRUE, s, eth, bal), s2.nonce = s.nonce,
         Matches(s2, q)
  PROVE  Accounted(q, {}, TRUE, s2, eth, bal)
<1>1. Kept(q, {}) = q /\ q \cup {} = q
  BY DEF Kept
<1>2. TotalFees(q) \in Nat
  BY FeesType DEF Proofs
<1>3. AtMost(s2.last_max_fee_limit, q)
  <2>1. CASE q = {}
    BY <2>1 DEF AtMost
  <2>2. CASE q # {} /\ Matches(s2, q)
    <3> DEFINE N == {e.max_fee : e \in q}
    <3>1. N \in SUBSET Nat /\ N # {}
      BY <2>2, ProofsTyped
    <3>2. s2.last_max_fee_limit = Min(N)
      BY <2>2 DEF Matches
    <3>3. \A n \in N : Min(N) <= n
      <4> HIDE DEF N
      <4> QED
        BY <3>1, MinIsLeast
    <3> QED
      BY <3>2, <3>3 DEF AtMost
  <2> QED
    BY <2>1, <2>2
<1>4. TotalFees(q) <= s2.total_fees_in_queue
  BY <1>1, <1>2 DEF Accounted, Matches
<1> QED
  BY <1>1, <1>3, <1>4 DEF Accounted

\* The first state of a user with no proofs.
LEMMA AccountedNew ==
  ASSUME NEW s, NEW eth \in Nat, NEW bal \in Nat, Accounted({}, {}, FALSE, s, eth, bal)
  PROVE  Accounted({}, {}, TRUE, NewUserState(eth), eth, bal) /\ Matches(NewUserState(eth), {})
<1>1. /\ {} \cup {} = {} /\ Kept({}, {}) = {} /\ NoncesOf({}) = {} /\ TotalFees({}) = 0
      /\ Cardinality({}) = 0
  BY FeesOfNone, FS_EmptySet DEF Kept, NoncesOf
<1>2. eth..(eth - 1) = {}
  OBVIOUS
<1> DEFINE s2 == NewUserState(eth)
<1>3. /\ s2.nonce = eth /\ s2.total_fees_in_queue = 0 /\ s2.proofs_in_batch = 0
      /\ s2.last_max_fee_limit = Unlimited
  BY DEF NewUserState
<1> HIDE DEF s2
<1>4. Matches(s2, {})
  BY <1>1, <1>3 DEF Matches
<1>5. FeesFall({}) /\ AtMost(s2.last_max_fee_limit, {})
  BY DEF FeesFall, AtMost
<1>6. Accounted({}, {}, TRUE, s2, eth, bal)
  <2>1. eth <= s2.nonce /\ NoncesOf({} \cup {}) = eth..(s2.nonce - 1)
    <3>1. eth <= s2.nonce /\ eth..(s2.nonce - 1) = eth..(eth - 1)
      BY <1>3
    <3> QED
      BY <1>1, <1>2, <3>1, Zenon
  <2>2. TotalFees({} \cup {}) <= s2.total_fees_in_queue /\ TotalFees({} \cup {}) <= bal
    BY <1>1, <1>3
  <2>3. AtMost(s2.last_max_fee_limit, Kept({}, {})) /\ FeesFall(Kept({}, {}))
    BY <1>1, <1>5
  <2> QED
    BY <1>1, <2>1, <2>2, <2>3, Zenon DEF Accounted
<1> QED
  BY <1>4, <1>6 DEF s2

\* A batch is charged: what the contract takes from a user is at most what the user
\* offered for the proofs of the batch.
LEMMA AccountedCharge ==
  ASSUME NEW q, Proofs(q), NEW f, Proofs(f), NEW known \in BOOLEAN, NEW s \in UserState,
         NEW eth \in Nat, NEW bal \in Nat, Accounted(q, f, known, s, eth, bal),
         NoncesOf(f) = eth..(eth + Cardinality(f) - 1),
         \A e \in q, g \in f : e.nonce # g.nonce,
         NEW fee \in Nat, AtMost(fee, f)
  PROVE  /\ Cardinality(f) * fee <= bal
         /\ Accounted(q, {}, known, s, eth + Cardinality(f), bal - Cardinality(f) * fee)
         /\ \A x : x.fee \in Nat /\ Affordable(x, q, f, s, bal) =>
              Affordable(x, q, {}, s, bal - Cardinality(f) * fee)
<1> DEFINE c == Cardinality(f)
           t == c * fee
<1>1. c \in Nat /\ t \in Nat /\ s.nonce \in Nat
  BY FS_CardinalityType DEF Proofs, UserState
<1>2. TotalFees(q) \in Nat /\ TotalFees(f) \in Nat
  BY FeesType DEF Proofs
<1>3. TotalFees(q \cup f) = TotalFees(q) + TotalFees(f)
  <2>1. q \cap f = {}
    OBVIOUS
  <2> QED
    BY <2>1, FeesUnion, ZenonT(40) DEF Proofs
<1>4. t <= TotalFees(f)
  BY FeesBound DEF Proofs, AtMost
<1>5. q \cup {} = q /\ Kept(q, {}) = q /\ q \subseteq Kept(q, f)
  BY DEF Kept
<1>6. TotalFees(q \cup f) <= bal
  BY DEF Accounted
<1> HIDE DEF t, c
<1>7. TotalFees(q) + t <= bal /\ bal - t \in Nat /\ t <= bal /\ TotalFees(q) <= bal - t
  BY <1>1, <1>2, <1>3, <1>4, <1>6
<1>8. FeesFall(q)
  BY <1>5 DEF Accounted, FeesFall
<1>9. Accounted(q, {}, known, s, eth + c, bal - t)
  <2>1. CASE ~known
    <3>1. q = {} /\ f = {}
      BY <2>1 DEF Accounted
    <3> QED
      BY <1>5, <1>7, <1>8, <2>1, <3>1 DEF Accounted
  <2>2. CASE known
    <3>1. eth <= s.nonce /\ NoncesOf(q \cup f) = eth..(s.nonce - 1)
      BY <2>2 DEF Accounted
    <3>2. \A n : n \in NoncesOf(f) <=> n \in Int /\ eth <= n /\ n <= eth + c - 1
      <4>1. NoncesOf(f) = eth..(eth + c - 1)
        BY DEF c
      <4> DEFINE d == eth + c - 1
      <4>2. d \in Int /\ NoncesOf(f) = eth..d
        BY <1>1, <4>1
      <4> HIDE DEF d
      <4>3. \A n : n \in eth..d <=> n \in Int /\ eth <= n /\ n <= d
        BY <4>2
      <4>4. \A n : n \in NoncesOf(f) <=> n \in Int /\ eth <= n /\ n <= d
        BY <4>2, <4>3, Zenon
      <4> QED
        BY <4>4 DEF d
    <3>a. \A n : n \in NoncesOf(q \cup f) <=> n \in Int /\ eth <= n /\ n <= s.nonce - 1
      BY <1>1, <3>1
    <3>3. eth + c <= s.nonce
      <4>1. CASE c = 0
        BY <1>1, <3>1, <4>1
      <4>2. CASE c # 0
        <5>1. eth + c - 1 \in NoncesOf(f)
          <6>1. eth + c - 1 \in Int /\ eth <= eth + c - 1
            BY <1>1, <4>2
          <6> QED
            BY <3>2, <6>1
        <5>2. eth + c - 1 \in NoncesOf(q \cup f)
          BY <5>1 DEF NoncesOf
        <5> QED
          BY <1>1, <3>a, <5>2
      <4> QED
        BY <4>1, <4>2
    <3>4. NoncesOf(q) = (eth + c)..(s.nonce - 1)
      <4>1. ASSUME NEW n \in NoncesOf(q) PROVE n \in (eth + c)..(s.nonce - 1)
        <5>1. n \in NoncesOf(q \cup f) /\ n \notin NoncesOf(f)
          BY <4>1 DEF NoncesOf
        <5> QED
          BY <1>1, <3>a, <3>2, <5>1
      <4>2. ASSUME NEW n \in (eth + c)..(s.nonce - 1) PROVE n \in NoncesOf(q)
        <5>1. n \in NoncesOf(q \cup f) /\ n \notin NoncesOf(f)
          <6>1. n \in Int /\ eth <= n /\ n <= s.nonce - 1 /\ ~(n <= eth + c - 1)
            BY <1>1, <4>2
          <6> QED
            BY <3>a, <3>2, <6>1
        <5> QED
          BY <5>1 DEF NoncesOf
      <4> QED
        BY <4>1, <4>2
    <3>5. AtMost(s.last_max_fee_limit, q)
      BY <1>5, <2>2 DEF Accounted, AtMost
    <3>6. TotalFees(q) <= s.total_fees_in_queue
      <4>1. TotalFees(q \cup f) <= s.total_fees_in_queue /\ s.total_fees_in_queue \in Nat
        BY <2>2 DEF Accounted, UserState
      <4> QED
        BY <1>2, <1>3, <4>1
    <3> QED
      BY <1>5, <1>7, <1>8, <2>2, <3>3, <3>4, <3>5, <3>6 DEF Accounted
  <2> QED
    BY <2>1, <2>2
<1>10. ASSUME NEW x, x.fee \in Nat, Affordable(x, q, f, s, bal)
       PROVE  Affordable(x, q, {}, s, bal - t)
  <2>1. TotalFees(q) + x.fee <= bal - t
    BY <1>1, <1>2, <1>3, <1>4, <1>10 DEF Affordable
  <2>2. x.pc = "enqueue" => x.nonce = s.nonce /\ AtMost(x.fee, q)
    BY <1>5, <1>10 DEF Affordable, AtMost
  <2> QED
    BY <1>5, <2>1, <2>2 DEF Affordable
<1> QED
  BY <1>7, <1>9, <1>10 DEF t, c

\* A proof of a user is replaced by one that offers more.
LEMMA AccountedReplace ==
  ASSUME NEW q, Proofs(q), NEW f, Proofs(f), NEW s \in UserState, NEW s2 \in UserState,
         NEW eth, NEW bal \in Nat, Accounted(q, f, TRUE, s, eth, bal),
         "error" \notin SubmissionFaults \/ f = {},
         NEW old \in q, NEW e \in Entry, e.nonce = old.nonce, old.max_fee <= e.max_fee,
         \A g \in q : g.nonce = old.nonce => g = old,
         \A g \in f : g.nonce # old.nonce,
         \A g \in q : g.nonce < e.nonce => e.max_fee <= g.max_fee,
         s2.nonce = s.nonce, AtMost(s2.last_max_fee_limit, (q \ {old}) \cup {e}),
         s2.total_fees_in_queue = s.total_fees_in_queue + (e.max_fee - old.max_fee),
         TotalFees(q \cup f) + e.max_fee <= bal
  PROVE  Accounted((q \ {old}) \cup {e}, f, TRUE, s2, eth, bal)
<1> DEFINE S == q \cup f
           R == S \ {old}
           q2 == (q \ {old}) \cup {e}
<1>1. /\ Proofs(S) /\ TotalFees(S) \in Nat /\ old \in S
      /\ old.max_fee \in Nat /\ e.max_fee \in Nat /\ e.nonce \in Nat
  BY ProofsUnion, ProofsTyped DEF EntryOf
<1>2. Proofs(R) /\ TotalFees(R) \in Nat
  BY <1>1, FS_RemoveElement, FeesType DEF Proofs
<1>3. e \notin R
  OBVIOUS
<1>4. TotalFees(S) = old.max_fee + TotalFees(R)
  BY <1>1, FeesWithout DEF Proofs
<1>5. TotalFees(R \cup {e}) = TotalFees(R) + e.max_fee
  BY <1>2, <1>3, FeesWith DEF Proofs
<1>6. q2 \cup f = R \cup {e}
  OBVIOUS
<1>7. Kept(q2, f) = q2 /\ Kept(q, f) = q
  BY DEF Kept
<1>8. NoncesOf(q2 \cup f) = NoncesOf(S)
  <2>1. \A n : n \in NoncesOf(q2 \cup f) <=> n \in NoncesOf(S)
    BY <1>6 DEF NoncesOf
  <2> QED
    BY <2>1
<1>9. FeesFall(q2)
  <2>1. \A g \in q : g.nonce \in Nat /\ g.max_fee \in Nat
    BY ProofsTyped
  <2>2. FeesFall(q)
    BY <1>7 DEF Accounted
  <2>3. \A g \in q : e.nonce < g.nonce => g.max_fee <= e.max_fee
    BY <1>1, <2>1, <2>2 DEF FeesFall
  <2>4. \A g, h \in q : g.nonce < h.nonce => h.max_fee <= g.max_fee
    BY <2>2 DEF FeesFall
  <2> QED
    BY <1>1, <2>3, <2>4 DEF FeesFall
<1>10. /\ TotalFees(q2 \cup f) <= bal
       /\ TotalFees(q2 \cup f) <= s2.total_fees_in_queue
  <2>1. TotalFees(S) <= s.total_fees_in_queue /\ s.total_fees_in_queue \in Nat
    BY DEF Accounted, UserState
  <2> HIDE DEF S, R, q2
  <2>2. TotalFees(S) + e.max_fee <= bal
    BY DEF S
  <2>3. s2.total_fees_in_queue = s.total_fees_in_queue + (e.max_fee - old.max_fee)
    OBVIOUS
  <2>4. /\ TotalFees(R) + e.max_fee <= bal
        /\ TotalFees(R) + e.max_fee <= s.total_fees_in_queue + (e.max_fee - old.max_fee)
    BY <1>1, <1>2, <1>4, <2>1, <2>2
  <2> QED
    BY <1>5, <1>6, <2>3, <2>4
<1>11. eth <= s.nonce /\ NoncesOf(S) = eth..(s.nonce - 1)
  BY DEF Accounted
<1> HIDE DEF S, R
<1> QED
  BY <1>7, <1>8, <1>9, <1>10, <1>11 DEF Accounted

\* The least of the fees of some proofs.
LEMMA LeastFee ==
  ASSUME NEW q, Proofs(q), NEW e \in q, \A g \in q : e.max_fee <= g.max_fee
  PROVE  Min({g.max_fee : g \in q}) = e.max_fee
<1> DEFINE N == {g.max_fee : g \in q}
<1>1. N \in SUBSET Nat /\ N # {} /\ e.max_fee \in N /\ \A n \in N : e.max_fee <= n
  BY ProofsTyped
<1> HIDE DEF N
<1>2. Min(N) \in N /\ Min(N) <= e.max_fee
  BY <1>1, MinIsLeast
<1>3. Min(N) \in Nat /\ e.max_fee \in Nat /\ e.max_fee <= Min(N)
  BY <1>1, <1>2
<1>4. Min(N) = e.max_fee
  BY <1>2, <1>3
<1> QED
  BY <1>4 DEF N

\* A state that matches the queue does so after a push.
LEMMA MatchesPush ==
  ASSUME NEW q, Proofs(q), NEW s \in UserState, NEW e \in Entry, Matches(s, q), e \notin q,
         AtMost(e.max_fee, q), Cardinality(q) + 1 < UsizeModulus
  PROVE  Matches(AfterPush(s, e), q \cup {e})
<1>1. /\ Proofs(q \cup {e}) /\ Cardinality(q \cup {e}) = Cardinality(q) + 1
      /\ Cardinality(q) \in Nat /\ e.max_fee \in Nat
  BY FS_AddElement, FS_CardinalityType DEF Proofs, EntryOf
<1>2. TotalFees(q \cup {e}) = TotalFees(q) + e.max_fee
  BY FeesWith DEF Proofs
<1>3. (Cardinality(q) + 1) % UsizeModulus = Cardinality(q) + 1
  BY <1>1, BatcherAssumption
<1>4. Min({g.max_fee : g \in q \cup {e}}) = e.max_fee
  <2>1. \A g \in q \cup {e} : e.max_fee <= g.max_fee
    BY <1>1 DEF AtMost
  <2> QED
    BY <1>1, <2>1, LeastFee
<1>5. q \cup {e} # {}
  OBVIOUS
<1> QED
  BY <1>1, <1>2, <1>3, <1>4, <1>5 DEF Matches, AfterPush

\* And after a replacement.
LEMMA MatchesReplace ==
  ASSUME NEW q, Proofs(q), NEW s \in UserState, NEW s2, NEW old \in q, NEW e \in Entry,
         e \notin q \ {old}, Matches(s, q),
         s2.proofs_in_batch = s.proofs_in_batch,
         s2.total_fees_in_queue = s.total_fees_in_queue + (e.max_fee - old.max_fee),
         s2.last_max_fee_limit = Min({g.max_fee : g \in (q \ {old}) \cup {e}})
  PROVE  Matches(s2, (q \ {old}) \cup {e})
<1> DEFINE R == q \ {old}
<1>1. /\ Proofs(R) /\ Cardinality(R) = Cardinality(q) - 1 /\ TotalFees(R) \in Nat
      /\ Cardinality(q) \in Nat
  BY FS_RemoveElement, FS_CardinalityType, FeesType DEF Proofs
<1>2. TotalFees(q) = old.max_fee + TotalFees(R)
  BY FeesWithout DEF Proofs
<1> HIDE DEF R
<1>3. TotalFees(R \cup {e}) = TotalFees(R) + e.max_fee
  BY <1>1, FeesWith DEF Proofs, R
<1>4. Cardinality(R \cup {e}) = Cardinality(R) + 1
  BY <1>1, FS_AddElement DEF Proofs, R
<1>5. e.max_fee \in Nat /\ old.max_fee \in Nat
  BY ProofsTyped DEF EntryOf
<1>6. R \cup {e} # {}
  OBVIOUS
<1>7. s2.last_max_fee_limit = Min({g.max_fee : g \in R \cup {e}})
  BY DEF R
<1>8. s2.proofs_in_batch = Cardinality(q) /\ s2.total_fees_in_queue = TotalFees(q) + (e.max_fee - old.max_fee)
  BY DEF Matches
<1>9. Matches(s2, R \cup {e})
  BY <1>1, <1>2, <1>3, <1>4, <1>5, <1>6, <1>7, <1>8 DEF Matches
<1> QED
  BY <1>9 DEF R

\* Matching the queue is what the recomputation establishes.
LEMMA MatchesFromQueue ==
  ASSUME NEW s \in UserState, NEW u
  PROVE  /\ Matches(FromQueue(s, u), Queued(u))
         /\ Matches(s, Queued(u)) => s = FromQueue(s, u)
         /\ FromQueue(s, u).nonce = s.nonce
BY DEF Matches, FromQueue, Queued, UserState, MinFeeOf

\* A set of numbers from a to b that is downward closed holds the first ones.
LEMMA InitialSegment ==
  ASSUME NEW a \in Nat, NEW b \in Nat, a <= b, NEW A \in SUBSET (a..(b - 1)),
         \A m \in A, n \in (a..(b - 1)) \ A : m < n
  PROVE  A = a..(a + Cardinality(A) - 1)
<1> DEFINE N == {n \in Nat : a <= n /\ n \notin A}
<1>1. b \in N /\ N \in SUBSET Nat
  OBVIOUS
<1> HIDE DEF N
<1>2. PICK c \in N : \A n \in N : c <= n
  BY <1>1, LeastNatural
<1>3. c \in Nat /\ a <= c /\ c <= b /\ c \notin A
  BY <1>1, <1>2 DEF N
<1>4. \A n \in Nat : a <= n /\ n < c => n \in A
  BY <1>2, <1>3 DEF N
<1>5. ASSUME NEW n \in A PROVE n \in Nat /\ a <= n /\ n < c
  <2>1. n \in Nat /\ a <= n /\ n < b
    OBVIOUS
  <2>2. CASE c < b
    <3>1. c \in (a..(b - 1)) \ A
      BY <1>3, <2>2
    <3> QED
      BY <1>5, <2>1, <3>1
  <2>3. CASE c = b
    BY <2>1, <2>3
  <2> QED
    BY <1>3, <2>2, <2>3
<1>6. A = a..(c - 1)
  <2>1. \A n : n \in A <=> n \in Int /\ a <= n /\ n <= c - 1
    <3>1. ASSUME NEW n \in A PROVE n \in Int /\ a <= n /\ n <= c - 1
      BY <1>3, <1>5
    <3>2. ASSUME NEW n \in Int, a <= n, n <= c - 1 PROVE n \in A
      <4>1. n \in Nat /\ n < c
        BY <1>3, <3>2
      <4> QED
        BY <1>4, <3>2, <4>1
    <3> QED
      BY <3>1, <3>2
  <2>2. \A n : n \in a..(c - 1) <=> n \in Int /\ a <= n /\ n <= c - 1
    BY <1>3
  <2> QED
    BY <2>1, <2>2
<1>7. Cardinality(A) = c - a
  <2>1. a \in Int /\ c - 1 \in Int /\ c - 1 - a + 1 = c - a
    BY <1>3
  <2>2. a > c - 1 => c - a = 0
    BY <1>3
  <2> QED
    BY <1>6, <2>1, <2>2, FS_Interval
<1>8. a + Cardinality(A) - 1 = c - 1
  BY <1>3, <1>7
<1> QED
  BY <1>6, <1>8

-----------------------------------------------------------------------------
(***************************************************************************)
(* What a step leaves alone.                                               *)
(***************************************************************************)
SameView(v) ==
    /\ Queued(v)' = Queued(v)
    /\ Flying(v)' = Flying(v)
    /\ userStates'[v] = userStates[v]
    /\ Account(v)' = Account(v)
    /\ ethNonce'[v] = ethNonce[v]
    /\ balance'[v] = balance[v]

\* The proofs and the state of a user have their types.
LEMMA ViewTyped ==
  ASSUME TypeInv, NEW u \in Users
  PROVE  /\ Proofs(Queued(u)) /\ Proofs(Flying(u))
         /\ Account(u) \in UserState
         /\ ethNonce[u] \in Nat /\ balance[u] \in Nat
         /\ Known(u) => userStates[u] \in LiveArcs /\ Account(u) = arcs[userStates[u]]
<1>1. Proofs(EntriesOf(queue))
  BY EntriesFinite DEF TypeInv, QueueInv, Proofs
<1>2. Proofs(EntriesOf(posting.batch)) /\ Proofs(EntriesOf(posting.rest)) /\ Proofs({})
  BY EntriesFinite, FS_EmptySet DEF TypeInv, QueueInv, PostingShape, Proofs
<1>3. Proofs(InFlight)
  <2> HIDE DEF Proofs
  <2> QED
    BY <1>2 DEF InFlight
<1>4. \A S, T : Proofs(S) /\ T \subseteq S => Proofs(T)
  BY FS_Subset DEF Proofs
<1>5. Queued(u) \subseteq EntriesOf(queue) /\ Flying(u) \subseteq InFlight
  BY DEF Queued, EntriesFrom, Flying
<1>6. Known(u) => userStates[u] \in LiveArcs /\ Account(u) = arcs[userStates[u]]
  BY DEF Known, LiveArcs, Account
<1>7. Account(u) \in UserState
  <2>1. NewUserState(0) \in UserState
    BY BatcherAssumption DEF NewUserState, UserState
  <2>2. Known(u) => arcs[userStates[u]] \in UserState
    BY <1>6 DEF TypeInv, StateTyped, ArcsTyped
  <2> QED
    BY <2>1, <2>2 DEF Account
<1>8. ethNonce[u] \in Nat /\ balance[u] \in Nat
  BY DEF TypeInv, StateTyped, ChainTyped
<1> QED
  BY <1>1, <1>3, <1>4, <1>5, <1>6, <1>7, <1>8

\* A user that a step does not concern.
LEMMA AccountFrame ==
  ASSUME NEW v \in Users, AccountOK(v), SameView(v)
  PROVE  AccountOK(v)'
<1>1. Known(v)' = Known(v)
  BY DEF SameView, Known
<1> QED
  BY <1>1 DEF SameView, AccountOK

\* A settled user that a step does not concern stays settled.
LEMMA SettledFrame ==
  ASSUME NEW v \in Users, SettledOK(v), SameView(v), Settled(v)' => Settled(v)
  PROVE  SettledOK(v)'
<1>1. Known(v)' = Known(v)
  BY DEF SameView, Known
<1> QED
  BY <1>1 DEF SameView, SettledOK

\* A handler that a step does not concern.
LEMMA HandlerFrame ==
  ASSUME NEW h \in Handlers, HandlerOK(h), handlers'[h] = handlers[h],
         handlers[h].pc # "idle" => /\ userStates'[handlers[h].user] = userStates[handlers[h].user]
                                    /\ ethNonce'[handlers[h].user] = ethNonce[handlers[h].user]
  PROVE  HandlerOK(h)'
BY DEF HandlerOK, Known

\* And so does a message that passed the checks.
LEMMA ReadyFrame ==
  ASSUME NEW h \in Handlers, ReadyOK(h), handlers'[h] = handlers[h],
         handlers[h].pc # "idle" => SameView(handlers[h].user)
  PROVE  ReadyOK(h)'
<1> DEFINE x == handlers[h]
           u == handlers[h].user
<1>1. CASE ~(x.pc \in {"enqueue", "replace"})
  BY <1>1 DEF ReadyOK
<1>2. CASE x.pc \in {"enqueue", "replace"}
  <2>1. Affordable(x, Queued(u), Flying(u), Account(u), balance[u])
    BY <1>2 DEF ReadyOK
  <2>2. /\ EntriesFrom(queue', u) = Queued(u)
        /\ {e \in InFlight' : e.sender = u} = Flying(u)
        /\ (IF userStates'[u] # None THEN arcs'[userStates'[u]] ELSE NewUserState(0)) = Account(u)
        /\ balance'[u] = balance[u]
    BY <1>2 DEF SameView, Queued, Flying, Account, Known
  <2> HIDE DEF x
  <2>3. Affordable(x, EntriesFrom(queue', u), {e \in InFlight' : e.sender = u},
                   IF userStates'[u] # None THEN arcs'[userStates'[u]] ELSE NewUserState(0),
                   balance'[u])
    BY <2>1, <2>2
  <2> QED
    BY <1>2, <2>3 DEF ReadyOK, Queued, Flying, Account, Known, x
<1> QED
  BY <1>1, <1>2

\* A step that sends no inclusion data.
LEMMA NothingIncluded ==
  ASSUME NEW S, NEW kind, kind # "BatchInclusionData", sent' = {} \/ sent' = Tell(S, kind)
  PROVE  InclusionIsReal'
BY DEF InclusionIsReal, Tell, Message

\* A handler that rejects its proof sends none either.
LEMMA NothingRejectedIncluded ==
  ASSUME NEW h, Abandon(h) \/ ReplaceInvalid(h)
  PROVE  InclusionIsReal'
<1>1. CASE Abandon(h)
  BY <1>1, NothingIncluded DEF Abandon
<1>2. CASE ReplaceInvalid(h)
  <2>1. PICK S, T : sent' = Tell(S, "ProofReplaced") \cup Tell(T, "Rejected")
    BY <1>2 DEF ReplaceInvalid
  <2> QED
    BY <2>1 DEF InclusionIsReal, Tell, Message
<1> QED
  BY <1>1, <1>2

\* A step that touches neither the queue nor the user states.
LEMMA QuietView ==
  ASSUME UNCHANGED <<queue, userStates, posting, chainVars>>,
         UNCHANGED arcs \/ ArcsBecome(arcs), NEW v \in Users
  PROVE  SameView(v)
<1>1. Queued(v)' = Queued(v) /\ Flying(v)' = Flying(v)
  BY DEF Queued, EntriesFrom, EntriesOf, Positions, Flying, InFlight
<1>2. Account(v)' = Account(v)
  <2>1. CASE userStates[v] = None
    BY <2>1 DEF Account, Known, NewUserState
  <2>2. CASE userStates[v] # None
    <3>1. userStates'[v] \in LiveArcs'
      BY <2>2 DEF LiveArcs
    <3>2. arcs'[userStates'[v]] = arcs[userStates[v]]
      BY <3>1 DEF ArcsBecome
    <3> QED
      BY <2>2, <3>2 DEF Account, Known
  <2> QED
    BY <2>1, <2>2
<1> QED
  BY <1>1, <1>2 DEF SameView, chainVars

\* A step of a handler h that concerns the state of its user u alone: what is left to
\* show for u and h.
LEMMA StepOfOne ==
  ASSUME TypeInv, AccountsInv, NEW h \in Handlers, NEW u \in Users, NEW x,
         handlers' = [handlers EXCEPT ![h] = x],
         x.pc # "idle" => x.user = u,
         \A g \in Handlers \ {h} : handlers[g].pc # "idle" => handlers[g].user # u,
         \A v \in Users \ {u} : SameView(v),
         AccountOK(u)', SettledOK(u)', HandlerOK(h)', ReadyOK(h)',
         OneStateEach', BatchOK', InclusionIsReal',
         UNCHANGED <<posting, pollVars, chainVars>>
  PROVE  AccountsInv'
<1>1. \A v \in Users : AccountOK(v)' /\ SettledOK(v)'
  <2>1. \A v \in Users \ {u} : Settled(v)' => Settled(v)
    BY DEF Settled, SendersOf, EntriesOf, Positions
  <2>2. \A v \in Users \ {u} : AccountOK(v)' /\ SettledOK(v)'
    BY <2>1, AccountFrame, SettledFrame DEF AccountsInv
  <2> QED
    BY <2>2
<1>2. \A g \in Handlers \ {h} : handlers'[g] = handlers[g]
  BY DEF TypeInv, QueueInv, HandlersShape
<1>3. handlers'[h] = x
  BY DEF TypeInv, QueueInv, HandlersShape
<1>4. \A g \in Handlers \ {h} : HandlerOK(g)' /\ ReadyOK(g)'
  <2> TAKE g \in Handlers \ {h}
  <2>1. handlers[g].pc # "idle" => handlers[g].user \in Users \ {u}
    BY DEF TypeInv, QueueInv, HandlersShape, HandlerInv
  <2>2. handlers[g].pc # "idle" => SameView(handlers[g].user)
    BY <2>1
  <2>3. HandlerOK(g)'
    BY <1>2, <2>2, HandlerFrame DEF AccountsInv, SameView
  <2>4. ReadyOK(g)'
    BY <1>2, <2>2, ReadyFrame DEF AccountsInv
  <2> QED
    BY <2>3, <2>4
<1>5. OneMessageEach'
  BY <1>2, <1>3 DEF OneMessageEach, AccountsInv
<1>6. NobodyUnlocks' /\ ChargedBefore'
  BY DEF NobodyUnlocks, ChargedBefore, AccountsInv, pollVars, chainVars
<1>7. BatchInNonceOrder'
  BY DEF BatchInNonceOrder, AccountsInv, chainVars
<1> QED
  BY <1>1, <1>4, <1>5, <1>6, <1>7 DEF AccountsInv

\* A handler that ends has nothing left to be right about.
LEMMA EndedOK ==
  ASSUME NEW h \in Handlers, handlers'[h] = IdleHandler
  PROVE  HandlerOK(h)' /\ ReadyOK(h)'
BY DEF HandlerOK, ReadyOK, IdleHandler

\* A step of a handler that touches neither the queue nor the user states.
LEMMA QuietStep ==
  ASSUME TypeInv, AccountsInv, NEW h \in Handlers, NEW u \in Users, NEW x,
         handlers' = [handlers EXCEPT ![h] = x],
         x.pc # "idle" => x.user = u,
         \A g \in Handlers \ {h} : handlers[g].pc # "idle" => handlers[g].user # u,
         UNCHANGED <<queue, userStates, posting, pollVars, chainVars>>,
         UNCHANGED arcs \/ ArcsBecome(arcs),
         HandlerOK(h)', ReadyOK(h)', InclusionIsReal'
  PROVE  AccountsInv'
<1>1. \A v \in Users : SameView(v)
  BY QuietView
<1>2. AccountOK(u)' /\ SettledOK(u)'
  <2>1. Settled(u)' => Settled(u)
    BY DEF Settled, SendersOf, EntriesOf, Positions
  <2> QED
    BY <1>1, <2>1, AccountFrame, SettledFrame DEF AccountsInv
<1>3. OneStateEach'
  BY DEF AccountsInv, OneStateEach, Known
<1>4. BatchOK'
  BY DEF AccountsInv, BatchOK, InFlight, chainVars
<1> QED
  BY <1>1, <1>2, <1>3, <1>4, StepOfOne

\* No other handler is at work for the user of a handler.
LEMMA AloneAtWork ==
  ASSUME TypeInv, AccountsInv, NEW h \in Handlers, handlers[h].pc # "idle"
  PROVE  /\ handlers[h].user \in Users
         /\ \A g \in Handlers \ {h} : handlers[g].pc # "idle" => handlers[g].user # handlers[h].user
BY DEF TypeInv, QueueInv, HandlersShape, HandlerInv, AccountsInv, OneMessageEach

\* What a handler past the map lookup works on is the account of its user.
LEMMA AtWorkOnAccount ==
  ASSUME TypeInv, AccountsInv, NEW h \in Handlers, handlers[h].pc \in {"lock", "enqueue", "replace"}
  PROVE  /\ Known(handlers[h].user) /\ handlers[h].arc = userStates[handlers[h].user]
         /\ handlers[h].arc \in LiveArcs
         /\ Account(handlers[h].user) = arcs[handlers[h].arc]
<1>1. handlers[h].user \in Users
  BY AloneAtWork
<1>2. Known(handlers[h].user) /\ handlers[h].arc = userStates[handlers[h].user]
  BY DEF AccountsInv, HandlerOK
<1> QED
  BY <1>1, <1>2, ViewTyped

\* A message that is validated is affordable.
LEMMA ValidatedAffordable ==
  ASSUME NEW q, Proofs(q), NEW f, Proofs(f), NEW s \in UserState, NEW eth, NEW bal \in Nat,
         Accounted(q, f, TRUE, s, eth, bal), NEW x, x.fee \in Nat,
         bal >= s.total_fees_in_queue + x.fee,
         x.pc = "enqueue" => x.nonce = s.nonce /\ x.fee <= s.last_max_fee_limit
  PROVE  Affordable(x, q, f, s, bal)
<1>1. TotalFees(q \cup f) \in Nat /\ s.total_fees_in_queue \in Nat /\ s.last_max_fee_limit \in Nat
  BY ProofsUnion DEF UserState
<1>2. TotalFees(q \cup f) <= s.total_fees_in_queue
  BY DEF Accounted
<1>3. TotalFees(q \cup f) + x.fee <= bal
  BY <1>1, <1>2
<1>4. \A e \in Kept(q, f) : e.max_fee \in Nat /\ s.last_max_fee_limit <= e.max_fee
  BY ProofsTyped DEF Accounted, AtMost, Kept
<1>5. x.pc = "enqueue" => AtMost(x.fee, Kept(q, f))
  BY <1>1, <1>4 DEF AtMost
<1> QED
  BY <1>3, <1>5 DEF Affordable

-----------------------------------------------------------------------------
(***************************************************************************)
(* The steps.                                                              *)
(***************************************************************************)
\* Handlers before the batch lock, and those that end without a change.
LEMMA EarlyAccounts ==
  ASSUME TypeInv, AccountsInv, ~Disturbance, NEW h \in Handlers,
         \/ \E u \in Users : CheckUser(h, u)
         \/ FetchNonce(h) \/ GetUser(h) \/ Validate(h) \/ Abandon(h) \/ ReplaceInvalid(h)
  PROVE  AccountsInv'
<1> DEFINE w == handlers[h].user
<1>0. /\ handlers[h].pc # "idle" =>
           /\ w \in Users
           /\ \A g \in Handlers \ {h} : handlers[g].pc # "idle" => handlers[g].user # w
      /\ DOMAIN handlers = Handlers /\ HandlerOK(h)
      /\ DOMAIN handlers[h] = {"pc", "user", "arc", "nonce", "fee", "size"}
  BY AloneAtWork DEF TypeInv, QueueInv, HandlersShape, HandlerInv, AccountsInv
<1>1. ASSUME NEW u \in Users, CheckUser(h, u) PROVE AccountsInv'
  <2> DEFINE x == [IdleHandler EXCEPT !.user = u,
                                      !.pc = IF userStates[u] = None THEN "fetch" ELSE "get"]
  <2>1. handlers' = [handlers EXCEPT ![h] = x]
    BY <1>1 DEF CheckUser
  <2>6. x.user = u /\ x.pc = IF userStates[u] = None THEN "fetch" ELSE "get"
    BY DEF IdleHandler
  <2> HIDE DEF x
  <2>2. handlers'[h] = x
    BY <1>0, <2>1
  <2>3. \A g \in Handlers \ {h} : handlers[g].pc # "idle" => handlers[g].user # u
    BY <1>1 DEF Disturbance, SecondMessage
  <2>4. HandlerOK(h)' /\ ReadyOK(h)'
    <3>1. userStates' = userStates
      BY <1>1 DEF CheckUser
    <3> QED
      BY <2>2, <2>6, <3>1 DEF HandlerOK, ReadyOK, Known
  <2>5. InclusionIsReal'
    BY <1>1, NothingIncluded DEF CheckUser
  <2>7. UNCHANGED <<queue, userStates, posting, pollVars, chainVars>> /\ UNCHANGED arcs
    BY <1>1 DEF CheckUser
  <2> QED
    BY <2>1, <2>3, <2>4, <2>5, <2>6, <2>7, QuietStep
<1>2. ASSUME FetchNonce(h) PROVE AccountsInv'
  <2> DEFINE x == [handlers[h] EXCEPT !.pc = "insert", !.nonce = ethNonce[w]]
  <2>1. handlers' = [handlers EXCEPT ![h] = x]
    BY <1>0, <1>2 DEF FetchNonce
  <2>3. x.pc = "insert" /\ x.user = w /\ x.nonce = ethNonce[w]
    BY <1>0
  <2> HIDE DEF x
  <2>2. handlers'[h] = x
    BY <1>0, <2>1
  <2>4. HandlerOK(h)' /\ ReadyOK(h)'
    BY <1>0, <1>2, <2>2, <2>3 DEF HandlerOK, ReadyOK, FetchNonce, Known, chainVars
  <2>5. InclusionIsReal'
    BY <1>2, NothingIncluded DEF FetchNonce
  <2>6. handlers[h].pc # "idle" /\ x.user = w
    BY <1>2, <2>3 DEF FetchNonce
  <2>7. UNCHANGED <<queue, userStates, posting, pollVars, chainVars>> /\ UNCHANGED arcs
    BY <1>2 DEF FetchNonce
  <2> QED
    BY <1>0, <2>1, <2>4, <2>5, <2>6, <2>7, QuietStep
<1>3. ASSUME GetUser(h) PROVE AccountsInv'
  <2> DEFINE x == [handlers[h] EXCEPT !.pc = "lock", !.arc = userStates[w]]
  <2>1. handlers' = [handlers EXCEPT ![h] = x]
    BY <1>0, <1>3 DEF GetUser
  <2>3. x.pc = "lock" /\ x.user = w /\ x.arc = userStates[w]
    BY <1>0
  <2> HIDE DEF x
  <2>2. handlers'[h] = x
    BY <1>0, <2>1
  <2>4. HandlerOK(h)' /\ ReadyOK(h)'
    BY <1>0, <1>3, <2>2, <2>3 DEF HandlerOK, ReadyOK, GetUser, Known, chainVars
  <2>5. InclusionIsReal'
    BY <1>3, NothingIncluded DEF GetUser
  <2>6. handlers[h].pc # "idle" /\ x.user = w
    BY <1>3, <2>3 DEF GetUser
  <2>7. UNCHANGED <<queue, userStates, posting, pollVars, chainVars>> /\ UNCHANGED arcs
    BY <1>3 DEF GetUser
  <2> QED
    BY <1>0, <2>1, <2>4, <2>5, <2>6, <2>7, QuietStep
<1>4. ASSUME Validate(h) PROVE AccountsInv'
  <2> DEFINE s == arcs[handlers[h].arc]
  <2>1. PICK n \in Nonces, fee \in Fees, size \in Sizes :
          /\ HasEnoughBalance(w, s, fee)
          /\ n <= s.nonce
          /\ n = s.nonce => fee <= s.last_max_fee_limit
          /\ handlers' = [handlers EXCEPT
               ![h].pc = IF n < s.nonce THEN "replace" ELSE "enqueue",
               ![h].nonce = n, ![h].fee = fee, ![h].size = size]
    BY <1>4 DEF Validate
  <2> DEFINE p == IF n < s.nonce THEN "replace" ELSE "enqueue"
             x == [handlers[h] EXCEPT !.pc = p, !.nonce = n, !.fee = fee, !.size = size]
  <2>a. handlers' = [handlers EXCEPT ![h].pc = p, ![h].nonce = n, ![h].fee = fee, ![h].size = size]
    BY <2>1
  <2>b. p = (IF n < s.nonce THEN "replace" ELSE "enqueue") /\ p \in {"enqueue", "replace"}
    OBVIOUS
  <2> HIDE DEF p
  <2>2. handlers' = [handlers EXCEPT ![h] = x]
    BY <1>0, <2>a
  <2>10. x.pc = p /\ x.user = w /\ x.arc = handlers[h].arc /\ x.nonce = n /\ x.fee = fee
    BY <1>0
  <2> HIDE DEF x
  <2>3. handlers'[h] = x
    BY <1>0, <2>2
  <2>4. /\ handlers[h].pc = "lock" /\ sent' = {}
        /\ UNCHANGED <<queue, userStates, posting, pollVars, chainVars>> /\ UNCHANGED arcs
    BY <1>4 DEF Validate
  <2>5. w \in Users /\ Known(w) /\ handlers[h].arc = userStates[w] /\ Account(w) = s
    BY <1>0, <2>4, AtWorkOnAccount
  <2>6. /\ Proofs(Queued(w)) /\ Proofs(Flying(w)) /\ s \in UserState
        /\ balance[w] \in Nat /\ fee \in Nat /\ n \in Nat /\ s.nonce \in Nat
    BY <2>5, ViewTyped, BatcherAssumption DEF Nonces, UserState
  <2>7. Accounted(Queued(w), Flying(w), TRUE, s, ethNonce[w], balance[w])
    BY <2>5 DEF AccountsInv, AccountOK
  <2>8. x.pc = "enqueue" => x.nonce = s.nonce /\ x.fee <= s.last_max_fee_limit
    BY <2>1, <2>6, <2>b, <2>10
  <2>9. balance[w] >= s.total_fees_in_queue + x.fee /\ x.fee \in Nat
    BY <2>1, <2>6, <2>10 DEF HasEnoughBalance
  <2> HIDE DEF s
  <2>11. Affordable(x, Queued(w), Flying(w), s, balance[w])
    BY <2>6, <2>7, <2>8, <2>9, ValidatedAffordable
  <2>12. SameView(w)
    BY <2>4, <2>5, QuietView
  <2>13. HandlerOK(h)'
    BY <2>3, <2>4, <2>5, <2>10, <2>b DEF HandlerOK, Known
  <2>14. ReadyOK(h)'
    <3>1. /\ EntriesFrom(queue', w) = Queued(w)
          /\ {e \in InFlight' : e.sender = w} = Flying(w)
          /\ (IF userStates'[w] # None THEN arcs'[userStates'[w]] ELSE NewUserState(0)) = s
          /\ balance'[w] = balance[w]
      BY <2>4, <2>5 DEF Queued, Flying, Account, Known, InFlight, chainVars
    <3>2. Affordable(x, EntriesFrom(queue', w), {e \in InFlight' : e.sender = w},
                     IF userStates'[w] # None THEN arcs'[userStates'[w]] ELSE NewUserState(0),
                     balance'[w])
      BY <2>11, <3>1
    <3> QED
      BY <2>3, <2>10, <2>b, <3>2 DEF ReadyOK, Queued, Flying, Account, Known
  <2>15. InclusionIsReal'
    BY <2>4, NothingIncluded
  <2>16. \A g \in Handlers \ {h} : handlers[g].pc # "idle" => handlers[g].user # w
    BY <1>0, <2>4
  <2> QED
    BY <2>2, <2>4, <2>5, <2>10, <2>b, <2>13, <2>14, <2>15, <2>16, QuietStep
<1>5. ASSUME Abandon(h) \/ ReplaceInvalid(h) PROVE AccountsInv'
  <2>1. /\ handlers' = [handlers EXCEPT ![h] = IdleHandler] /\ handlers[h].pc # "idle"
        /\ UNCHANGED <<queue, userStates, posting, pollVars, chainVars>> /\ ArcsBecome(arcs)
    BY <1>5 DEF Abandon, ReplaceInvalid, ReplacementMayProceed
  <2>2. HandlerOK(h)' /\ ReadyOK(h)'
    BY <1>0, <2>1, EndedOK
  <2>3. InclusionIsReal'
    BY <1>5, NothingRejectedIncluded
  <2>4. IdleHandler.pc = "idle"
    BY DEF IdleHandler
  <2> QED
    BY <1>0, <2>1, <2>2, <2>3, <2>4, QuietStep
<1> QED
  BY <1>1, <1>2, <1>3, <1>4, <1>5

\* The account of a user in the next state, from its parts.
LEMMA AccountBecomes ==
  ASSUME NEW u \in Users, NEW q, NEW f, NEW known, NEW s, NEW eth, NEW bal,
         Queued(u)' = q, Flying(u)' = f, Known(u)' = known, Account(u)' = s,
         ethNonce'[u] = eth, balance'[u] = bal
  PROVE  /\ Accounted(q, f, known, s, eth, bal) => AccountOK(u)'
         /\ Matches(s, q) => SettledOK(u)'
BY DEF AccountOK, SettledOK

\* The first message of a user: its state starts at the nonce on chain.
LEMMA InsertAccounts ==
  ASSUME TypeInv, AccountsInv, NEW h \in Handlers, InsertUser(h)
  PROVE  AccountsInv'
<1>a. handlers[h].pc = "insert"
  BY DEF InsertUser
<1>b. PICK u \in Users : u = handlers[h].user
  BY <1>a, AloneAtWork
<1> DEFINE a == FreshArc
           x == [handlers[h] EXCEPT !.pc = "get", !.nonce = 0]
<1>c. PICK s : s = NewUserState(ethNonce[u])
  OBVIOUS
<1>1. /\ handlers[h].pc = "insert" /\ sent' = {}
      /\ userStates' = [userStates EXCEPT ![u] = a]
      /\ UNCHANGED <<queue, posting, pollVars, chainVars>>
  BY <1>b DEF InsertUser
<1>2. /\ u \in Users
      /\ \A g \in Handlers \ {h} : handlers[g].pc # "idle" => handlers[g].user # u
  BY <1>b, <1>1, AloneAtWork
<1>3. ~Known(u) /\ handlers[h].nonce = ethNonce[u]
  BY <1>b, <1>1 DEF AccountsInv, HandlerOK
<1>4. DOMAIN handlers = Handlers /\ DOMAIN handlers[h] = {"pc", "user", "arc", "nonce", "fee", "size"}
  BY DEF TypeInv, QueueInv, HandlersShape, HandlerInv
<1>5. a \in Arcs /\ a \notin LiveArcs /\ a # None /\ DOMAIN userStates = Users
  BY FreshArcIsFresh, BatcherAssumption DEF TypeInv, StateTyped, StatesTyped
<1> HIDE DEF a
<1>6. handlers' = [handlers EXCEPT ![h] = x]
  BY <1>4 DEF InsertUser
<1>7. x.pc = "get" /\ x.user = u
  BY <1>b, <1>4
<1> HIDE DEF x
<1>8. handlers'[h] = x
  BY <1>4, <1>6
<1>9. userStates'[u] = a /\ \A v \in Users \ {u} : userStates'[v] = userStates[v]
  BY <1>1, <1>2, <1>5
<1>10. \A v \in Users : Known(v)' => userStates'[v] \in LiveArcs'
  BY DEF LiveArcs, Known
<1>11. \A b \in LiveArcs' : (b = a => arcs'[b] = s) /\ (b \in LiveArcs /\ b # a => arcs'[b] = arcs[b])
  <2>1. ArcsBecome([b \in LiveArcs \cup {a} |-> IF b = a THEN NewUserState(handlers[h].nonce) ELSE arcs[b]])
    BY DEF InsertUser, a
  <2> QED
    BY <1>c, <1>3, <2>1 DEF ArcsBecome
<1>12. \A v \in Users : Queued(v)' = Queued(v) /\ Flying(v)' = Flying(v)
  BY <1>1 DEF Queued, Flying, InFlight
<1>13. \A v \in Users \ {u} : SameView(v)
  <2> TAKE v \in Users \ {u}
  <2>1. Known(v) => userStates[v] \in LiveArcs
    BY ViewTyped
  <2>2. Known(v) => userStates'[v] \in LiveArcs'
    BY <1>9, <1>10 DEF Known
  <2>3. Known(v) => arcs'[userStates'[v]] = arcs[userStates[v]]
    BY <1>5, <1>9, <1>11, <2>1, <2>2
  <2>4. Account(v)' = Account(v)
    BY <1>9, <2>3 DEF Account, Known, NewUserState
  <2> QED
    BY <1>1, <1>9, <1>12, <2>4 DEF SameView, chainVars
<1>14. OneStateEach'
  <2>1. \A v \in Users : userStates[v] # a
    BY <1>5, ViewTyped DEF Known
  <2> QED
    BY <1>5, <1>9, <2>1 DEF OneStateEach, AccountsInv, Known
<1>15. Known(u)' = TRUE /\ Account(u)' = s
  BY <1>2, <1>5, <1>9, <1>10, <1>11 DEF Known, Account
<1>16. AccountOK(u)' /\ SettledOK(u)'
  <2>1. Accounted(Queued(u), Flying(u), FALSE, Account(u), ethNonce[u], balance[u])
    <3>1. Known(u) = FALSE
      BY <1>3 DEF Known
    <3> QED
      BY <1>2, <3>1 DEF AccountsInv, AccountOK
  <2>2. Queued(u) = {} /\ Flying(u) = {}
    BY <2>1 DEF Accounted
  <2>3. ethNonce[u] \in Nat /\ balance[u] \in Nat
    BY <1>2, ViewTyped
  <2>4. Accounted({}, {}, TRUE, s, ethNonce[u], balance[u]) /\ Matches(s, {})
    BY <1>c, <2>1, <2>2, <2>3, AccountedNew
  <2> QED
    BY <1>1, <1>2, <1>12, <1>15, <2>2, <2>4, AccountBecomes DEF chainVars
<1>17. HandlerOK(h)' /\ ReadyOK(h)'
  BY <1>5, <1>7, <1>8, <1>9 DEF HandlerOK, ReadyOK, Known
<1>18. BatchOK'
  BY <1>1 DEF AccountsInv, BatchOK, InFlight, chainVars
<1>19. InclusionIsReal'
  BY <1>1, NothingIncluded
<1> QED
  BY <1>1, <1>2, <1>6, <1>7, <1>13, <1>14, <1>16, <1>17, <1>18, <1>19, StepOfOne

\* A handler adds a proof e to the queue, in the place of R, and accounts for it.
LEMMA AddAccounts ==
  ASSUME TypeInv, AccountsInv, NEW h \in Handlers, handlers[h].pc \in {"enqueue", "replace"},
         NEW u \in Users, u = handlers[h].user,
         NEW s2, NEW e \in Entry, e.sender = u, e.prio = e.max_fee, NEW R \in SUBSET Queued(u),
         EntriesOf(queue') = (EntriesOf(queue) \ R) \cup {e},
         handlers' = [handlers EXCEPT ![h] = IdleHandler],
         UNCHANGED <<userStates, posting, pollVars, chainVars>>,
         ArcsBecome([arcs EXCEPT ![handlers[h].arc] = s2]), InclusionIsReal',
         \A g \in Flying(u) : g.nonce # e.nonce,
         Accounted((Queued(u) \ R) \cup {e}, Flying(u), TRUE, s2, ethNonce[u], balance[u]),
         Settled(u) => Matches(s2, (Queued(u) \ R) \cup {e})
  PROVE  AccountsInv'
<1> DEFINE a == handlers[h].arc
<1>1. /\ Known(u) /\ a = userStates[u] /\ a \in LiveArcs
      /\ \A g \in Handlers \ {h} : handlers[g].pc # "idle" => handlers[g].user # u
  BY AtWorkOnAccount, AloneAtWork
<1>2. DOMAIN handlers = Handlers /\ DOMAIN arcs = LiveArcs
  BY DEF TypeInv, QueueInv, HandlersShape, StateTyped, ArcsTyped
<1>3. \A v \in Users : Known(v) => userStates'[v] \in LiveArcs' /\ userStates[v] \in LiveArcs
  BY DEF LiveArcs, Known
<1>4. \A b \in LiveArcs' : b \in LiveArcs => arcs'[b] = IF b = a THEN s2 ELSE arcs[b]
  BY <1>2 DEF ArcsBecome
<1> HIDE DEF a
<1>5. \A v \in Users : Flying(v)' = Flying(v)
  BY DEF Flying, InFlight
<1>6. Queued(u)' = (Queued(u) \ R) \cup {e}
  BY DEF Queued, EntriesFrom
<1>7. \A v \in Users \ {u} : SameView(v)
  <2> TAKE v \in Users \ {u}
  <2>1. Queued(v)' = Queued(v)
    BY DEF Queued, EntriesFrom
  <2>2. Known(v) => userStates[v] # a
    BY <1>1 DEF AccountsInv, OneStateEach, Known
  <2>3. Known(v) => arcs'[userStates'[v]] = arcs[userStates[v]]
    BY <1>3, <1>4, <2>2
  <2>4. Account(v)' = Account(v)
    BY <2>3 DEF Account, Known, NewUserState
  <2> QED
    BY <1>5, <2>1, <2>4 DEF SameView, chainVars
<1>8. Known(u)' = TRUE /\ Account(u)' = s2
  BY <1>1, <1>3, <1>4 DEF Known, Account
<1>9. AccountOK(u)' /\ SettledOK(u)'
  <2>1. Settled(u)' = Settled(u)
    BY DEF Settled
  <2>2. ethNonce'[u] = ethNonce[u] /\ balance'[u] = balance[u]
    BY DEF chainVars
  <2>3. AccountOK(u)'
    BY <1>5, <1>6, <1>8, <2>2, AccountBecomes
  <2>4. SettledOK(u)'
    BY <1>6, <1>8, <2>1 DEF SettledOK
  <2> QED
    BY <2>3, <2>4
<1>10. HandlerOK(h)' /\ ReadyOK(h)'
  BY <1>2, EndedOK
<1>11. OneStateEach'
  BY DEF AccountsInv, OneStateEach, Known
<1>12. BatchOK'
  <2>1. Priced(EntriesOf(queue'))
    BY DEF AccountsInv, BatchOK, Priced
  <2>2. \A d \in EntriesOf(queue'), g \in InFlight : ~SameEntry(d, g)
    BY DEF AccountsInv, BatchOK, SameEntry, Flying
  <2>3. InFlight' = InFlight /\ UNCHANGED <<posting, included>>
    BY DEF InFlight, chainVars
  <2> QED
    BY <2>1, <2>2, <2>3 DEF AccountsInv, BatchOK
<1>13. IdleHandler.pc = "idle"
  BY DEF IdleHandler
<1> QED
  BY <1>1, <1>7, <1>9, <1>10, <1>11, <1>12, <1>13, StepOfOne

\* There is room: the next proof of a user is pushed.
LEMMA EnqueueAccounts ==
  ASSUME TypeInv, AccountsInv, NEW h \in Handlers, Enqueue(h)
  PROVE  AccountsInv'
<1>1. /\ handlers[h].pc = "enqueue" /\ ~QueueFull /\ queue' = Push(queue, ProofOf(h)) /\ sent' = {}
      /\ handlers' = [handlers EXCEPT ![h] = IdleHandler]
      /\ UNCHANGED <<userStates, posting, pollVars, chainVars>>
      /\ ArcsBecome([arcs EXCEPT ![handlers[h].arc] = AfterPush(@, ProofOf(h))])
  BY DEF Enqueue
<1>2. PICK e \in Entry : e = ProofOf(h)
  BY <1>1, ProofOfType DEF TypeInv, QueueInv
<1>3. PICK u \in Users : u = handlers[h].user
  BY <1>1, AloneAtWork
<1>4. e.sender = u /\ e.nonce = handlers[h].nonce /\ e.max_fee = handlers[h].fee /\ e.prio = e.max_fee
  BY <1>2, <1>3 DEF ProofOf, NewEntry
<1> DEFINE q == Queued(u)
           f == Flying(u)
           s == Account(u)
           s2 == AfterPush(s, e)
<1>5. /\ Proofs(q) /\ Proofs(f) /\ s \in UserState /\ ethNonce[u] \in Nat /\ balance[u] \in Nat
      /\ s = arcs[handlers[h].arc] /\ Known(u) /\ handlers[h].arc \in LiveArcs
  BY <1>1, <1>3, ViewTyped, AtWorkOnAccount
<1>6. Accounted(q, f, TRUE, s, ethNonce[u], balance[u])
  <2>1. Known(u) = TRUE
    BY <1>5 DEF Known
  <2> QED
    BY <2>1 DEF AccountsInv, AccountOK
<1>7. /\ TotalFees(q \cup f) + e.max_fee <= balance[u] /\ e.nonce = s.nonce
      /\ AtMost(e.max_fee, Kept(q, f)) /\ AtMost(e.max_fee, q)
  <2>1. Affordable(handlers[h], q, f, s, balance[u])
    BY <1>1, <1>3 DEF AccountsInv, ReadyOK
  <2> QED
    BY <1>1, <1>4, <2>1 DEF Affordable, AtMost, Kept
<1>8. Accounted(q \cup {e}, f, TRUE, s2, ethNonce[u], balance[u])
  BY <1>5, <1>6, <1>7, AccountedPush
<1>9. \A g \in q \cup f : g.nonce # e.nonce
  <2>1. \A g \in q \cup f : g.nonce \in ethNonce[u]..(s.nonce - 1)
    BY <1>6 DEF Accounted, NoncesOf
  <2> QED
    BY <1>5, <1>7, <2>1 DEF UserState
<1>10. EntriesOf(queue') = EntriesOf(queue) \cup {e}
  <2>1. \A g \in EntriesOf(queue) : ~SameEntry(g, e)
    BY <1>4, <1>9 DEF Queued, EntriesFrom, SameEntry
  <2> QED
    BY <1>1, <1>2, <2>1, PushEntries DEF TypeInv, QueueInv
<1>11. Settled(u) => Matches(s2, q \cup {e})
  <2>1. Settled(u) => Matches(s, q)
    BY <1>5 DEF AccountsInv, SettledOK
  <2>2. IsFiniteSet(EntriesOf(queue)) /\ Cardinality(EntriesOf(queue)) <= Len(queue) /\ Len(queue) \in Nat
    BY EntriesFinite, LenProperties DEF TypeInv, QueueInv
  <2>3. q \subseteq EntriesOf(queue)
    BY DEF Queued, EntriesFrom
  <2>4. Cardinality(q) <= Cardinality(EntriesOf(queue)) /\ Cardinality(q) \in Nat
        /\ Cardinality(EntriesOf(queue)) \in Nat
    BY <2>2, <2>3, FS_Subset, FS_CardinalityType
  <2>5. Cardinality(q) + 1 < UsizeModulus
    BY <1>1, <2>2, <2>4, BatcherAssumption, SizesAssumption DEF QueueFull
  <2> QED
    BY <1>5, <1>7, <1>9, <2>1, <2>5, MatchesPush
<1>12. ArcsBecome([arcs EXCEPT ![handlers[h].arc] = s2])
  <2>1. DOMAIN arcs = LiveArcs
    BY DEF TypeInv, StateTyped, ArcsTyped
  <2> QED
    BY <1>1, <1>2, <1>5, <2>1 DEF ArcsBecome
<1>13. InclusionIsReal'
  BY <1>1, NothingIncluded
<1>14. /\ {} \in SUBSET q /\ q \ {} = q /\ EntriesOf(queue) \ {} = EntriesOf(queue)
  OBVIOUS
<1> HIDE DEF s2, q, f, s
<1>15. /\ EntriesOf(queue') = (EntriesOf(queue) \ {}) \cup {e}
       /\ Accounted((Queued(u) \ {}) \cup {e}, Flying(u), TRUE, s2, ethNonce[u], balance[u])
       /\ Settled(u) => Matches(s2, (Queued(u) \ {}) \cup {e})
       /\ {} \in SUBSET Queued(u) /\ \A g \in Flying(u) : g.nonce # e.nonce
  BY <1>8, <1>9, <1>10, <1>11, <1>14 DEF q, f
<1> QED
  BY <1>1, <1>3, <1>4, <1>12, <1>13, <1>15, AddAccounts

\* A proof of a user is replaced by one that offers more.
LEMMA ReplaceAccounts ==
  ASSUME TypeInv, AccountsInv, ~Disturbance, NEW h \in Handlers, Replace(h)
  PROVE  AccountsInv'
<1> DEFINE i == EntryAt(queue, handlers[h].user, handlers[h].nonce)
<1>1. /\ handlers[h].pc = "replace" /\ ReplacementMayProceed(h)
      /\ ReplacementEntryIsValid(queue, ProofOf(h))
      /\ queue' = Push(SwapRemove(queue, i), ProofOf(h)) /\ sent' = Tell({queue[i]}, "ProofReplaced")
      /\ handlers' = [handlers EXCEPT ![h] = IdleHandler]
      /\ UNCHANGED <<userStates, posting, pollVars, chainVars>>
      /\ ArcsBecome([arcs EXCEPT ![handlers[h].arc] = AfterReplacement(@, ProofOf(h), queue[i])])
  BY DEF Replace, ReplacementMayProceed
<1>2. PICK e \in Entry : e = ProofOf(h)
  BY <1>1, ProofOfType DEF TypeInv, QueueInv
<1>3. PICK u \in Users : u = handlers[h].user
  BY <1>1, AloneAtWork
<1>4. /\ e.sender = u /\ e.nonce = handlers[h].nonce /\ e.max_fee = handlers[h].fee
      /\ e.prio = e.max_fee /\ e.max_fee \in Nat /\ e.nonce \in Nat
  BY <1>2, <1>3 DEF ProofOf, NewEntry, EntryOf
<1>5. i \in Positions(queue) /\ queue[i].sender = u /\ queue[i].nonce = e.nonce
  <2>1. \E j \in Positions(queue) : queue[j].sender = u /\ queue[j].nonce = e.nonce
    BY <1>1, <1>3, <1>4 DEF ReplacementMayProceed, HasEntry, EntriesOf
  <2> QED
    BY <1>3, <1>4, <2>1 DEF EntryAt
<1>6. /\ e.max_fee >= MinBump(queue[i].max_fee)
      /\ "error" \notin SubmissionFaults \/ Flying(u) = {}
  BY <1>1, <1>3, <1>4 DEF ReplacementMayProceed, Disturbance, OvertakesFailing
<1> HIDE DEF i
<1>7. /\ queue \in Seq(Entry) /\ Distinct(queue)
  BY DEF TypeInv, QueueInv, QueueOK, Distinct
<1>8. PICK old \in Queued(u) : old = queue[i]
  BY <1>5 DEF Queued, EntriesFrom, EntriesOf
<1> DEFINE q == Queued(u)
           f == Flying(u)
           s == Account(u)
           r == SwapRemove(queue, i)
<1>9. /\ Proofs(q) /\ Proofs(f) /\ s \in UserState /\ ethNonce[u] \in Nat /\ balance[u] \in Nat
      /\ s = arcs[handlers[h].arc] /\ Known(u) /\ handlers[h].arc \in LiveArcs
  BY <1>1, <1>3, ViewTyped, AtWorkOnAccount
<1>10. old.nonce = e.nonce /\ old.sender = u /\ old.max_fee \in Nat /\ old.max_fee <= e.max_fee
  <2>1. old.max_fee \in Nat /\ old.nonce = e.nonce /\ old.sender = u
    BY <1>5, <1>8, <1>9, ProofsTyped
  <2>2. MinBump(old.max_fee) \in Nat /\ old.max_fee <= MinBump(old.max_fee)
    <3>1. old.max_fee * MinBumpPercentage \in Nat
      BY <2>1, BatcherAssumption
    <3>2. (old.max_fee * MinBumpPercentage) \div 100 \in Nat
      BY <3>1
    <3> QED
      BY <2>1, <3>2 DEF MinBump
  <2> QED
    BY <1>4, <1>6, <1>8, <2>1, <2>2
<1>11. EntriesOf(queue') = (EntriesOf(queue) \ {old}) \cup {e}
  <2>1. EntriesOf(r) = EntriesOf(queue) \ {old} /\ r \in Seq(Entry)
    BY <1>5, <1>7, <1>8, SwapRemoveEntries, SwapRemoveProperties
  <2>2. \A g \in EntriesOf(r) : ~SameEntry(g, e)
    <3>1. \A g \in EntriesOf(queue) : SameEntry(g, old) => g = old
      BY <1>7, <1>8, EntriesDistinct DEF Queued, EntriesFrom
    <3> QED
      BY <1>4, <1>10, <2>1, <3>1 DEF SameEntry
  <2> QED
    BY <1>1, <1>2, <2>1, <2>2, PushEntries
<1>12. \A g \in q : g.nonce = old.nonce => g = old
  <2>1. \A g, d \in EntriesOf(queue) : SameEntry(g, d) => g = d
    BY <1>7, EntriesDistinct
  <2> QED
    BY <2>1 DEF Queued, EntriesFrom, SameEntry
<1>13. \A g \in f : g.nonce # old.nonce
  BY DEF AccountsInv, BatchOK, SameEntry, Queued, EntriesFrom, Flying
<1>14. \A g \in q : g.nonce < e.nonce => e.max_fee <= g.max_fee
  BY <1>1, <1>2, <1>4, <1>9, ProofsTyped DEF ReplacementEntryIsValid, Queued
<1>15. TotalFees(q \cup f) + e.max_fee <= balance[u]
  BY <1>1, <1>3, <1>4 DEF AccountsInv, ReadyOK, Affordable
<1>16. Accounted(q, f, TRUE, s, ethNonce[u], balance[u]) /\ (Settled(u) => Matches(s, q))
  <2>1. Known(u) = TRUE
    BY <1>9 DEF Known
  <2> QED
    BY <2>1 DEF AccountsInv, AccountOK, SettledOK
<1>17. PICK s2 : s2 = AfterReplacement(s, e, old)
  OBVIOUS
<1> DEFINE q2 == (q \ {old}) \cup {e}
<1>18. Proofs(q2)
  BY <1>9, FS_RemoveElement, FS_AddElement DEF Proofs
<1>19. EntriesFrom(queue', u) = q2
  BY <1>4, <1>10, <1>11 DEF Queued, EntriesFrom
<1>20. /\ s2.nonce = s.nonce /\ s2.proofs_in_batch = s.proofs_in_batch
       /\ s2.total_fees_in_queue = s.total_fees_in_queue + (e.max_fee - old.max_fee)
       /\ s2.last_max_fee_limit = Min({g.max_fee : g \in q2})
       /\ DOMAIN s2 = DOMAIN s
  BY <1>4, <1>9, <1>17, <1>19 DEF AfterReplacement, MinFeeOf, UserState
<1>21. /\ \A g \in q2 : s2.last_max_fee_limit <= g.max_fee
       /\ s2.last_max_fee_limit \in Nat
  <2> DEFINE N == {g.max_fee : g \in q2}
  <2>1. N \in SUBSET Nat /\ N # {}
    BY <1>18, ProofsTyped
  <2>2. Min(N) \in N /\ \A n \in N : Min(N) <= n
    <3> HIDE DEF N
    <3> QED
      BY <2>1, MinIsLeast
  <2> QED
    BY <1>20, <2>1, <2>2
<1>22. s2 \in UserState
  <2>1. s.nonce \in Nat /\ s.proofs_in_batch \in Nat /\ s.total_fees_in_queue \in Nat
    BY <1>9 DEF UserState
  <2>2. s.total_fees_in_queue + (e.max_fee - old.max_fee) \in Nat
    BY <1>4, <1>10, <2>1
  <2>3. s2 = [s EXCEPT !.last_max_fee_limit = MinFeeOf(queue', e.sender),
                       !.total_fees_in_queue = @ + (e.max_fee - old.max_fee)]
    BY <1>17 DEF AfterReplacement
  <2>4. MinFeeOf(queue', e.sender) \in Nat
    BY <1>4, <1>19, <1>20, <1>21 DEF MinFeeOf
  <2> QED
    BY <1>9, <2>1, <2>2, <2>3, <2>4 DEF UserState
<1> HIDE DEF s
<1>23. Accounted(q2, f, TRUE, s2, ethNonce[u], balance[u])
  BY <1>6, <1>9, <1>10, <1>12, <1>13, <1>14, <1>15, <1>16, <1>20, <1>21, <1>22, AccountedReplace DEF AtMost
<1>24. Settled(u) => Matches(s2, q2)
  <2>1. e \notin q \ {old}
    BY <1>10, <1>12
  <2> QED
    BY <1>9, <1>16, <1>20, <2>1, MatchesReplace
<1>25. ArcsBecome([arcs EXCEPT ![handlers[h].arc] = s2])
  <2>1. DOMAIN arcs = LiveArcs
    BY DEF TypeInv, StateTyped, ArcsTyped
  <2>2. [arcs EXCEPT ![handlers[h].arc] = AfterReplacement(@, ProofOf(h), queue[i])]
          = [arcs EXCEPT ![handlers[h].arc] = s2]
    BY <1>2, <1>8, <1>9, <1>17, <2>1
  <2> QED
    BY <1>1, <2>2
<1>26. InclusionIsReal'
  BY <1>1, NothingIncluded
<1>27. {old} \in SUBSET q
  OBVIOUS
<1>28. \A g \in Flying(u) : g.nonce # e.nonce
  BY <1>10, <1>13
<1>29. /\ handlers[h].pc \in {"enqueue", "replace"} /\ handlers' = [handlers EXCEPT ![h] = IdleHandler]
       /\ UNCHANGED <<userStates, posting, pollVars, chainVars>>
  BY <1>1
<1>30. e.sender = u /\ e.prio = e.max_fee
  BY <1>4
<1> QED
  BY <1>3, <1>11, <1>23, <1>24, <1>25, <1>26, <1>27, <1>28, <1>29, <1>30, AddAccounts

\* The state of a user always accounts for its queued proofs: no eviction panics.
LEMMA NoPanic ==
  ASSUME TypeInv, AccountsInv, NEW h \in Handlers
  PROVE  ~EvictionPanic(h)
<1>1. SUFFICES ASSUME NEW i \in Positions(queue), IsVictim(h, i),
                      EvictionPanics(arcs[userStates[queue[i].sender]], queue[i])
               PROVE  FALSE
  BY DEF EvictionPanic
<1>2. PICK e : e = queue[i]
  OBVIOUS
<1>3. e \in Entry /\ e \in EntriesOf(queue)
  BY <1>2, ElementOfSeq DEF TypeInv, QueueInv, Positions, EntriesOf
<1>4. PICK u \in Users : u = e.sender
  BY <1>3 DEF EntryOf
<1>5. e \in Queued(u) /\ Known(u)
  BY <1>1, <1>2, <1>3, <1>4 DEF Queued, EntriesFrom, Known, IsVictim, Evictable
<1> DEFINE S == Queued(u) \cup Flying(u)
           s == Account(u)
<1>6. /\ Proofs(S) /\ TotalFees(S) \in Nat /\ s \in UserState /\ ethNonce[u] \in Nat
      /\ s = arcs[userStates[u]]
  BY <1>5, ViewTyped, ProofsUnion
<1>7. NoncesOf(S) = ethNonce[u]..(s.nonce - 1) /\ TotalFees(S) <= s.total_fees_in_queue
  BY <1>5 DEF AccountsInv, AccountOK, Accounted
<1>8. s.nonce # 0
  <2>1. e.nonce \in ethNonce[u]..(s.nonce - 1)
    BY <1>5, <1>7 DEF NoncesOf
  <2> QED
    BY <1>6, <2>1 DEF UserState
<1>9. e.max_fee <= s.total_fees_in_queue
  <2>1. e \in S /\ Proofs(S \ {e})
    BY <1>5, <1>6, FS_RemoveElement DEF Proofs
  <2>2. TotalFees(S) = e.max_fee + TotalFees(S \ {e}) /\ TotalFees(S \ {e}) \in Nat
    BY <1>6, <2>1, FeesWithout, FeesType DEF Proofs
  <2>3. e.max_fee \in Nat /\ s.total_fees_in_queue \in Nat
    BY <1>3, <1>6 DEF EntryOf, UserState
  <2> QED
    BY <1>7, <2>2, <2>3
<1>10. e.max_fee \in Nat /\ s.total_fees_in_queue \in Nat
  BY <1>3, <1>6 DEF EntryOf, UserState
<1> HIDE DEF s
<1> QED
  BY <1>1, <1>2, <1>4, <1>6, <1>8, <1>9, <1>10 DEF EvictionPanics

\* Steps of handlers keep the accounts.
LEMMA HandlerAccounts ==
  ASSUME TypeInv, AccountsInv, ~Disturbance, NEW h \in Handlers, HandlerStep(h)
  PROVE  AccountsInv'
<1>1. ~EnqueueEvicting(h) /\ ~EvictionPanic(h) /\ ~EvictionBlocks(h)
  BY NoPanic DEF Disturbance, MakesRoom
<1> QED
  BY <1>1, EarlyAccounts, InsertAccounts, EnqueueAccounts, ReplaceAccounts DEF HandlerStep

\* A step of the block task leaves handlers and the map alone: what is left to show.
LEMMA BlockFrame ==
  ASSUME TypeInv, AccountsInv, UNCHANGED <<handlers, userStates, pollVars, unlocked>>,
         \A u \in Users : AccountOK(u)' /\ SettledOK(u)',
         \A u \in Users : ~Known(u) => ethNonce'[u] = ethNonce[u],
         \A h \in Handlers : ReadyOK(h)',
         BatchOK', BatchInNonceOrder', ChargedBefore', InclusionIsReal'
  PROVE  AccountsInv'
<1>1. ASSUME NEW h \in Handlers PROVE HandlerOK(h)'
  <2>1. HandlerOK(h) /\ (handlers[h].pc # "idle" => handlers[h].user \in Users)
    BY DEF AccountsInv, TypeInv, QueueInv, HandlersShape, HandlerInv
  <2>2. handlers'[h] = handlers[h] /\ userStates' = userStates
    OBVIOUS
  <2>3. handlers[h].pc = "insert" => ethNonce'[handlers[h].user] = ethNonce[handlers[h].user]
    BY <2>1 DEF HandlerOK
  <2> QED
    BY <2>1, <2>2, <2>3 DEF HandlerOK, Known
<1>2. OneMessageEach' /\ OneStateEach' /\ NobodyUnlocks'
  BY DEF AccountsInv, OneMessageEach, OneStateEach, NobodyUnlocks, Known, pollVars
<1> QED
  BY <1>1, <1>2 DEF AccountsInv

\* A message past its checks in the next state, from the parts of its user's account.
LEMMA ReadyBecomes ==
  ASSUME TypeInv, NEW h \in Handlers, handlers' = handlers,
         NEW u \in Users, u = handlers[h].user, NEW q, NEW f, NEW s, NEW bal,
         Queued(u)' = q, Flying(u)' = f, Account(u)' = s, balance'[u] = bal,
         handlers[h].pc \in {"enqueue", "replace"} => Affordable(handlers[h], q, f, s, bal)
  PROVE  ReadyOK(h)'
<1>1. PICK x : x = handlers[h]
  OBVIOUS
<1>2. /\ EntriesFrom(queue', u) = q
      /\ {e \in InFlight' : e.sender = u} = f
      /\ (IF userStates'[u] # None THEN arcs'[userStates'[u]] ELSE NewUserState(0)) = s
  BY DEF Queued, Flying, Account, Known
<1>3. x.pc \in {"enqueue", "replace"} =>
        Affordable(x, EntriesFrom(queue', u), {e \in InFlight' : e.sender = u},
                   IF userStates'[u] # None THEN arcs'[userStates'[u]] ELSE NewUserState(0),
                   balance'[u])
  BY <1>1, <1>2
<1>4. x.user = u /\ handlers'[h] = x
  BY <1>1
<1> QED
  BY <1>3, <1>4 DEF ReadyOK, Queued, Flying, Account, Known

\* A step of the block task that changes no account.
LEMMA QuietBlock ==
  ASSUME TypeInv, AccountsInv, UNCHANGED <<handlers, userStates, pollVars, chainVars>>,
         \A u \in Users : SameView(u) /\ (Settled(u)' => Settled(u)),
         BatchOK', BatchInNonceOrder', InclusionIsReal'
  PROVE  AccountsInv'
<1>1. \A u \in Users : AccountOK(u)' /\ SettledOK(u)'
  BY AccountFrame, SettledFrame DEF AccountsInv
<1>2. \A h \in Handlers : ReadyOK(h)'
  <2> TAKE h \in Handlers
  <2>1. handlers[h].pc # "idle" => SameView(handlers[h].user)
    BY DEF TypeInv, QueueInv, HandlersShape, HandlerInv
  <2> QED
    BY <2>1, ReadyFrame DEF AccountsInv
<1>3. ChargedBefore' /\ UNCHANGED <<ethNonce, unlocked>>
  BY DEF AccountsInv, ChargedBefore, chainVars
<1> QED
  BY <1>1, <1>2, <1>3, BlockFrame

\* The views of users when neither the queue, nor what is in flight, nor the accounts change.
LEMMA SameViews ==
  ASSUME EntriesOf(queue') = EntriesOf(queue), InFlight' = InFlight,
         UNCHANGED <<userStates, arcs, chainVars>>
  PROVE  \A u \in Users : SameView(u)
<1> TAKE u \in Users
<1>1. Queued(u)' = Queued(u) /\ Flying(u)' = Flying(u)
  BY DEF Queued, EntriesFrom, Flying
<1>2. Account(u)' = Account(u)
  BY DEF Account, Known, NewUserState
<1> QED
  BY <1>1, <1>2 DEF SameView, chainVars

\* The batch in flight can be charged, and what remains of each account is in order.
LEMMA BatchCharged ==
  ASSUME TypeInv, AccountsInv, posting.pc \in {"submit", "sent"}, NEW u \in Users
  PROVE  LET n == CountOf(posting.batch, u)
         IN  /\ n \in Nat /\ n * posting.fee <= balance[u]
             /\ Flying(u) = EntriesFrom(posting.batch, u)
             /\ Accounted(Queued(u), {}, Known(u), Account(u), ethNonce[u] + n, balance[u] - n * posting.fee)
             /\ \A x : x.fee \in Nat /\ Affordable(x, Queued(u), Flying(u), Account(u), balance[u]) =>
                  Affordable(x, Queued(u), {}, Account(u), balance[u] - n * posting.fee)
<1> DEFINE q == Queued(u)
           f == Flying(u)
           n == CountOf(posting.batch, u)
<1>1. f = EntriesFrom(posting.batch, u)
  BY DEF Flying, InFlight, EntriesFrom
<1>2. n = Cardinality(f)
  BY <1>1 DEF CountOf
<1>3. /\ Proofs(q) /\ Proofs(f) /\ Account(u) \in UserState
      /\ ethNonce[u] \in Nat /\ balance[u] \in Nat
  BY ViewTyped
<1>4. posting.fee \in Nat /\ n \in Nat
  BY <1>2, <1>3, FS_CardinalityType DEF TypeInv, StateTyped, PostingTyped, Proofs
<1>5. NoncesOf(f) = ethNonce[u]..(ethNonce[u] + Cardinality(f) - 1)
  BY <1>1, <1>2 DEF AccountsInv, BatchInNonceOrder
<1>6. \A e \in q, g \in f : e.nonce # g.nonce
  BY DEF AccountsInv, BatchOK, SameEntry, Queued, EntriesFrom, Flying
<1>7. AtMost(posting.fee, f)
  BY <1>1 DEF AccountsInv, BatchOK, AtMost, EntriesFrom
<1>8. Accounted(q, f, Known(u), Account(u), ethNonce[u], balance[u]) /\ Known(u) \in BOOLEAN
  BY DEF AccountsInv, AccountOK, Known
<1> HIDE DEF q, f, n
<1>9. /\ Cardinality(f) * posting.fee <= balance[u]
      /\ Accounted(q, {}, Known(u), Account(u), ethNonce[u] + Cardinality(f),
                   balance[u] - Cardinality(f) * posting.fee)
      /\ \A x : x.fee \in Nat /\ Affordable(x, q, f, Account(u), balance[u]) =>
           Affordable(x, q, {}, Account(u), balance[u] - Cardinality(f) * posting.fee)
  BY <1>3, <1>4, <1>5, <1>6, <1>7, <1>8, AccountedCharge
<1> QED
  BY <1>1, <1>2, <1>4, <1>9 DEF q, f, n

\* A batch in flight never lacks funds.
LEMMA NeverShort ==
  ASSUME TypeInv, AccountsInv, posting.pc \in {"submit", "sent"}
  PROVE  CanCharge
<1>1. SendersOf(posting.batch) \in SUBSET Users
  <2>1. EntriesOf(posting.batch) \in SUBSET Entry
    BY EntriesFinite DEF TypeInv, QueueInv, PostingShape
  <2> QED
    BY <2>1 DEF SendersOf, EntryOf
<1>2. SUFFICES ASSUME NEW u \in SendersOf(posting.batch)
               PROVE  balance[u] >= CountOf(posting.batch, u) * posting.fee
  BY DEF CanCharge
<1>3. u \in Users
  BY <1>1
<1>4. /\ CountOf(posting.batch, u) * posting.fee <= balance[u]
      /\ CountOf(posting.batch, u) \in Nat
      /\ balance[u] \in Nat /\ posting.fee \in Nat
  BY <1>3, BatchCharged DEF TypeInv, StateTyped, ChainTyped, PostingTyped
<1>5. CountOf(posting.batch, u) * posting.fee \in Nat
  BY <1>4
<1> QED
  BY <1>4, <1>5

\* Steps of the block task that change no account.
LEMMA QuietBlockAccounts ==
  ASSUME TypeInv, AccountsInv, ~Disturbance,
         SendTask \/ SubmissionFails \/ RestoreEnds \/ FinishFailedPosting
  PROVE  AccountsInv'
<1>d. DOMAIN posting = {"pc", "batch", "fee", "rest", "todo"}
  BY DEF TypeInv, QueueInv, PostingShape
<1>q. UNCHANGED <<queue, userStates, arcs, handlers, pollVars>> /\ sent' = {}
  BY DEF SendTask, SubmissionFails, RestoreEnds, FinishFailedPosting
<1>i. InclusionIsReal'
  BY <1>q, NothingIncluded
<1>b. BatchOK /\ BatchInNonceOrder
  BY DEF AccountsInv
<1>1. ASSUME SendTask PROVE AccountsInv'
  <2>1. /\ posting.pc = "submit" /\ posting'.pc = "sent" /\ posting'.batch = posting.batch
        /\ posting'.fee = posting.fee /\ posting'.rest = posting.rest /\ posting'.todo = posting.todo
        /\ UNCHANGED chainVars
    BY <1>1, <1>d DEF SendTask
  <2>2. InFlight' = InFlight
    BY <2>1 DEF InFlight
  <2>3. \A u \in Users : SameView(u) /\ (Settled(u)' => Settled(u))
    BY <1>q, <2>1, <2>2, SameViews DEF Settled
  <2>4. BatchOK' /\ BatchInNonceOrder'
    BY <1>b, <1>q, <2>1, <2>2 DEF BatchOK, BatchInNonceOrder, chainVars
  <2> QED
    BY <1>q, <1>i, <2>1, <2>3, <2>4, QuietBlock
<1>2. ASSUME SubmissionFails PROVE AccountsInv'
  <2>1. /\ posting.pc \in {"submit", "sent"} /\ posting'.pc = "restore" /\ posting'.batch = posting.batch
        /\ posting'.fee = posting.fee /\ posting'.rest = posting.batch /\ posting'.todo = posting.todo
        /\ UNCHANGED chainVars /\ "error" \in SubmissionFaults
    BY <1>2, <1>d DEF SubmissionFails, Disturbance
  <2>2. InFlight' = InFlight
    BY <2>1 DEF InFlight
  <2>3. \A u \in Users : SameView(u) /\ (Settled(u)' => Settled(u))
    BY <1>q, <2>1, <2>2, SameViews DEF Settled
  <2>4. BatchOK' /\ BatchInNonceOrder'
    BY <1>b, <1>q, <2>1, <2>2 DEF BatchOK, BatchInNonceOrder, chainVars
  <2> QED
    BY <1>q, <1>i, <2>1, <2>3, <2>4, QuietBlock
<1>3. ASSUME RestoreEnds PROVE AccountsInv'
  <2>1. /\ posting.pc = "restore" /\ posting'.pc = "updateFailed" /\ posting'.batch = posting.batch
        /\ posting'.fee = posting.fee /\ posting'.rest = posting.rest /\ posting'.todo = posting.todo
        /\ posting.rest = <<>> /\ UNCHANGED chainVars
    BY <1>3, <1>d DEF RestoreEnds
  <2>2. EntriesOf(<<>>) = {} /\ SendersOf(<<>>) = {}
    BY DEF EntriesOf, Positions, SendersOf
  <2>3. InFlight = {} /\ InFlight' = {}
    BY <2>1, <2>2 DEF InFlight
  <2>4. \A u \in Users : SameView(u) /\ (Settled(u)' => Settled(u))
    BY <1>b, <1>q, <2>1, <2>2, <2>3, SameViews DEF Settled, BatchOK
  <2>5. BatchOK' /\ BatchInNonceOrder'
    BY <1>b, <1>q, <2>1, <2>3 DEF BatchOK, BatchInNonceOrder, chainVars
  <2> QED
    BY <1>q, <1>i, <2>1, <2>4, <2>5, QuietBlock
<1>4. ASSUME FinishFailedPosting PROVE AccountsInv'
  <2>1. /\ posting.pc = "updateFailed" /\ posting'.pc = "idle" /\ posting'.batch = <<>>
        /\ posting'.rest = <<>> /\ posting.todo = {} /\ UNCHANGED chainVars
    BY <1>4 DEF FinishFailedPosting, NotPosting
  <2>2. EntriesOf(<<>>) = {} /\ SendersOf(<<>>) = {} /\ Distinct(<<>>)
    BY DEF EntriesOf, Positions, SendersOf, Distinct
  <2>3. InFlight = {} /\ InFlight' = {}
    BY <2>1 DEF InFlight
  <2>4. \A u \in Users : SameView(u) /\ (Settled(u)' => Settled(u))
    BY <1>q, <2>1, <2>3, SameViews DEF Settled
  <2>5. BatchOK' /\ BatchInNonceOrder'
    BY <1>b, <1>q, <2>1, <2>2, <2>3 DEF BatchOK, BatchInNonceOrder, Priced
  <2> QED
    BY <1>q, <1>i, <2>1, <2>4, <2>5, QuietBlock
<1> QED
  BY <1>1, <1>2, <1>3, <1>4

\* The end of a successful posting: the clients are told, and the cleanup lifts only the
\* limits of users that have none.
LEMMA FinishAccounts ==
  ASSUME TypeInv, AccountsInv, FinishPosting
  PROVE  AccountsInv'
<1>1. /\ posting.pc = "updateOk" /\ posting'.pc = "idle" /\ posting'.batch = <<>>
      /\ posting'.rest = <<>> /\ posting.todo = {}
      /\ UNCHANGED <<queue, userStates, handlers, pollVars, chainVars>>
      /\ sent' = Tell(EntriesOf(posting.batch), "BatchInclusionData")
  BY DEF FinishPosting, NotPosting
<1>2. EntriesOf(<<>>) = {} /\ SendersOf(<<>>) = {} /\ Distinct(<<>>)
  BY DEF EntriesOf, Positions, SendersOf, Distinct
<1>3. InFlight = {} /\ InFlight' = {}
  BY <1>1 DEF InFlight
<1>4. arcs \in [LiveArcs -> UserState]
  BY DEF TypeInv, StateTyped, ArcsTyped
<1>5. ASSUME NEW u \in CleanupUsers
      PROVE  [arcs[userStates[u]] EXCEPT !.last_max_fee_limit = Unlimited] = arcs[userStates[u]]
  <2>1. u \in Users
    <3>1. EntriesOf(posting.batch) \in SUBSET Entry
      BY EntriesFinite DEF TypeInv, QueueInv, PostingShape
    <3> QED
      BY <3>1 DEF CleanupUsers, SendersOf, EntryOf
  <2>2. Known(u) /\ Queued(u) = {}
    BY DEF CleanupUsers, Known, Queued
  <2>3. Settled(u)
    BY <1>1 DEF Settled
  <2>4. /\ Matches(Account(u), Queued(u)) /\ Account(u) = arcs[userStates[u]]
        /\ Account(u) \in UserState
    BY <2>1, <2>2, <2>3, ViewTyped DEF AccountsInv, SettledOK
  <2>5. Account(u).last_max_fee_limit = Unlimited
    BY <2>2, <2>4 DEF Matches
  <2> QED
    BY <2>4, <2>5 DEF UserState
<1>6. UNCHANGED arcs
  <2>1. CASE arcs' = [a \in LiveArcs |->
                       IF \E u \in CleanupUsers : userStates[u] = a
                         THEN [arcs[a] EXCEPT !.last_max_fee_limit = Unlimited]
                         ELSE arcs[a]]
    <3>1. \A a \in LiveArcs : arcs'[a] = arcs[a]
      BY <1>5, <2>1
    <3> QED
      BY <1>4, <2>1, <3>1
  <2> QED
    BY <2>1 DEF FinishPosting
<1>7. \A u \in Users : SameView(u) /\ (Settled(u)' => Settled(u))
  BY <1>1, <1>3, <1>6, SameViews DEF Settled
<1>8. BatchOK' /\ BatchInNonceOrder'
  BY <1>1, <1>2, <1>3 DEF AccountsInv, BatchOK, BatchInNonceOrder, Priced
<1>9. InclusionIsReal'
  <2>1. KeysOf(EntriesOf(posting.batch)) \subseteq included' 
    BY <1>1 DEF AccountsInv, BatchOK, chainVars
  <2> QED
    BY <1>1, <2>1 DEF InclusionIsReal, Tell, Message, KeysOf
<1> QED
  BY <1>1, <1>7, <1>8, <1>9, QuietBlock

\* The state of a user is recomputed from the queue.
LEMMA UpdateAccounts ==
  ASSUME TypeInv, AccountsInv, NEW u \in Users, UpdateUser(u)
  PROVE  AccountsInv'
<1>1. /\ posting.pc \in {"updateOk", "updateFailed"} /\ posting'.pc = posting.pc
      /\ posting'.batch = posting.batch /\ posting'.rest = posting.rest
      /\ posting'.fee = posting.fee /\ posting'.todo = posting.todo \ {u}
      /\ UNCHANGED <<queue, userStates, handlers, pollVars, chainVars>> /\ sent' = {}
  BY DEF UpdateUser, TypeInv, QueueInv, PostingShape
<1>2. InFlight = {} /\ InFlight' = {}
  BY <1>1 DEF InFlight
<1>3. \A v \in Users : Queued(v)' = Queued(v) /\ Flying(v) = {} /\ Flying(v)' = {} /\ Known(v)' = Known(v)
  BY <1>1, <1>2 DEF Queued, Flying, Known
<1>4. BatchOK' /\ BatchInNonceOrder' /\ InclusionIsReal'
  <2>1. BatchOK'
    BY <1>1, <1>2 DEF AccountsInv, BatchOK, chainVars
  <2>2. BatchInNonceOrder'
    BY <1>1 DEF BatchInNonceOrder
  <2> QED
    BY <1>1, <2>1, <2>2, NothingIncluded
<1>5. arcs \in [LiveArcs -> UserState]
  BY DEF TypeInv, StateTyped, ArcsTyped
<1>6. Known(u) => /\ ~UserLocked(userStates[u])
                  /\ arcs' = [arcs EXCEPT ![userStates[u]] = FromQueue(arcs[userStates[u]], u)]
  BY DEF UpdateUser, Known
<1>7. \A v \in Users \ {u} : SameView(v) /\ (Settled(v)' => Settled(v))
  <2> TAKE v \in Users \ {u}
  <2>1. Account(v)' = Account(v)
    <3>1. CASE ~Known(u)
      <4>1. arcs' = arcs
        BY <3>1 DEF UpdateUser, Known
      <4> QED
        BY <1>1, <4>1 DEF Account, Known, NewUserState
    <3>2. CASE Known(u)
      <4>1. Known(v) => userStates[v] # userStates[u] /\ userStates[v] \in LiveArcs
        BY <3>2, ViewTyped DEF AccountsInv, OneStateEach
      <4>2. Known(v) => arcs'[userStates[v]] = arcs[userStates[v]]
        BY <1>5, <1>6, <3>2, <4>1
      <4> QED
        BY <1>1, <4>2 DEF Account, Known, NewUserState
    <3> QED
      BY <3>1, <3>2
  <2> QED
    BY <1>1, <1>3, <2>1 DEF SameView, Settled, chainVars
<1>8. CASE ~Known(u)
  <2>1. arcs' = arcs
    BY <1>8 DEF UpdateUser, Known
  <2>2. SameView(u)
    BY <1>1, <1>2, <2>1, SameViews
  <2>3. \A v \in Users : AccountOK(v)' /\ SettledOK(v)'
    <3>1. AccountOK(u)' /\ SettledOK(u)'
      BY <1>3, <1>8, <2>2, AccountFrame DEF AccountsInv, SettledOK
    <3>2. \A v \in Users \ {u} : AccountOK(v)' /\ SettledOK(v)'
      BY <1>7, AccountFrame, SettledFrame DEF AccountsInv
    <3> QED
      BY <3>1, <3>2
  <2>4. \A h \in Handlers : ReadyOK(h)'
    <3> TAKE h \in Handlers
    <3>1. handlers[h].pc # "idle" => SameView(handlers[h].user)
      BY <1>7, <2>2 DEF TypeInv, QueueInv, HandlersShape, HandlerInv
    <3> QED
      BY <1>1, <3>1, ReadyFrame DEF AccountsInv
  <2>5. ChargedBefore' /\ UNCHANGED <<ethNonce, unlocked>>
    BY <1>1 DEF AccountsInv, ChargedBefore, chainVars
  <2> QED
    BY <1>1, <1>4, <2>3, <2>4, <2>5, BlockFrame
<1>9. CASE Known(u)
  <2>1. PICK s : s = FromQueue(Account(u), u)
    OBVIOUS
  <2>2. /\ Account(u) = arcs[userStates[u]] /\ userStates[u] \in LiveArcs /\ Account(u) \in UserState
        /\ Proofs(Queued(u))
    BY <1>9, ViewTyped
  <2>3. Account(u)' = s
    BY <1>1, <1>5, <1>6, <1>9, <2>1, <2>2 DEF Account, Known
  <2>4. Matches(s, Queued(u)) /\ s.nonce = Account(u).nonce
    BY <2>1, <2>2, MatchesFromQueue
  <2>5. s \in UserState
    BY <2>1, <2>2, FromQueueTyped DEF TypeInv, QueueInv
  <2>6. Known(u) = TRUE /\ Known(u)' = TRUE
    BY <1>1, <1>9 DEF Known
  <2>7. Accounted(Queued(u), {}, TRUE, Account(u), ethNonce[u], balance[u])
    BY <1>3, <2>6 DEF AccountsInv, AccountOK
  <2>8. Accounted(Queued(u), {}, TRUE, s, ethNonce[u], balance[u])
    BY <2>2, <2>4, <2>5, <2>7, AccountedUpdate
  <2>9. AccountOK(u)' /\ SettledOK(u)'
    BY <1>1, <1>3, <2>3, <2>4, <2>6, <2>8, AccountBecomes DEF chainVars
  <2>10. \A v \in Users : AccountOK(v)' /\ SettledOK(v)'
    <3>1. \A v \in Users \ {u} : AccountOK(v)' /\ SettledOK(v)'
      BY <1>7, AccountFrame, SettledFrame DEF AccountsInv
    <3> QED
      BY <2>9, <3>1
  <2>11. \A h \in Handlers : ReadyOK(h)'
    <3> TAKE h \in Handlers
    <3>1. CASE handlers[h].pc \in {"enqueue", "replace"}
      <4>1. handlers[h].user \in Users /\ handlers[h].arc = userStates[handlers[h].user]
        BY <3>1, AtWorkOnAccount, AloneAtWork
      <4>2. handlers[h].user # u
        BY <1>6, <1>9, <3>1, <4>1 DEF UserLocked, HoldsUserLock
      <4> QED
        BY <1>1, <1>7, <4>1, <4>2, ReadyFrame DEF AccountsInv
    <3>2. CASE ~(handlers[h].pc \in {"enqueue", "replace"})
      BY <1>1, <3>2 DEF ReadyOK
    <3> QED
      BY <3>1, <3>2
  <2>12. ChargedBefore' /\ UNCHANGED <<ethNonce, unlocked>>
    BY <1>1 DEF AccountsInv, ChargedBefore, chainVars
  <2> QED
    BY <1>1, <1>4, <2>10, <2>11, <2>12, BlockFrame
<1> QED
  BY <1>8, <1>9

\* A receipt: the batch is charged, and its users are to be updated.
LEMMA ReceiptAccounts ==
  ASSUME TypeInv, AccountsInv, TaskReceipt
  PROVE  AccountsInv'
<1>1. /\ posting.pc = "sent" /\ posting'.pc = "updateOk" /\ posting'.batch = posting.batch
      /\ posting'.rest = posting.rest /\ posting'.todo = SendersOf(posting.batch)
      /\ UNCHANGED <<queue, userStates, arcs, handlers, pollVars>> /\ sent' = {}
  BY DEF TaskReceipt, TypeInv, QueueInv, PostingShape
<1>2. ChargeBatch
  BY <1>1, NeverShort DEF TaskReceipt
<1> DEFINE n(u) == CountOf(posting.batch, u)
<1>3. \A u \in Users : ethNonce'[u] = ethNonce[u] + n(u) /\ balance'[u] = balance[u] - n(u) * posting.fee
  BY <1>2 DEF ChargeBatch
<1>4. included' = included \cup KeysOf(EntriesOf(posting.batch)) /\ UNCHANGED unlocked
  BY <1>2 DEF ChargeBatch
<1>5. ASSUME NEW u \in Users
      PROVE  /\ n(u) \in Nat /\ Flying(u) = EntriesFrom(posting.batch, u)
             /\ Accounted(Queued(u), {}, Known(u), Account(u), ethNonce[u] + n(u),
                          balance[u] - n(u) * posting.fee)
             /\ \A x : x.fee \in Nat /\ Affordable(x, Queued(u), Flying(u), Account(u), balance[u]) =>
                  Affordable(x, Queued(u), {}, Account(u), balance[u] - n(u) * posting.fee)
  BY <1>1, BatchCharged
<1> HIDE DEF n
<1>6. InFlight' = {}
  BY <1>1 DEF InFlight
<1>7. \A u \in Users : /\ Queued(u)' = Queued(u) /\ Flying(u)' = {}
                       /\ Account(u)' = Account(u) /\ Known(u)' = Known(u)
  BY <1>1, <1>6 DEF Queued, Flying, Known, Account, NewUserState
<1>8. \A u \in Users : AccountOK(u)' /\ SettledOK(u)'
  <2> TAKE u \in Users
  <2>1. AccountOK(u)'
    BY <1>3, <1>5, <1>7, AccountBecomes
  <2>2. Settled(u)' => Settled(u)
    BY <1>1 DEF Settled
  <2>3. SettledOK(u)'
    BY <1>7, <2>2 DEF AccountsInv, SettledOK
  <2> QED
    BY <2>1, <2>3
<1>9. \A h \in Handlers : ReadyOK(h)'
  <2> TAKE h \in Handlers
  <2>1. CASE handlers[h].pc \in {"enqueue", "replace"}
    <3>1. PICK u \in Users : u = handlers[h].user
      BY <2>1, AloneAtWork
    <3>2. Affordable(handlers[h], Queued(u), Flying(u), Account(u), balance[u])
      BY <2>1, <3>1 DEF AccountsInv, ReadyOK
    <3>3. handlers[h].fee \in Nat
      BY <2>1 DEF TypeInv, QueueInv, HandlersShape, HandlerInv
    <3>4. Affordable(handlers[h], Queued(u), {}, Account(u), balance[u] - n(u) * posting.fee)
      BY <1>5, <3>2, <3>3
    <3> QED
      BY <1>1, <1>3, <1>7, <3>1, <3>4, ReadyBecomes
  <2>2. CASE ~(handlers[h].pc \in {"enqueue", "replace"})
    BY <1>1, <2>2 DEF ReadyOK
  <2> QED
    BY <2>1, <2>2
<1>10. \A u \in Users : ~Known(u) => ethNonce'[u] = ethNonce[u]
  <2> TAKE u \in Users
  <2>1. ~Known(u) => Flying(u) = {}
    BY DEF AccountsInv, AccountOK, Accounted
  <2>2. Flying(u) = {} => n(u) = 0
    BY <1>5, FS_EmptySet DEF n, CountOf
  <2>3. ethNonce[u] \in Nat
    BY ViewTyped
  <2> QED
    BY <1>3, <2>1, <2>2, <2>3
<1>11. ChargedBefore'
  <2> SUFFICES ASSUME NEW u \in Users, NEW m \in Nat, <<u, m>> \in included'
               PROVE  m < ethNonce'[u]
    BY DEF ChargedBefore
  <2>1. ethNonce[u] \in Nat /\ n(u) \in Nat /\ ethNonce'[u] = ethNonce[u] + n(u)
    BY <1>3, <1>5, ViewTyped
  <2>2. CASE <<u, m>> \in included
    BY <2>1, <2>2 DEF AccountsInv, ChargedBefore
  <2>3. CASE <<u, m>> \in KeysOf(EntriesOf(posting.batch))
    <3>1. m \in NoncesOf(EntriesFrom(posting.batch, u))
      BY <2>3 DEF KeysOf, NoncesOf, EntriesFrom
    <3>2. m \in ethNonce[u]..(ethNonce[u] + n(u) - 1)
      BY <1>1, <3>1 DEF AccountsInv, BatchInNonceOrder, n
    <3> QED
      BY <2>1, <3>2
  <2> QED
    BY <1>4, <2>2, <2>3
<1>12. BatchOK' /\ BatchInNonceOrder'
  BY <1>1, <1>4, <1>6 DEF AccountsInv, BatchOK, BatchInNonceOrder
<1>13. InclusionIsReal'
  BY <1>1, NothingIncluded
<1> QED
  BY <1>1, <1>4, <1>8, <1>9, <1>10, <1>11, <1>12, <1>13, BlockFrame

\* Proofs move between the queue and the batch in flight.
LEMMA MoveBlock ==
  ASSUME TypeInv, AccountsInv, UNCHANGED <<handlers, userStates, arcs, pollVars, chainVars>>,
         \A u \in Users : /\ Queued(u)' \cup Flying(u)' = Queued(u) \cup Flying(u)
                          /\ Kept(Queued(u)', Flying(u)') \subseteq Kept(Queued(u), Flying(u)),
         \A u \in Users : Settled(u)' => Settled(u) /\ Queued(u)' = Queued(u),
         BatchOK', BatchInNonceOrder', InclusionIsReal'
  PROVE  AccountsInv'
<1>1. \A u \in Users : /\ Account(u)' = Account(u) /\ Known(u)' = Known(u)
                       /\ ethNonce'[u] = ethNonce[u] /\ balance'[u] = balance[u]
  BY DEF Known, Account, NewUserState, chainVars
<1>2. \A u \in Users : AccountOK(u)' /\ SettledOK(u)'
  <2> TAKE u \in Users
  <2>1. Accounted(Queued(u)', Flying(u)', Known(u), Account(u), ethNonce[u], balance[u])
    BY AccountedMove DEF AccountsInv, AccountOK
  <2>2. AccountOK(u)'
    BY <1>1, <2>1, AccountBecomes
  <2>3. SettledOK(u)'
    BY <1>1 DEF AccountsInv, SettledOK
  <2> QED
    BY <2>2, <2>3
<1>3. \A h \in Handlers : ReadyOK(h)'
  <2> TAKE h \in Handlers
  <2>1. CASE handlers[h].pc \in {"enqueue", "replace"}
    <3>1. PICK u \in Users : u = handlers[h].user
      BY <2>1, AloneAtWork
    <3>2. Affordable(handlers[h], Queued(u), Flying(u), Account(u), balance[u])
      BY <2>1, <3>1 DEF AccountsInv, ReadyOK
    <3>3. Affordable(handlers[h], Queued(u)', Flying(u)', Account(u), balance[u])
      BY <3>2, AffordableMove
    <3> QED
      BY <1>1, <3>1, <3>3, ReadyBecomes
  <2>2. CASE ~(handlers[h].pc \in {"enqueue", "replace"})
    BY <2>2 DEF ReadyOK
  <2> QED
    BY <2>1, <2>2
<1>4. ChargedBefore' /\ UNCHANGED <<ethNonce, unlocked>>
  BY DEF AccountsInv, ChargedBefore, chainVars
<1> QED
  BY <1>2, <1>3, <1>4, BlockFrame

\* The first entry of a sequence of distinct entries, and the others.
LEMMA HeadAndTail ==
  ASSUME NEW s \in Seq(Entry), s # <<>>, Distinct(s)
  PROVE  /\ Head(s) \in EntriesOf(s) /\ EntriesOf(Tail(s)) = EntriesOf(s) \ {Head(s)}
         /\ Distinct(Tail(s))
         /\ \A g \in EntriesOf(Tail(s)) : ~SameEntry(Head(s), g)
<1>1. /\ Len(s) \in Nat /\ Len(s) >= 1 /\ Head(s) = s[1]
      /\ Len(Tail(s)) = Len(s) - 1
      /\ \A i \in 1..(Len(s) - 1) : Tail(s)[i] = s[i + 1]
  BY EmptySeq, HeadTailProperties, LenProperties
<1>2. \A i, j \in 1..Len(s) : i # j => ~SameEntry(s[i], s[j])
  BY DEF Distinct, Positions
<1>3. \A i \in 1..(Len(s) - 1) : i + 1 \in 1..Len(s) /\ i + 1 # 1
  BY <1>1
<1>4. \A i \in 1..Len(s) : i # 1 => i - 1 \in 1..(Len(s) - 1) /\ (i - 1) + 1 = i
  BY <1>1
<1>5. 1 \in 1..Len(s)
  BY <1>1
<1>6. \A g \in EntriesOf(Tail(s)) : g \in EntriesOf(s) /\ ~SameEntry(Head(s), g)
  BY <1>1, <1>2, <1>3, <1>5 DEF EntriesOf, Positions
<1>7. \A g \in EntriesOf(s) : g # Head(s) => g \in EntriesOf(Tail(s))
  <2> SUFFICES ASSUME NEW i \in 1..Len(s), i # 1 PROVE s[i] \in EntriesOf(Tail(s))
    BY <1>1 DEF EntriesOf, Positions
  <2>1. Tail(s)[i - 1] = s[i] /\ i - 1 \in 1..Len(Tail(s))
    BY <1>1, <1>4
  <2> QED
    BY <2>1 DEF EntriesOf, Positions
<1>8. Head(s) \notin EntriesOf(Tail(s))
  BY <1>6 DEF SameEntry
<1>9. Distinct(Tail(s))
  <2> SUFFICES ASSUME NEW i \in 1..(Len(s) - 1), NEW j \in 1..(Len(s) - 1), i # j
               PROVE  ~SameEntry(Tail(s)[i], Tail(s)[j])
    BY <1>1 DEF Distinct, Positions
  <2>1. i + 1 \in 1..Len(s) /\ j + 1 \in 1..Len(s) /\ i + 1 # j + 1
    BY <1>1
  <2> QED
    BY <1>1, <1>2, <2>1
<1> QED
  BY <1>1, <1>5, <1>6, <1>7, <1>8, <1>9 DEF EntriesOf, Positions

\* A proof of a failed batch is put back into the queue.
LEMMA RestoreAccounts ==
  ASSUME TypeInv, AccountsInv, RestoreProof
  PROVE  AccountsInv'
<1>1. /\ posting.pc = "restore" /\ posting.rest # <<>> /\ posting'.pc = "restore"
      /\ posting'.batch = posting.batch /\ posting'.rest = Tail(posting.rest)
      /\ posting'.todo = posting.todo \cup {Head(posting.rest).sender}
      /\ queue' = Push(queue, [Head(posting.rest) EXCEPT !.prio = Head(posting.rest).max_fee])
      /\ UNCHANGED <<userStates, arcs, handlers, pollVars, chainVars>> /\ sent' = {}
  BY DEF RestoreProof, TypeInv, QueueInv, PostingShape
<1>2. /\ posting.rest \in Seq(Entry) /\ queue \in Seq(Entry) /\ Distinct(posting.rest)
      /\ "error" \in SubmissionFaults /\ EntriesOf(posting.rest) \subseteq EntriesOf(posting.batch)
      /\ Priced(EntriesOf(posting.batch)) /\ EntriesOf(posting.rest) \in SUBSET Entry
  BY <1>1, EntriesFinite DEF TypeInv, QueueInv, PostingShape, AccountsInv, BatchOK
<1>3. /\ Head(posting.rest) \in EntriesOf(posting.rest)
      /\ EntriesOf(Tail(posting.rest)) = EntriesOf(posting.rest) \ {Head(posting.rest)}
      /\ Distinct(Tail(posting.rest))
      /\ \A g \in EntriesOf(Tail(posting.rest)) : ~SameEntry(Head(posting.rest), g)
  BY <1>1, <1>2, HeadAndTail
<1>4. PICK e \in Entry : e = Head(posting.rest)
  BY <1>2, <1>3
<1>5. e.prio = e.max_fee /\ e.sender \in Users
  BY <1>2, <1>3, <1>4 DEF Priced, EntryOf
<1>6. [e EXCEPT !.prio = e.max_fee] = e
  BY <1>5 DEF EntryOf
<1>7. InFlight = EntriesOf(posting.rest) /\ InFlight' = InFlight \ {e} /\ e \in InFlight
  BY <1>1, <1>3, <1>4 DEF InFlight
<1>8. \A g \in EntriesOf(queue) : ~SameEntry(g, e)
  BY <1>7 DEF AccountsInv, BatchOK
<1>9. EntriesOf(queue') = EntriesOf(queue) \cup {e}
  BY <1>1, <1>2, <1>4, <1>6, <1>8, PushEntries
<1>10. \A u \in Users : /\ Queued(u)' \cup Flying(u)' = Queued(u) \cup Flying(u)
                        /\ e.sender # u => Queued(u)' = Queued(u)
  BY <1>7, <1>9 DEF Queued, EntriesFrom, Flying
<1>11. \A u \in Users : Kept(Queued(u)', Flying(u)') \subseteq Kept(Queued(u), Flying(u))
  BY <1>2, <1>10 DEF Kept
<1>12. \A u \in Users : Settled(u)' => Settled(u) /\ Queued(u)' = Queued(u)
  <2> TAKE u \in Users
  <2>1. e.sender \in SendersOf(posting.batch)
    BY <1>2, <1>3, <1>4 DEF SendersOf
  <2>2. Settled(u)' => u \notin SendersOf(posting.batch)
    BY <1>1 DEF Settled
  <2> QED
    BY <1>10, <2>1, <2>2 DEF Settled
<1>13. BatchOK'
  <2>1. Priced(EntriesOf(queue'))
    BY <1>5, <1>9 DEF AccountsInv, BatchOK, Priced
  <2>2. \A d \in EntriesOf(queue'), g \in InFlight' : ~SameEntry(d, g)
    <3>1. \A g \in InFlight' : ~SameEntry(e, g)
      BY <1>3, <1>4, <1>7
    <3> QED
      BY <1>7, <1>9, <3>1 DEF AccountsInv, BatchOK
  <2>3. SendersOf(posting.batch) \subseteq posting'.todo \cup SendersOf(posting'.rest)
    <3>1. SendersOf(posting.rest) \subseteq {e.sender} \cup SendersOf(Tail(posting.rest))
      BY <1>3, <1>4 DEF SendersOf
    <3> QED
      BY <1>1, <1>4, <3>1 DEF AccountsInv, BatchOK
  <2>4. EntriesOf(posting'.rest) \subseteq EntriesOf(posting.batch)
    BY <1>1, <1>2, <1>3
  <2> QED
    BY <1>1, <1>2, <1>3, <2>1, <2>2, <2>3, <2>4 DEF AccountsInv, BatchOK
<1>14. BatchInNonceOrder' /\ InclusionIsReal'
  BY <1>1, NothingIncluded DEF BatchInNonceOrder
<1> QED
  BY <1>1, <1>10, <1>11, <1>12, <1>13, <1>14, MoveBlock

\* Proofs with different nonces are as many as their nonces.
LEMMA AsManyNonces ==
  ASSUME NEW f, Proofs(f), \A e, g \in f : e.nonce = g.nonce => e = g
  PROVE  Cardinality(NoncesOf(f)) = Cardinality(f)
<1> DEFINE b == [e \in f |-> e.nonce]
<1>1. b \in Bijection(f, NoncesOf(f))
  <2>1. b \in [f -> NoncesOf(f)] /\ \A e, g \in f : b[e] = b[g] => e = g
    BY DEF NoncesOf
  <2>2. \A n \in NoncesOf(f) : \E e \in f : b[e] = n
    BY DEF NoncesOf
  <2> HIDE DEF b
  <2> QED
    BY <2>1, <2>2 DEF Bijection, Injection, Surjection, IsInjective
<1> QED
  BY <1>1, FS_Bijection DEF Proofs, ExistsBijection

\* Of the proofs of a user, those that a batch takes (f) rather than leave (r) have the
\* first nonces: the heap gives up the cheap ones first, and the fees fall.
LEMMA TakesFirstNonces ==
  ASSUME NEW q, Proofs(q), NEW f, NEW r, f \cup r = q,
         \A e, g \in q : e.nonce = g.nonce => e = g,
         \A e \in f, g \in r : ~PoppedBefore(e, g) /\ e.nonce # g.nonce,
         Priced(q), FeesFall(q), NEW eth \in Nat, NEW top \in Nat, eth <= top,
         NoncesOf(q) = eth..(top - 1)
  PROVE  NoncesOf(f) = eth..(eth + Cardinality(f) - 1)
<1>1. Proofs(f)
  <2>1. f \in SUBSET q
    OBVIOUS
  <2> QED
    BY <2>1, FS_Subset DEF Proofs
<1>2. Cardinality(NoncesOf(f)) = Cardinality(f)
  BY <1>1, AsManyNonces
<1>3. NoncesOf(f) \in SUBSET (eth..(top - 1))
  BY DEF NoncesOf
<1>4. \A m \in NoncesOf(f), n \in (eth..(top - 1)) \ NoncesOf(f) : m < n
  <2> TAKE m \in NoncesOf(f), n \in (eth..(top - 1)) \ NoncesOf(f)
  <2>1. PICK e \in f : e.nonce = m
    BY DEF NoncesOf
  <2>2. PICK g \in r : g.nonce = n
    <3>1. PICK g \in q : g.nonce = n
      BY DEF NoncesOf
    <3>2. g \notin f
      BY <3>1 DEF NoncesOf
    <3> QED
      BY <3>1, <3>2
  <2>3. e \in q /\ g \in q
    OBVIOUS
  <2>4. /\ e.nonce \in Nat /\ g.nonce \in Nat /\ e.max_fee \in Nat /\ g.max_fee \in Nat
        /\ e.prio = e.max_fee /\ g.prio = g.max_fee
    BY <2>3, ProofsTyped DEF Priced
  <2>5. ~(g.nonce < e.nonce)
    <3>1. SUFFICES ASSUME g.nonce < e.nonce PROVE FALSE
      OBVIOUS
    <3>2. e.max_fee <= g.max_fee
      BY <2>3, <3>1 DEF FeesFall
    <3> QED
      BY <2>4, <3>1, <3>2 DEF PoppedBefore
  <2> QED
    BY <2>1, <2>2, <2>4, <2>5
<1> QED
  BY <1>2, <1>3, <1>4, InitialSegment

\* A batch is extracted from the queue.
LEMMA ExtractAccounts ==
  ASSUME TypeInv, AccountsInv, ExtractBatch
  PROVE  AccountsInv'
<1>1. /\ posting.pc = "idle" /\ sent' = {}
      /\ UNCHANGED <<userStates, arcs, handlers, pollVars, chainVars>>
  BY DEF ExtractBatch
<1>g. PICK gasPrice \in GasPrices : \E x \in ExtractBatchDirectly(queue, gasPrice) :
        /\ queue' = x.queue
        /\ posting' = IF x.batch = <<>> THEN posting
                      ELSE [NotPosting EXCEPT !.pc = "submit", !.batch = x.batch,
                              !.fee = FeePerProof(Len(x.batch), gasPrice)]
  BY DEF ExtractBatch
<1>2. PICK x \in ExtractBatchDirectly(queue, gasPrice) :
        /\ queue' = x.queue
        /\ posting' = IF x.batch = <<>> THEN posting
                      ELSE [NotPosting EXCEPT !.pc = "submit", !.batch = x.batch,
                              !.fee = FeePerProof(Len(x.batch), gasPrice)]
  BY <1>g
<1>3. /\ queue \in Seq(Entry) /\ Distinct(queue) /\ gasPrice \in Nat
      /\ posting.batch = <<>> /\ Priced(EntriesOf(queue))
  BY <1>1, BatcherAssumption DEF TypeInv, QueueInv, QueueOK, Distinct, AccountsInv, BatchOK
<1>4. /\ EntriesOf(x.batch) \cup EntriesOf(x.queue) = EntriesOf(queue)
      /\ \A e \in EntriesOf(x.batch), f \in EntriesOf(x.queue) : ~PoppedBefore(e, f) /\ ~SameEntry(e, f)
      /\ Distinct(x.batch)
  BY <1>3, ExtractEntries, ExtractProperties
<1>5. EntriesOf(<<>>) = {} /\ SendersOf(<<>>) = {} /\ Distinct(<<>>)
  BY DEF EntriesOf, Positions, SendersOf, Distinct
<1>6. InFlight = {} /\ \A u \in Users : Flying(u) = {} /\ Settled(u)
  BY <1>1, <1>3, <1>5 DEF InFlight, Flying, Settled
<1>7. InclusionIsReal'
  BY <1>1, NothingIncluded
<1>8. CASE x.batch = <<>>
  <2>1. posting' = posting /\ EntriesOf(queue') = EntriesOf(queue)
    BY <1>2, <1>4, <1>5, <1>8
  <2>2. InFlight' = InFlight
    BY <2>1 DEF InFlight
  <2>3. \A u \in Users : SameView(u) /\ (Settled(u)' => Settled(u))
    BY <1>1, <1>6, <2>1, <2>2, SameViews
  <2>4. BatchOK' /\ BatchInNonceOrder'
    BY <1>1, <2>1, <2>2 DEF AccountsInv, BatchOK, BatchInNonceOrder, chainVars
  <2> QED
    BY <1>1, <1>7, <2>3, <2>4, QuietBlock
<1>9. CASE x.batch # <<>>
  <2>1. /\ posting'.pc = "submit" /\ posting'.batch = x.batch /\ posting'.rest = <<>>
        /\ posting'.fee = FeePerProof(Len(x.batch), gasPrice)
    BY <1>2, <1>9 DEF NotPosting
  <2>2. InFlight' = EntriesOf(x.batch)
    BY <2>1 DEF InFlight
  <2>3. \A u \in Users : Queued(u)' = EntriesFrom(x.queue, u) /\ Flying(u)' = EntriesFrom(x.batch, u)
    BY <1>2, <2>2 DEF Queued, Flying, EntriesFrom
  <2>4. \A u \in Users : /\ Queued(u)' \cup Flying(u)' = Queued(u)
                         /\ u \notin SendersOf(x.batch) => Queued(u)' = Queued(u)
    BY <1>4, <2>3 DEF Queued, EntriesFrom, SendersOf
  <2>5. \A u \in Users : /\ Queued(u)' \cup Flying(u)' = Queued(u) \cup Flying(u)
                         /\ Kept(Queued(u)', Flying(u)') \subseteq Kept(Queued(u), Flying(u))
    BY <1>6, <2>4 DEF Kept
  <2>6. \A u \in Users : Settled(u)' => Settled(u) /\ Queued(u)' = Queued(u)
    BY <1>6, <2>1, <2>4 DEF Settled
  <2>7. BatchOK'
    <3>1. Priced(EntriesOf(queue')) /\ Priced(EntriesOf(x.batch))
      BY <1>2, <1>3, <1>4 DEF Priced
    <3>2. \A d \in EntriesOf(queue'), g \in InFlight' : ~SameEntry(d, g)
      BY <1>2, <1>4, <2>2 DEF SameEntry
    <3>3. AtMost(posting'.fee, EntriesOf(x.batch))
      BY <1>3, <1>9, <2>1, ExtractLimits DEF AtMost, Priced
    <3> QED
      BY <1>4, <1>5, <2>1, <3>1, <3>2, <3>3 DEF BatchOK
  <2>8. BatchInNonceOrder'
    <3>1. SUFFICES ASSUME NEW u \in Users
                   PROVE  NoncesOf(EntriesFrom(x.batch, u)) =
                            ethNonce[u]..(ethNonce[u] + CountOf(x.batch, u) - 1)
      BY <1>1, <2>1 DEF BatchInNonceOrder, chainVars
    <3> DEFINE q == Queued(u)
               f == EntriesFrom(x.batch, u)
               r == EntriesFrom(x.queue, u)
    <3>2. /\ Proofs(q) /\ Account(u) \in UserState /\ ethNonce[u] \in Nat
      BY ViewTyped
    <3>3. f \cup r = q
      BY <1>4 DEF Queued, EntriesFrom
    <3>4. Accounted(q, {}, Known(u), Account(u), ethNonce[u], balance[u])
      BY <1>6 DEF AccountsInv, AccountOK
    <3>5. CASE Known(u)
      <4>1. /\ ethNonce[u] <= Account(u).nonce /\ Account(u).nonce \in Nat
            /\ NoncesOf(q) = ethNonce[u]..(Account(u).nonce - 1)
            /\ FeesFall(q)
        <5>1. q \cup {} = q /\ Kept(q, {}) = q
          BY DEF Kept
        <5> QED
          BY <3>2, <3>4, <3>5, <5>1 DEF Accounted, UserState
      <4>2. \A e, g \in q : e.nonce = g.nonce => e = g
        <5>1. \A e, g \in EntriesOf(queue) : SameEntry(e, g) => e = g
          BY <1>3, EntriesDistinct
        <5> QED
          BY <5>1 DEF Queued, EntriesFrom, SameEntry
      <4>3. \A e \in f, g \in r : ~PoppedBefore(e, g) /\ e.nonce # g.nonce
        BY <1>4 DEF EntriesFrom, SameEntry
      <4>4. Priced(q)
        BY <1>3 DEF Priced, Queued, EntriesFrom
      <4> HIDE DEF q, f, r
      <4>5. NoncesOf(f) = ethNonce[u]..(ethNonce[u] + Cardinality(f) - 1)
        BY <3>2, <3>3, <4>1, <4>2, <4>3, <4>4, TakesFirstNonces
      <4> QED
        BY <4>5 DEF f, CountOf
    <3>6. CASE ~Known(u)
      <4>1. f = {}
        BY <3>3, <3>4, <3>6 DEF Accounted
      <4>2. NoncesOf(f) = {} /\ CountOf(x.batch, u) = 0
        BY <4>1, FS_EmptySet DEF NoncesOf, CountOf
      <4>3. ethNonce[u]..(ethNonce[u] + 0 - 1) = {}
        BY <3>2
      <4> QED
        BY <4>2, <4>3
    <3> QED
      BY <3>5, <3>6
  <2> QED
    BY <1>1, <1>7, <2>5, <2>6, <2>7, <2>8, MoveBlock
<1> QED
  BY <1>8, <1>9

\* Steps of the block task keep the accounts.
LEMMA BlockAccounts ==
  ASSUME TypeInv, AccountsInv, ~Disturbance, BlockStep
  PROVE  AccountsInv'
<1>1. ~VerifiersChanged /\ ~RestoreDrops /\ ~RestoreBlocks
  BY DEF Disturbance, MakesRoom
<1>2. ~InsufficientBalance
  BY NeverShort DEF InsufficientBalance
<1> QED
  BY <1>1, <1>2, ExtractAccounts, ReceiptAccounts, QuietBlockAccounts, RestoreAccounts,
     UpdateAccounts, FinishAccounts DEF BlockStep

\* Nothing of the poller or of the contract's users happens.
LEMMA NobodyElse ==
  ASSUME AccountsInv, ~Disturbance
  PROVE  ~PollStep /\ ~ChainStep
<1>1. poller = None /\ unlockEvents = {} /\ \A u \in Users : ~unlocked[u]
  BY DEF AccountsInv, NobodyUnlocks
<1>2. ~PollStep
  BY <1>1 DEF PollStep, PollEvent, RemoveUserProofs, SkipRemoval
<1>3. ~ChainStep
  BY <1>1 DEF ChainStep, Lock, Withdraw, Disturbance
<1> QED
  BY <1>2, <1>3

\* An undisturbed step keeps the accounts.
LEMMA NextAccounts ==
  TypeInv /\ AccountsInv /\ [Next]_vars /\ [~Disturbance]_vars => AccountsInv'
<1> SUFFICES ASSUME TypeInv, AccountsInv, [Next]_vars, [~Disturbance]_vars PROVE AccountsInv'
  OBVIOUS
<1>1. CASE Next /\ ~Disturbance
  BY <1>1, HandlerAccounts, BlockAccounts, NobodyElse DEF Next
<1>2. CASE UNCHANGED vars
  <2>1. UNCHANGED <<queue, userStates, arcs, handlers, posting, sent, poller, unlockEvents,
                    ethNonce, balance, unlocked, included>>
    BY <1>2 DEF vars, pollVars, chainVars
  <2>2. InFlight' = InFlight
    BY <2>1 DEF InFlight
  <2>3. \A u \in Users : SameView(u) /\ (Settled(u)' => Settled(u))
    BY <2>1, <2>2, SameViews DEF Settled, chainVars
  <2>4. BatchOK' /\ BatchInNonceOrder' /\ InclusionIsReal'
    BY <2>1, <2>2 DEF AccountsInv, BatchOK, BatchInNonceOrder, InclusionIsReal
  <2> QED
    BY <2>1, <2>3, <2>4, QuietBlock DEF pollVars, chainVars
<1> QED
  BY <1>1, <1>2

\* The accounts are right at the start.
LEMMA InitAccounts == Init => AccountsInv
<1> SUFFICES ASSUME Init PROVE AccountsInv
  OBVIOUS
<1>1. /\ queue = <<>> /\ posting = NotPosting /\ handlers = [h \in Handlers |-> IdleHandler]
      /\ userStates = [u \in Users |-> IF u = NonPaying THEN FirstArc ELSE None]
      /\ arcs = [a \in {userStates[u] : u \in Users} \ {None} |-> NewUserState(0)]
      /\ ethNonce = [u \in Users |-> 0] /\ balance = [u \in Users |-> Deposit]
      /\ unlocked = [u \in Users |-> FALSE] /\ included = {} /\ sent = {}
      /\ poller = None /\ unlockEvents = {}
  BY DEF Init
<1>2. EntriesOf(<<>>) = {} /\ SendersOf(<<>>) = {} /\ Distinct(<<>>)
  BY DEF EntriesOf, Positions, SendersOf, Distinct
<1>3. posting.pc = "idle" /\ posting.batch = <<>> /\ posting.rest = <<>>
  BY <1>1 DEF NotPosting
<1>4. InFlight = {}
  BY <1>3 DEF InFlight
<1>5. ASSUME NEW u \in Users PROVE AccountOK(u) /\ SettledOK(u)
  <2>1. Queued(u) = {} /\ Flying(u) = {} /\ ethNonce[u] = 0 /\ balance[u] = Deposit /\ Deposit \in Nat
    BY <1>1, <1>2, <1>4, BatcherAssumption DEF Queued, EntriesFrom, Flying
  <2>2. Account(u) = NewUserState(0)
    BY <1>1 DEF Account, Known
  <2>3. /\ {} \cup {} = {} /\ Kept({}, {}) = {} /\ TotalFees({}) = 0 /\ FeesFall({})
    BY FeesOfNone DEF Kept, FeesFall
  <2>4. Accounted({}, {}, FALSE, NewUserState(0), 0, Deposit)
    BY <2>1, <2>3 DEF Accounted
  <2>5. Accounted({}, {}, TRUE, NewUserState(0), 0, Deposit) /\ Matches(NewUserState(0), {})
    <3>1. \A n \in Nat : Accounted({}, {}, FALSE, NewUserState(0), n, Deposit) =>
             Accounted({}, {}, TRUE, NewUserState(n), n, Deposit) /\ Matches(NewUserState(n), {})
      BY <2>1, AccountedNew
    <3> QED
      BY <2>4, <3>1
  <2>6. Known(u) \in BOOLEAN
    BY DEF Known
  <2> QED
    BY <2>1, <2>2, <2>4, <2>5, <2>6 DEF AccountOK, SettledOK
<1>6. \A h \in Handlers : HandlerOK(h) /\ ReadyOK(h)
  BY <1>1 DEF HandlerOK, ReadyOK, IdleHandler
<1>7. OneMessageEach /\ NobodyUnlocks /\ ChargedBefore /\ InclusionIsReal
  BY <1>1 DEF OneMessageEach, NobodyUnlocks, ChargedBefore, InclusionIsReal, IdleHandler
<1>8. OneStateEach
  BY <1>1 DEF OneStateEach, Known
<1>9. BatchOK /\ BatchInNonceOrder
  BY <1>1, <1>2, <1>3, <1>4 DEF BatchOK, BatchInNonceOrder, Priced
<1> QED
  BY <1>5, <1>6, <1>7, <1>8, <1>9 DEF AccountsInv

\* What the invariant says of the properties the runs check.
LEMMA AccountsImply ==
  ASSUME TypeInv, AccountsInv
  PROVE  /\ NoncesContiguous /\ FeesFollowNonces /\ Solvent /\ StateMatchesQueue
         /\ BatchInNonceOrder /\ NoResubmission /\ InclusionIsReal
<1>1. \A u \in Users : Outstanding(u) = Queued(u) \cup Flying(u)
  BY DEF Outstanding, Queued, Flying
<1>2. \A u \in Users : Accounted(Queued(u), Flying(u), Known(u), Account(u), ethNonce[u], balance[u])
  BY DEF AccountsInv, AccountOK
<1>3. \A u \in Users : Known(u) => Account(u) = arcs[userStates[u]]
  BY ViewTyped
<1>4. NoncesContiguous
  <2>1. ASSUME NEW u \in Users
        PROVE  NoncesOf(Outstanding(u)) = IF userStates[u] = None THEN {}
                                          ELSE ethNonce[u]..(arcs[userStates[u]].nonce - 1)
    <3>1. CASE Known(u)
      BY <1>1, <1>2, <1>3, <3>1 DEF Accounted, Known
    <3>2. CASE ~Known(u)
      <4>1. Outstanding(u) = {}
        BY <1>1, <1>2, <3>2 DEF Accounted
      <4> QED
        BY <3>2, <4>1 DEF Known, NoncesOf
    <3> QED
      BY <3>1, <3>2
  <2> QED
    BY <2>1 DEF NoncesContiguous
<1>5. FeesFollowNonces
  <2>1. SUFFICES ASSUME NEW u \in Users, NEW e \in Queued(u), NEW f \in Queued(u), e.nonce < f.nonce
                 PROVE  e.max_fee >= f.max_fee
    BY DEF FeesFollowNonces, Queued
  <2>2. f.max_fee <= e.max_fee
    BY <1>2, <2>1 DEF Accounted, FeesFall, Kept
  <2>3. e.max_fee \in Nat /\ f.max_fee \in Nat
    BY ViewTyped, ProofsTyped
  <2> QED
    BY <2>2, <2>3
<1>6. Solvent
  <2> SUFFICES ASSUME NEW u \in Users PROVE balance[u] >= TotalFees(Outstanding(u))
    BY DEF Solvent
  <2>1. TotalFees(Outstanding(u)) <= balance[u]
    BY <1>1, <1>2 DEF Accounted
  <2>2. TotalFees(Outstanding(u)) \in Nat /\ balance[u] \in Nat
    BY <1>1, ViewTyped, ProofsUnion
  <2> QED
    BY <2>1, <2>2
<1>7. StateMatchesQueue
  <2> SUFFICES ASSUME NEW u \in Users, userStates[u] # None, u \notin SendersOf(posting.batch)
               PROVE  arcs[userStates[u]] = FromQueue(arcs[userStates[u]], u)
    BY DEF StateMatchesQueue
  <2>1. Known(u) /\ Settled(u) /\ Account(u) \in UserState
    BY ViewTyped DEF Known, Settled
  <2>2. Matches(Account(u), Queued(u))
    BY <2>1 DEF AccountsInv, SettledOK
  <2> QED
    BY <1>3, <2>1, <2>2, MatchesFromQueue
<1>8. BatchInNonceOrder /\ InclusionIsReal
  BY DEF AccountsInv
<1>9. NoResubmission
  <2> SUFFICES ASSUME posting.pc \in {"submit", "sent"}, NEW e \in EntriesOf(posting.batch),
                      <<e.sender, e.nonce>> \in included
               PROVE  FALSE
    BY DEF NoResubmission, KeysOf
  <2>1. e.sender \in Users /\ e.nonce \in Nat
    <3>1. EntriesOf(posting.batch) \in SUBSET Entry
      BY EntriesFinite DEF TypeInv, QueueInv, PostingShape
    <3> QED
      BY <3>1 DEF EntryOf
  <2>2. e.nonce < ethNonce[e.sender]
    BY <2>1 DEF AccountsInv, ChargedBefore
  <2>3. e.nonce \in NoncesOf(EntriesFrom(posting.batch, e.sender))
    BY DEF NoncesOf, EntriesFrom
  <2>4. e.nonce \in ethNonce[e.sender]..(ethNonce[e.sender] + CountOf(posting.batch, e.sender) - 1)
    BY <1>8, <2>1, <2>3 DEF BatchInNonceOrder
  <2>5. ethNonce[e.sender] \in Nat
    BY <2>1, ViewTyped
  <2> QED
    BY <2>1, <2>2, <2>4, <2>5
<1> QED
  BY <1>4, <1>5, <1>6, <1>7, <1>8, <1>9

(***************************************************************************)
(* The theorems: an undisturbed batcher keeps its promises to every user.  *)
(***************************************************************************)
\* The invariant holds throughout an undisturbed behaviour.
LEMMA AccountsHold == Spec /\ Undisturbed => [](TypeInv /\ AccountsInv)
<1>1. Init => TypeInv /\ AccountsInv
  BY InitTyped, InitAccounts
<1>2. (TypeInv /\ AccountsInv) /\ [Next]_vars /\ [~Disturbance]_vars => (TypeInv /\ AccountsInv)'
  BY NextTyped, NextAccounts
<1> QED
  BY <1>1, <1>2, PTL DEF Spec, Undisturbed

\* The proofs of a user that are queued or in a batch whose fate is open carry exactly
\* the nonces between the one on chain and the one its cached state expects.
THEOREM NoncesStayContiguous == Spec /\ Undisturbed => []NoncesContiguous
BY AccountsHold, AccountsImply, PTL

\* In the queue, a later nonce of a user never offers more than an earlier one.
THEOREM FeesStayInOrder == Spec /\ Undisturbed => []FeesFollowNonces
BY AccountsHold, AccountsImply, PTL

\* A batch takes the next nonces of each of its users: the contract, which counts
\* proofs, charges what the users signed.
THEOREM BatchesInNonceOrder == Spec /\ Undisturbed => []BatchInNonceOrder
BY AccountsHold, AccountsImply, PTL

\* The balance of a user covers the fees of everything outstanding.
THEOREM UsersStaySolvent == Spec /\ Undisturbed => []Solvent
BY AccountsHold, AccountsImply, PTL

\* Outside the posting of one of its proofs, the cached state of a user is what
\* update_user_states_from_queue_state would compute.
THEOREM StatesMatchQueue == Spec /\ Undisturbed => []StateMatchesQueue
BY AccountsHold, AccountsImply, PTL

\* No proof that was charged is in a batch again.
THEOREM NothingChargedTwice == Spec /\ Undisturbed => []NoResubmission
BY AccountsHold, AccountsImply, PTL

-----------------------------------------------------------------------------
(***************************************************************************)
(* Inclusion data needs much less: a receipt is taken for a success, so it *)
(* is wrong only if a user of the batch withdraws between the simulation   *)
(* and the receipt.  Evictions, flushes, late transactions and concurrent  *)
(* messages do not matter.                                                 *)
(***************************************************************************)
WithdrawsWhileSent ==
    \E u \in SendersOf(posting.batch) : posting.pc = "sent" /\ Withdraw(u)

\* The inductive invariant: what was simulated can still be charged.
InclusionInv ==
    /\ posting.pc = "sent" => CanCharge
    /\ posting.pc = "updateOk" => KeysOf(EntriesOf(posting.batch)) \subseteq included
    /\ InclusionIsReal

\* A step that touches neither the batch nor the contract.
LEMMA InclusionFrame ==
  ASSUME InclusionInv, UNCHANGED <<posting, balance, included>>, InclusionIsReal'
  PROVE  InclusionInv'
BY DEF InclusionInv, CanCharge

\* Steps of handlers, of the poller and of users.
LEMMA InclusionOthers ==
  ASSUME InclusionInv, ~WithdrawsWhileSent,
         (\E h \in Handlers : HandlerStep(h)) \/ PollStep \/ ChainStep
  PROVE  InclusionInv'
<1>1. ASSUME NEW h \in Handlers, HandlerStep(h) PROVE InclusionInv'
  <2>1. UNCHANGED <<posting, balance, included>>
    BY <1>1 DEF HandlerStep, CheckUser, FetchNonce, InsertUser, GetUser, Validate, Abandon, Enqueue,
                EnqueueEvicting, EvictionPanic, EvictionBlocks, Replace, ReplaceInvalid, chainVars
  <2>2. CASE Abandon(h) \/ ReplaceInvalid(h)
    BY <2>1, <2>2, InclusionFrame, NothingRejectedIncluded
  <2>3. CASE ~(Abandon(h) \/ ReplaceInvalid(h))
    <3>1. sent' = {} \/ \E S : sent' = Tell(S, "UnderpricedProof") \/ sent' = Tell(S, "ProofReplaced")
      BY <1>1, <2>3 DEF HandlerStep, CheckUser, FetchNonce, InsertUser, GetUser, Validate, Enqueue,
                        EnqueueEvicting, EvictionPanic, EvictionBlocks, Replace
    <3> QED
      BY <2>1, <3>1, InclusionFrame, NothingIncluded
  <2> QED
    BY <2>2, <2>3
<1>2. ASSUME PollStep PROVE InclusionInv'
  <2>1. UNCHANGED <<posting, balance, included>>
    BY <1>2 DEF PollStep, PollEvent, RemoveUserProofs, SkipRemoval, chainVars
  <2>2. sent' = {} \/ \E S : sent' = Tell(S, "UserFundsUnlocked")
    BY <1>2 DEF PollStep, PollEvent, RemoveUserProofs, SkipRemoval
  <2> QED
    BY <2>1, <2>2, InclusionFrame, NothingIncluded
<1>3. ASSUME NEW u \in Users, Unlock(u) \/ Lock(u) PROVE InclusionInv'
  BY <1>3, InclusionFrame, NothingIncluded DEF Unlock, Lock
<1>4. ASSUME NEW u \in Users, Withdraw(u) PROVE InclusionInv'
  <2>1. UNCHANGED <<posting, included>> /\ sent' = {}
        /\ balance' = [balance EXCEPT ![u] = 0]
    BY <1>4 DEF Withdraw
  <2>2. posting.pc = "sent" => u \notin SendersOf(posting.batch)
    BY <1>4 DEF WithdrawsWhileSent
  <2>3. posting.pc = "sent" => \A v \in SendersOf(posting.batch) : balance'[v] = balance[v]
    BY <2>1, <2>2
  <2>4. posting.pc = "sent" => CanCharge'
    BY <2>1, <2>3 DEF InclusionInv, CanCharge
  <2> QED
    BY <2>1, <2>4, NothingIncluded DEF InclusionInv
<1> QED
  BY <1>1, <1>2, <1>3, <1>4 DEF ChainStep

\* Steps of the block task.
LEMMA InclusionBlock ==
  ASSUME PostingShape, InclusionInv, BlockStep
  PROVE  InclusionInv'
<1>d. DOMAIN posting = {"pc", "batch", "fee", "rest", "todo"}
  BY DEF PostingShape
<1>1. ASSUME TaskReceipt PROVE InclusionInv'
  <2>1. posting.pc = "sent" /\ posting'.pc = "updateOk" /\ posting'.batch = posting.batch /\ sent' = {}
    BY <1>1, <1>d DEF TaskReceipt
  <2>2. ChargeBatch
    BY <1>1, <2>1 DEF TaskReceipt, InclusionInv
  <2>3. KeysOf(EntriesOf(posting'.batch)) \subseteq included'
    BY <2>1, <2>2 DEF ChargeBatch
  <2> QED
    BY <2>1, <2>3, NothingIncluded DEF InclusionInv
<1>2. ASSUME SendTask PROVE InclusionInv'
  <2>1. /\ posting'.pc = "sent" /\ posting'.batch = posting.batch /\ posting'.fee = posting.fee
        /\ CanCharge /\ UNCHANGED balance /\ sent' = {}
    BY <1>2, <1>d DEF SendTask, chainVars
  <2> QED
    BY <2>1, NothingIncluded DEF InclusionInv, CanCharge
<1>3. ASSUME FinishPosting PROVE InclusionInv'
  <2>1. /\ posting.pc = "updateOk" /\ posting'.pc = "idle" /\ UNCHANGED included
        /\ sent' = Tell(EntriesOf(posting.batch), "BatchInclusionData")
    BY <1>3 DEF FinishPosting, NotPosting, chainVars
  <2>2. InclusionIsReal'
    BY <2>1 DEF InclusionInv, InclusionIsReal, Tell, Message, KeysOf
  <2> QED
    BY <2>1, <2>2 DEF InclusionInv
<1>4. ASSUME NEW u \in Users, UpdateUser(u) PROVE InclusionInv'
  <2>1. /\ posting'.pc = posting.pc /\ posting.pc # "sent" /\ posting'.batch = posting.batch
        /\ UNCHANGED included /\ sent' = {}
    BY <1>4, <1>d DEF UpdateUser, chainVars
  <2> QED
    BY <2>1, NothingIncluded DEF InclusionInv
<1>5. ASSUME ExtractBatch PROVE InclusionInv'
  <2>1. posting.pc = "idle" /\ sent' = {}
        /\ (posting' = posting \/ posting'.pc = "submit")
    BY <1>5 DEF ExtractBatch, NotPosting
  <2> QED
    BY <2>1, NothingIncluded DEF InclusionInv
<1>6. ASSUME \/ SubmissionFails \/ RestoreProof \/ RestoreDrops \/ RestoreBlocks \/ RestoreEnds
             \/ FinishFailedPosting
      PROVE  InclusionInv'
  <2>1. posting'.pc \in {"restore", "stuck", "updateFailed", "idle"} /\ sent' = {}
    <3>1. SubmissionFails \/ RestoreEnds \/ RestoreBlocks =>
             posting'.pc \in {"restore", "stuck", "updateFailed"} /\ sent' = {}
      BY <1>d DEF SubmissionFails, RestoreEnds, RestoreBlocks
    <3>2. RestoreProof => posting'.pc = "restore" /\ sent' = {}
      BY <1>d DEF RestoreProof
    <3>3. RestoreDrops => posting'.pc = "restore" /\ sent' = {}
      BY <1>d DEF RestoreDrops
    <3>4. FinishFailedPosting => posting'.pc = "idle" /\ sent' = {}
      BY DEF FinishFailedPosting, NotPosting
    <3> QED
      BY <1>6, <3>1, <3>2, <3>3, <3>4
  <2> QED
    BY <2>1, NothingIncluded DEF InclusionInv
<1>7. ASSUME InsufficientBalance PROVE InclusionInv'
  <2>1. posting'.pc = "idle" /\ sent' = ResetMessages(EntriesOf(posting.batch))
    BY <1>7 DEF InsufficientBalance, FlushQueue, NotPosting
  <2> QED
    BY <2>1, NothingIncluded DEF InclusionInv, ResetMessages
<1>8. ASSUME VerifiersChanged PROVE InclusionInv'
  BY <1>8, NothingIncluded, InclusionFrame DEF VerifiersChanged, FlushQueue, ResetMessages, chainVars
<1> QED
  BY <1>1, <1>2, <1>3, <1>4, <1>5, <1>6, <1>7, <1>8 DEF BlockStep

\* Inclusion data goes out only for proofs that are on chain, whatever else happens,
\* as long as no user of a batch withdraws between its simulation and its receipt.
THEOREM InclusionsAreReal ==
  Spec /\ [][~WithdrawsWhileSent]_vars => []InclusionIsReal
<1>1. Init => InclusionInv
  BY DEF Init, InclusionInv, NotPosting, InclusionIsReal
<1>2. TypeInv /\ InclusionInv /\ [Next]_vars /\ [~WithdrawsWhileSent]_vars => InclusionInv'
  <2> SUFFICES ASSUME TypeInv, InclusionInv, [Next]_vars, [~WithdrawsWhileSent]_vars
               PROVE  InclusionInv'
    OBVIOUS
  <2>1. CASE Next /\ ~WithdrawsWhileSent
    <3>1. PostingShape
      BY DEF TypeInv, QueueInv
    <3> QED
      BY <2>1, <3>1, InclusionOthers, InclusionBlock DEF Next
  <2>2. CASE UNCHANGED vars
    BY <2>2, InclusionFrame DEF vars, chainVars, InclusionIsReal, InclusionInv
  <2> QED
    BY <2>1, <2>2
<1>3. InclusionInv => InclusionIsReal
  BY DEF InclusionInv
<1> QED
  BY <1>1, <1>2, <1>3, InitTyped, NextTyped, PTL DEF Spec

-----------------------------------------------------------------------------
(***************************************************************************)
(* Proofs that get lost without a word: the steps LosesSilently names are  *)
(* the only ones.  The argument goes place by place: what the queue, the   *)
(* batch and a handler held and do not hold any more.                      *)
(***************************************************************************)
Told(k) == \E m \in sent' : <<m.user, m.nonce>> = k

QueueKeys == KeysOf(EntriesOf(queue))
BatchKeys == KeysOf(Posted)
KeyOf(h) == <<handlers[h].user, handlers[h].nonce>>

QueueTold == \A k \in QueueKeys \ QueueKeys' : Told(k) \/ k \in BatchKeys' \ BatchKeys
BatchTold == \A k \in BatchKeys \ BatchKeys' : Told(k) \/ k \in QueueKeys' \ QueueKeys
HandlerTold(h) ==
    HoldsUserLock(h) =>
        \/ HoldsUserLock(h)' /\ KeyOf(h)' = KeyOf(h)
        \/ Told(KeyOf(h))
        \/ KeyOf(h) \in QueueKeys' \ QueueKeys

\* The three together are what the property says of a step.
LEMMA PlacesTold ==
  ASSUME QueueTold, BatchTold, \A h \in Handlers : HandlerTold(h)
  PROVE  LossIsTold
<1> SUFFICES ASSUME NEW x \in Held, x \notin Held'
             PROVE  \/ \E y \in Held' \ Held : y[2] = x[2]
                    \/ Told(x[2])
  BY DEF LossIsTold, Told
<1>q. \A k : <<"queue", k>> \in Held <=> k \in QueueKeys
  BY DEF Held, QueueKeys
<1>b. \A k : <<"batch", k>> \in Held <=> k \in BatchKeys
  BY DEF Held, BatchKeys
<1>r. \A k : <<"queue", k>> \in Held' <=> k \in QueueKeys'
  BY DEF Held, QueueKeys
<1>c. \A k : <<"batch", k>> \in Held' <=> k \in BatchKeys'
  BY DEF Held, BatchKeys
<1>1. ASSUME NEW k \in QueueKeys, x = <<"queue", k>>
      PROVE  (\E y \in Held' \ Held : y[2] = x[2]) \/ Told(x[2])
  <2>1. k \notin QueueKeys' /\ x[2] = k
    BY <1>1, <1>r
  <2>2. CASE Told(k)
    BY <2>1, <2>2
  <2>3. CASE k \in BatchKeys' \ BatchKeys
    <3>1. <<"batch", k>> \in Held' \ Held /\ <<"batch", k>>[2] = x[2]
      BY <1>b, <1>c, <2>1, <2>3
    <3> QED
      BY <3>1
  <2> QED
    BY <1>1, <2>1, <2>2, <2>3 DEF QueueTold
<1>2. ASSUME NEW k \in BatchKeys, x = <<"batch", k>>
      PROVE  (\E y \in Held' \ Held : y[2] = x[2]) \/ Told(x[2])
  <2>1. k \notin BatchKeys' /\ x[2] = k
    BY <1>2, <1>c
  <2>2. CASE Told(k)
    BY <2>1, <2>2
  <2>3. CASE k \in QueueKeys' \ QueueKeys
    <3>1. <<"queue", k>> \in Held' \ Held /\ <<"queue", k>>[2] = x[2]
      BY <1>q, <1>r, <2>1, <2>3
    <3> QED
      BY <3>1
  <2> QED
    BY <1>2, <2>1, <2>2, <2>3 DEF BatchTold
<1>3. ASSUME NEW h \in Handlers, HoldsUserLock(h), x = <<"handler", KeyOf(h), h>>
      PROVE  (\E y \in Held' \ Held : y[2] = x[2]) \/ Told(x[2])
  <2>1. x[2] = KeyOf(h)
    BY <1>3
  <2>2. ~(HoldsUserLock(h)' /\ KeyOf(h)' = KeyOf(h))
    BY <1>3 DEF Held, KeyOf
  <2>3. CASE Told(KeyOf(h))
    BY <2>1, <2>3
  <2>4. CASE KeyOf(h) \in QueueKeys' \ QueueKeys
    <3>1. <<"queue", KeyOf(h)>> \in Held' \ Held /\ <<"queue", KeyOf(h)>>[2] = x[2]
      BY <1>q, <1>r, <2>1, <2>4
    <3> QED
      BY <3>1
  <2> QED
    BY <1>3, <2>2, <2>3, <2>4 DEF HandlerTold
<1> QED
  BY <1>1, <1>2, <1>3 DEF Held, QueueKeys, BatchKeys, KeyOf

\* A message to the clients of a set of proofs.
LEMMA TellTells ==
  ASSUME NEW S, NEW kind, Tell(S, kind) \subseteq sent'
  PROVE  \A k \in KeysOf(S) : Told(k)
<1> SUFFICES ASSUME NEW e \in S PROVE Told(<<e.sender, e.nonce>>)
  BY DEF KeysOf
<1>1. Message(e, kind) \in sent'
  BY DEF Tell
<1>2. Message(e, kind).user = e.sender /\ Message(e, kind).nonce = e.nonce
  BY DEF Message
<1> QED
  BY <1>1, <1>2 DEF Told

\* The key of the proof of a handler.
LEMMA KeyOfProof ==
  ASSUME NEW h, NEW S, ProofOf(h) \in S
  PROVE  KeyOf(h) \in KeysOf(S)
<1>1. ProofOf(h).sender = handlers[h].user /\ ProofOf(h).nonce = handlers[h].nonce
  BY DEF ProofOf, NewEntry
<1> QED
  BY <1>1 DEF KeyOf, KeysOf

\* A push keeps a proof of every sender and nonce there is, and adds the new one's.
LEMMA PushKeeps ==
  ASSUME NEW q \in Seq(Entry), NEW e \in Entry
  PROVE  \A g \in EntriesOf(q) \cup {e} : \E f \in EntriesOf(Push(q, e)) : SameEntry(g, f)
<1>1. CASE Contains(q, e)
  <2> DEFINE p == [i \in Positions(q) |->
                      IF SameEntry(q[i], e) THEN [q[i] EXCEPT !.prio = e.prio] ELSE q[i]]
  <2>1. Len(q) \in Nat /\ \A i \in Positions(q) : q[i] \in Entry
    BY DEF Positions
  <2>2. \A i \in Positions(q) : p[i] \in Entry /\ SameEntry(q[i], p[i])
    BY <2>1 DEF SameEntry, EntryOf
  <2>3. p \in [1..Len(q) -> Entry]
    BY <2>2 DEF Positions
  <2>4. Len(p) = Len(q)
    <3> HIDE DEF p
    <3> QED
      BY <2>1, <2>3, FunctionIsSeq
  <2>5. Push(q, e) = p
    BY <1>1 DEF Push
  <2> HIDE DEF p
  <2>6. \A i \in Positions(q) : p[i] \in EntriesOf(Push(q, e))
    BY <2>4, <2>5 DEF EntriesOf, Positions
  <2>7. ASSUME NEW i \in Positions(q)
        PROVE  \E f \in EntriesOf(Push(q, e)) : SameEntry(q[i], f)
    BY <2>2, <2>6
  <2>8. PICK i \in Positions(q) : SameEntry(q[i], e)
    BY <1>1 DEF Contains
  <2>9. \E f \in EntriesOf(Push(q, e)) : SameEntry(e, f)
    BY <2>7, <2>8 DEF SameEntry
  <2> QED
    BY <2>7, <2>9 DEF EntriesOf
<1>2. CASE ~Contains(q, e)
  <2>1. \A f \in EntriesOf(q) : ~SameEntry(f, e)
    BY <1>2 DEF Contains, EntriesOf
  <2>2. EntriesOf(Push(q, e)) = EntriesOf(q) \cup {e}
    BY <2>1, PushEntries
  <2> QED
    BY <2>2 DEF SameEntry
<1> QED
  BY <1>1, <1>2

\* remove_user_proofs keeps all the proofs of the other users.
LEMMA RemoveKeeps ==
  ASSUME NEW q \in Seq(Entry), NEW u,
         NEW r \in Arrangements({e \in EntriesOf(q) : e.sender # u})
  PROVE  {e \in EntriesOf(q) : e.sender # u} \subseteq EntriesOf(r)
<1> DEFINE S == {e \in EntriesOf(q) : e.sender # u}
<1>1. IsFiniteSet(S) /\ Cardinality(S) \in Nat
  BY EntriesFinite, FS_Subset, FS_CardinalityType
<1>2. r \in [1..Cardinality(S) -> S] /\ \A i, j \in DOMAIN r : i # j => r[i] # r[j]
  BY DEF Arrangements
<1> HIDE DEF S
<1>3. r \in Injection(1..Cardinality(S), S)
  BY <1>2 DEF Injection, IsInjective
<1>4. Cardinality(1..Cardinality(S)) = Cardinality(S)
  BY <1>1, FS_Interval
<1>5. r \in Surjection(1..Cardinality(S), S)
  BY <1>1, <1>3, <1>4, FS_Injection
<1>6. Len(r) = Cardinality(S)
  BY <1>1, <1>2, FunctionIsSeq
<1>7. \A e \in S : \E i \in 1..Len(r) : r[i] = e
  BY <1>5, <1>6 DEF Surjection
<1> QED
  BY <1>7 DEF EntriesOf, Positions, S

\* The keys of a queue after a push.
LEMMA PushKeys ==
  ASSUME NEW q \in Seq(Entry), NEW e \in Entry
  PROVE  KeysOf(EntriesOf(q) \cup {e}) \subseteq KeysOf(EntriesOf(Push(q, e)))
<1>1. ASSUME NEW g \in EntriesOf(q) \cup {e}
      PROVE  <<g.sender, g.nonce>> \in KeysOf(EntriesOf(Push(q, e)))
  <2>1. PICK f \in EntriesOf(Push(q, e)) : SameEntry(g, f)
    BY PushKeeps
  <2> QED
    BY <2>1 DEF SameEntry, KeysOf
<1> QED
  BY <1>1 DEF KeysOf

\* A queue without an entry equal to e does not have its key.
LEMMA NewKey ==
  ASSUME NEW q, NEW e, ~Contains(q, e)
  PROVE  <<e.sender, e.nonce>> \notin KeysOf(EntriesOf(q))
BY DEF Contains, SameEntry, KeysOf, EntriesOf

\* A step that does not touch the queue or the posting.
LEMMA UntouchedTold ==
  ASSUME UNCHANGED <<queue, posting>>
  PROVE  QueueTold /\ BatchTold
<1>1. QueueKeys' = QueueKeys /\ BatchKeys' = BatchKeys
  BY DEF QueueKeys, BatchKeys, Posted, InFlight
<1> QED
  BY <1>1 DEF QueueTold, BatchTold

\* A step that does not touch the posting.
LEMMA BatchUntouched ==
  ASSUME posting' = posting
  PROVE  BatchTold
BY DEF BatchTold, BatchKeys, Posted, InFlight

\* A step that does not touch the handlers.
LEMMA HandlersUntouched ==
  ASSUME handlers' = handlers
  PROVE  \A h \in Handlers : HandlerTold(h)
BY DEF HandlerTold, HoldsUserLock, KeyOf

\* A step of one handler.
LEMMA OneHandlerTold ==
  ASSUME NEW h \in Handlers, \A g \in Handlers \ {h} : handlers'[g] = handlers[g],
         HandlerTold(h)
  PROVE  \A g \in Handlers : HandlerTold(g)
BY DEF HandlerTold, HoldsUserLock, KeyOf

\* Steps of handlers up to validation, and those that reject the proof.
LEMMA QuietHandlerTold ==
  ASSUME TypeInv, NEW h \in Handlers,
         \/ \E u \in Users : CheckUser(h, u)
         \/ FetchNonce(h) \/ InsertUser(h) \/ GetUser(h) \/ Validate(h) \/ Abandon(h)
         \/ ReplaceInvalid(h)
  PROVE  LossIsTold
<1>1. HandlersShape
  BY DEF TypeInv, QueueInv
<1>2. QueueTold /\ BatchTold
  BY UntouchedTold DEF CheckUser, FetchNonce, InsertUser, GetUser, Validate, Abandon, ReplaceInvalid
<1>3. \A g \in Handlers \ {h} : handlers'[g] = handlers[g]
  BY <1>1 DEF CheckUser, FetchNonce, InsertUser, GetUser, Validate, Abandon, ReplaceInvalid,
              HandlersShape
<1>4. HandlerTold(h)
  <2>1. CASE \/ \E u \in Users : CheckUser(h, u)
             \/ FetchNonce(h) \/ InsertUser(h) \/ GetUser(h) \/ Validate(h)
    BY <2>1 DEF CheckUser, FetchNonce, InsertUser, GetUser, Validate, HandlerTold, HoldsUserLock
  <2>2. CASE Abandon(h) \/ ReplaceInvalid(h)
    <3>1. HoldsUserLock(h) => Tell({ProofOf(h)}, "Rejected") \subseteq sent'
      BY <2>2 DEF Abandon, ReplaceInvalid
    <3>2. HoldsUserLock(h) => \A k \in KeysOf({ProofOf(h)}) : Told(k)
      BY <3>1, TellTells
    <3>3. KeyOf(h) \in KeysOf({ProofOf(h)})
      BY KeyOfProof
    <3> QED
      BY <3>2, <3>3 DEF HandlerTold
  <2> QED
    BY <2>1, <2>2
<1> QED
  BY <1>2, <1>3, <1>4, OneHandlerTold, PlacesTold

\* Steps of handlers that push their proof.
LEMMA PushingTold ==
  ASSUME TypeInv, NEW h \in Handlers, Enqueue(h) \/ EnqueueEvicting(h) \/ Replace(h),
         ~PushSwallows
  PROVE  LossIsTold
<1>1. queue \in Seq(Entry) /\ Distinct(queue) /\ HandlersShape
  BY DEF TypeInv, QueueInv, QueueOK, Distinct
<1>2. posting' = posting /\ \A g \in Handlers \ {h} : handlers'[g] = handlers[g]
  BY <1>1 DEF Enqueue, EnqueueEvicting, Replace, HandlersShape
<1>3. ProofOf(h) \in Entry
  BY <1>1, ProofOfType DEF Enqueue, EnqueueEvicting, Replace, ReplacementMayProceed
<1>4. ProofOf(h).sender = handlers[h].user /\ ProofOf(h).nonce = handlers[h].nonce
  BY DEF ProofOf, NewEntry
<1>5. CASE Enqueue(h)
  <2>1. queue' = Push(queue, ProofOf(h)) /\ ~Contains(queue, ProofOf(h))
    BY <1>5 DEF Enqueue, PushSwallows
  <2>2. KeysOf(EntriesOf(queue) \cup {ProofOf(h)}) \subseteq QueueKeys'
    BY <1>1, <1>3, <2>1, PushKeys DEF QueueKeys
  <2>3. QueueTold
    BY <2>2 DEF QueueTold, QueueKeys, KeysOf
  <2>4. KeyOf(h) \in QueueKeys' \ QueueKeys
    BY <1>4, <2>1, <2>2, NewKey, KeyOfProof DEF QueueKeys, KeyOf
  <2>5. HandlerTold(h)
    BY <2>4 DEF HandlerTold
  <2> QED
    BY <1>2, <2>3, <2>5, BatchUntouched, OneHandlerTold, PlacesTold
<1>6. ASSUME NEW i \in Positions(queue), NEW kind,
             queue' = Push(SwapRemove(queue, i), ProofOf(h)),
             sent' = Tell({queue[i]}, kind)
      PROVE  QueueTold /\ KeyOf(h) \in QueueKeys' /\ Told(<<queue[i].sender, queue[i].nonce>>)
  <2>1. SwapRemove(queue, i) \in Seq(Entry)
    BY <1>1, SwapRemoveProperties
  <2>2. EntriesOf(SwapRemove(queue, i)) = EntriesOf(queue) \ {queue[i]}
    BY <1>1, SwapRemoveEntries
  <2>3. KeysOf((EntriesOf(queue) \ {queue[i]}) \cup {ProofOf(h)}) \subseteq QueueKeys'
    BY <1>3, <1>6, <2>1, <2>2, PushKeys DEF QueueKeys
  <2>4. \A k \in KeysOf({queue[i]}) : Told(k)
    BY <1>6, TellTells
  <2>5. QueueTold
    <3> SUFFICES ASSUME NEW e \in EntriesOf(queue), <<e.sender, e.nonce>> \notin QueueKeys'
                 PROVE  Told(<<e.sender, e.nonce>>)
      BY DEF QueueTold, QueueKeys, KeysOf
    <3>1. e = queue[i]
      BY <2>3 DEF KeysOf
    <3> QED
      BY <2>4, <3>1 DEF KeysOf
  <2>6. KeyOf(h) \in QueueKeys'
    BY <2>3, KeyOfProof
  <2> QED
    BY <2>4, <2>5, <2>6 DEF KeysOf
<1>7. CASE EnqueueEvicting(h)
  <2>1. PICK i \in Positions(queue) :
          /\ queue' = Push(SwapRemove(queue, i), ProofOf(h))
          /\ sent' = Tell({queue[i]}, "UnderpricedProof")
    BY <1>7 DEF EnqueueEvicting
  <2>2. ~Contains(queue, ProofOf(h))
    BY <1>7 DEF PushSwallows
  <2>3. QueueTold /\ KeyOf(h) \in QueueKeys'
    BY <1>6, <2>1
  <2>4. KeyOf(h) \notin QueueKeys
    BY <1>4, <2>2, NewKey DEF QueueKeys, KeyOf
  <2>5. HandlerTold(h)
    BY <2>3, <2>4 DEF HandlerTold
  <2> QED
    BY <1>2, <2>3, <2>5, BatchUntouched, OneHandlerTold, PlacesTold
<1>8. CASE Replace(h)
  <2> DEFINE i == EntryAt(queue, handlers[h].user, handlers[h].nonce)
  <2>1. /\ queue' = Push(SwapRemove(queue, i), ProofOf(h))
        /\ sent' = Tell({queue[i]}, "ProofReplaced")
    BY <1>8 DEF Replace
  <2>2. i \in Positions(queue) /\ queue[i].sender = handlers[h].user
        /\ queue[i].nonce = handlers[h].nonce
    BY <1>8 DEF Replace, ReplacementMayProceed, HasEntry, EntryAt, EntriesOf
  <2> HIDE DEF i
  <2>3. QueueTold /\ Told(KeyOf(h))
    BY <1>6, <2>1, <2>2 DEF KeyOf
  <2>4. HandlerTold(h)
    BY <2>3 DEF HandlerTold
  <2> QED
    BY <1>2, <2>3, <2>4, BatchUntouched, OneHandlerTold, PlacesTold
<1> QED
  BY <1>5, <1>7, <1>8

\* Steps of the posting task up to its failure.
LEMMA PostTold ==
  ASSUME TypeInv, ExtractBatch \/ SendTask \/ TaskReceipt \/ SubmissionFails
  PROVE  LossIsTold
<1>1. queue \in Seq(Entry) /\ Distinct(queue)
  BY DEF TypeInv, QueueInv, QueueOK, Distinct
<1>2. DOMAIN posting = {"pc", "batch", "fee", "rest", "todo"}
  BY DEF TypeInv, QueueInv, PostingShape
<1>h. \A h \in Handlers : HandlerTold(h)
  BY HandlersUntouched DEF ExtractBatch, SendTask, TaskReceipt, SubmissionFails
<1>3. CASE ExtractBatch
  <2>1. PICK gasPrice \in GasPrices : \E x \in ExtractBatchDirectly(queue, gasPrice) :
          /\ queue' = x.queue
          /\ posting' = IF x.batch = <<>> THEN posting
                        ELSE [NotPosting EXCEPT !.pc = "submit", !.batch = x.batch,
                                !.fee = FeePerProof(Len(x.batch), gasPrice)]
    BY <1>3 DEF ExtractBatch
  <2>2. PICK x \in ExtractBatchDirectly(queue, gasPrice) :
          /\ queue' = x.queue
          /\ posting' = IF x.batch = <<>> THEN posting
                        ELSE [NotPosting EXCEPT !.pc = "submit", !.batch = x.batch,
                                !.fee = FeePerProof(Len(x.batch), gasPrice)]
    BY <2>1
  <2>3. EntriesOf(x.batch) \cup EntriesOf(x.queue) = EntriesOf(queue)
    BY <1>1, ExtractEntries
  <2>4. BatchKeys = {}
    BY <1>3 DEF ExtractBatch, BatchKeys, Posted, InFlight, KeysOf
  <2>5. x.batch = <<>> => EntriesOf(x.batch) = {}
    BY DEF EntriesOf, Positions
  <2>6. x.batch # <<>> => posting'.pc = "submit" /\ posting'.batch = x.batch
    BY <2>2 DEF NotPosting
  <2>7. KeysOf(EntriesOf(x.batch)) \subseteq BatchKeys' /\ QueueKeys' = KeysOf(EntriesOf(x.queue))
    BY <2>2, <2>5, <2>6 DEF BatchKeys, QueueKeys, Posted, InFlight, KeysOf
  <2>8. QueueKeys \subseteq QueueKeys' \cup BatchKeys'
    BY <2>3, <2>7 DEF QueueKeys, KeysOf
  <2>9. QueueTold /\ BatchTold
    BY <2>4, <2>8 DEF QueueTold, BatchTold
  <2> QED
    BY <1>h, <2>9, PlacesTold
<1>4. CASE SendTask \/ TaskReceipt \/ SubmissionFails
  <2>1. /\ posting.pc \in {"submit", "sent"} /\ queue' = queue
        /\ \/ posting'.pc \in {"sent", "updateOk"} /\ posting'.batch = posting.batch
           \/ posting'.pc = "restore" /\ posting'.rest = posting.batch
    <3>1. SendTask => posting'.pc = "sent" /\ posting'.batch = posting.batch
      BY <1>2 DEF SendTask
    <3>2. TaskReceipt => posting'.pc = "updateOk" /\ posting'.batch = posting.batch
      BY <1>2 DEF TaskReceipt
    <3>3. SubmissionFails => posting'.pc = "restore" /\ posting'.rest = posting.batch
      BY <1>2 DEF SubmissionFails
    <3> QED
      BY <1>4, <3>1, <3>2, <3>3 DEF SendTask, TaskReceipt, SubmissionFails
  <2>2. Posted' = Posted
    BY <2>1 DEF Posted, InFlight
  <2>3. QueueTold /\ BatchTold
    BY <2>1, <2>2 DEF QueueTold, BatchTold, QueueKeys, BatchKeys
  <2> QED
    BY <1>h, <2>3, PlacesTold
<1> QED
  BY <1>3, <1>4

\* A proof of a failed batch goes back to the queue.
LEMMA RestoreTold ==
  ASSUME TypeInv, RestoreProof, ~RestoreSwallows
  PROVE  LossIsTold
<1>1. queue \in Seq(Entry) /\ posting.rest \in Seq(Entry)
  BY DEF TypeInv, QueueInv, PostingShape
<1>2. DOMAIN posting = {"pc", "batch", "fee", "rest", "todo"}
  BY DEF TypeInv, QueueInv, PostingShape
<1> DEFINE e == Head(posting.rest)
           back == [e EXCEPT !.prio = e.max_fee]
<1>3. /\ posting.pc = "restore" /\ posting.rest # <<>> /\ queue' = Push(queue, back)
      /\ posting'.pc = "restore" /\ posting'.rest = Tail(posting.rest) /\ handlers' = handlers
  BY <1>2 DEF RestoreProof
<1>4. e \in Entry /\ ~Contains(queue, e)
  BY <1>1, <1>3 DEF RestoreSwallows
<1>5. back \in Entry /\ back.sender = e.sender /\ back.nonce = e.nonce
  BY <1>4 DEF EntryOf
<1>6. EntriesOf(posting.rest) \subseteq {e} \cup EntriesOf(Tail(posting.rest))
  <2> SUFFICES ASSUME NEW i \in 1..Len(posting.rest), i # 1
               PROVE  posting.rest[i] \in EntriesOf(Tail(posting.rest))
    BY <1>1, <1>3 DEF EntriesOf, Positions
  <2>1. i - 1 \in 1..Len(Tail(posting.rest)) /\ Tail(posting.rest)[i - 1] = posting.rest[i]
    BY <1>1, <1>3
  <2> QED
    BY <2>1 DEF EntriesOf, Positions
<1> HIDE DEF e, back
<1>7. KeysOf(EntriesOf(queue) \cup {back}) \subseteq QueueKeys'
  BY <1>1, <1>3, <1>5, PushKeys DEF QueueKeys
<1>8. <<e.sender, e.nonce>> \in QueueKeys' \ QueueKeys /\ QueueKeys \subseteq QueueKeys'
  BY <1>4, <1>5, <1>7, NewKey DEF QueueKeys, KeysOf
<1>9. BatchKeys \subseteq {<<e.sender, e.nonce>>} \cup BatchKeys'
  BY <1>3, <1>6 DEF BatchKeys, Posted, InFlight, KeysOf
<1>10. QueueTold /\ BatchTold
  BY <1>8, <1>9 DEF QueueTold, BatchTold
<1> QED
  BY <1>3, <1>10, HandlersUntouched, PlacesTold

\* A flush tells the clients of everything it removes.
LEMMA FlushTold ==
  ASSUME TypeInv, InsufficientBalance \/ VerifiersChanged
  PROVE  LossIsTold
<1>h. \A h \in Handlers : HandlerTold(h)
  BY HandlersUntouched DEF InsufficientBalance, VerifiersChanged
<1>1. CASE InsufficientBalance
  <2>1. /\ sent' = Tell(EntriesOf(queue) \cup EntriesOf(posting.batch), "BatchReset")
        /\ posting.pc = "submit"
    BY <1>1 DEF InsufficientBalance, FlushQueue, ResetMessages
  <2>2. \A k \in KeysOf(EntriesOf(queue) \cup EntriesOf(posting.batch)) : Told(k)
    BY <2>1, TellTells
  <2>3. QueueKeys \cup BatchKeys = KeysOf(EntriesOf(queue) \cup EntriesOf(posting.batch))
    BY <2>1 DEF QueueKeys, BatchKeys, Posted, InFlight, KeysOf
  <2>4. QueueTold /\ BatchTold
    BY <2>2, <2>3 DEF QueueTold, BatchTold
  <2> QED
    BY <1>h, <2>4, PlacesTold
<1>2. CASE VerifiersChanged
  <2>1. sent' = Tell(EntriesOf(queue) \cup {}, "BatchReset") /\ posting' = posting
    BY <1>2 DEF VerifiersChanged, FlushQueue, ResetMessages
  <2>2. \A k \in QueueKeys : Told(k)
    BY <2>1, TellTells DEF QueueKeys
  <2>3. QueueTold
    BY <2>2 DEF QueueTold
  <2> QED
    BY <1>h, <2>1, <2>3, BatchUntouched, PlacesTold
<1> QED
  BY <1>1, <1>2

\* The end of a recovery, and the end of a posting.
LEMMA FinishTold ==
  ASSUME TypeInv,
         \/ RestoreEnds \/ FinishPosting \/ FinishFailedPosting
         \/ \E u \in Users : UpdateUser(u)
  PROVE  LossIsTold
<1>1. DOMAIN posting = {"pc", "batch", "fee", "rest", "todo"}
  BY DEF TypeInv, QueueInv, PostingShape
<1>h. \A h \in Handlers : HandlerTold(h)
  BY HandlersUntouched DEF RestoreEnds, FinishPosting, FinishFailedPosting, UpdateUser
<1>q. queue' = queue
  BY DEF RestoreEnds, FinishPosting, FinishFailedPosting, UpdateUser
<1>t. QueueTold
  BY <1>q DEF QueueTold, QueueKeys
<1>2. CASE RestoreEnds
  <2>1. posting.pc = "restore" /\ posting.rest = <<>>
    BY <1>2 DEF RestoreEnds
  <2>2. EntriesOf(posting.rest) = {}
    BY <2>1 DEF EntriesOf, Positions
  <2>3. BatchKeys = {}
    BY <2>1, <2>2 DEF BatchKeys, Posted, InFlight, KeysOf
  <2>4. BatchTold
    BY <2>3 DEF BatchTold
  <2> QED
    BY <1>h, <1>t, <2>4, PlacesTold
<1>3. CASE FinishPosting
  <2>1. /\ posting.pc = "updateOk"
        /\ sent' = Tell(EntriesOf(posting.batch), "BatchInclusionData")
    BY <1>3 DEF FinishPosting
  <2>2. \A k \in BatchKeys : Told(k)
    BY <2>1, TellTells DEF BatchKeys, Posted
  <2>3. BatchTold
    BY <2>2 DEF BatchTold
  <2> QED
    BY <1>h, <1>t, <2>3, PlacesTold
<1>4. CASE FinishFailedPosting
  <2>1. BatchKeys = {}
    BY <1>4 DEF FinishFailedPosting, BatchKeys, Posted, InFlight, KeysOf
  <2>2. BatchTold
    BY <2>1 DEF BatchTold
  <2> QED
    BY <1>h, <1>t, <2>2, PlacesTold
<1>5. ASSUME NEW u \in Users, UpdateUser(u) PROVE LossIsTold
  <2>1. posting'.pc = posting.pc /\ posting'.batch = posting.batch /\ posting'.rest = posting.rest
    BY <1>1, <1>5 DEF UpdateUser
  <2>2. Posted' = Posted
    BY <2>1 DEF Posted, InFlight
  <2>3. BatchTold
    BY <2>2 DEF BatchTold, BatchKeys
  <2> QED
    BY <1>h, <1>t, <2>3, PlacesTold
<1> QED
  BY <1>2, <1>3, <1>4, <1>5

\* Steps of the poller and of users.
LEMMA OtherTold ==
  ASSUME TypeInv, PollStep \/ ChainStep
  PROVE  LossIsTold
<1>h. \A h \in Handlers : HandlerTold(h)
  BY HandlersUntouched DEF PollStep, RemoveUserProofs, SkipRemoval, PollEvent, ChainStep, Unlock, Lock, Withdraw
<1>1. CASE RemoveUserProofs
  <2>1. /\ queue \in Seq(Entry)
        /\ queue' \in Arrangements({e \in EntriesOf(queue) : e.sender # poller})
        /\ sent' = Tell(EntriesFrom(queue, poller), "UserFundsUnlocked")
        /\ posting' = posting
    BY <1>1 DEF RemoveUserProofs, TypeInv, QueueInv
  <2>2. {e \in EntriesOf(queue) : e.sender # poller} \subseteq EntriesOf(queue')
    BY <2>1, RemoveKeeps
  <2>3. \A k \in KeysOf(EntriesFrom(queue, poller)) : Told(k)
    BY <2>1, TellTells
  <2>4. QueueTold
    <3> SUFFICES ASSUME NEW e \in EntriesOf(queue), <<e.sender, e.nonce>> \notin QueueKeys'
                 PROVE  Told(<<e.sender, e.nonce>>)
      BY DEF QueueTold, QueueKeys, KeysOf
    <3>1. e \in EntriesFrom(queue, poller)
      BY <2>2 DEF EntriesFrom, QueueKeys, KeysOf
    <3> QED
      BY <2>3, <3>1 DEF KeysOf
  <2> QED
    BY <1>h, <2>1, <2>4, BatchUntouched, PlacesTold
<1>2. CASE SkipRemoval \/ (\E u \in Users : PollEvent(u)) \/ ChainStep
  BY <1>h, <1>2, UntouchedTold, PlacesTold
     DEF SkipRemoval, PollEvent, ChainStep, Unlock, Lock, Withdraw
<1> QED
  BY <1>1, <1>2 DEF PollStep

\* The steps LosesSilently names are the only ones in which a validated proof leaves
\* the batcher without a message to its client: not through flushes, unlocked funds,
\* replacements, failed batches put back, late transactions or concurrent messages.
THEOREM LossesAreTold == Spec => NoSilentLoss
<1>1. ASSUME TypeInv, Next PROVE LosesSilently \/ LossIsTold
  <2>1. CASE \E h \in Handlers : HandlerStep(h)
    BY <1>1, <2>1, QuietHandlerTold, PushingTold DEF HandlerStep, LosesSilently
  <2>2. CASE BlockStep
    BY <1>1, <2>2, PostTold, RestoreTold, FlushTold, FinishTold DEF BlockStep, LosesSilently
  <2>3. CASE PollStep \/ ChainStep
    BY <1>1, <2>3, OtherTold
  <2> QED
    BY <1>1, <2>1, <2>2, <2>3 DEF Next
<1>2. TypeInv /\ [Next]_vars => [LosesSilently \/ LossIsTold]_vars
  BY <1>1
<1> QED
  BY <1>2, InitTyped, NextTyped, PTL DEF Spec, NoSilentLoss
=============================================================================
