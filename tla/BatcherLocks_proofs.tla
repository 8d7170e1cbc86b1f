------------------------ MODULE BatcherLocks_proofs ------------------------
(***************************************************************************)
(* Proofs about the lock protocol of the batcher, for any number of users, *)
(* handlers and blocks, any block interval, and whether or not blocks      *)
(* overlap, the queue fills, verifiers change or submissions fail; only    *)
(* the absence of deadlocks, at the end, asks for a condition on these.    *)
(***************************************************************************)
EXTENDS BatcherLocks, SequenceTheorems, TLAPS

-----------------------------------------------------------------------------
(***************************************************************************)
(* Types.                                                                  *)
(***************************************************************************)

\* Leaving the queue for user_states leaves a queue of tasks.
LEMMA LeaveType ==
  ASSUME NEW q \in Seq(Tasks), NEW t
  PROVE  Leave(q, t) \in Seq(Tasks)
<1>1. CASE ~ \E i \in 1..Len(q) : q[i] = t
  BY <1>1 DEF Leave
<1>2. CASE \E i \in 1..Len(q) : q[i] = t
  <2> DEFINE i == CHOOSE i \in 1..Len(q) : q[i] = t
  <2>1. i \in 1..Len(q)
    BY <1>2
  <2> HIDE DEF i
  <2>2. Len(q) \in Nat /\ \A j \in 1..Len(q) : q[j] \in Tasks
    BY LenProperties, ElementOfSeq
  <2>3. SubSeq(q, 1, i - 1) \in Seq(Tasks)
    <3>1. \A j \in 1..(i - 1) : q[j] \in Tasks
      BY <2>1, <2>2
    <3> QED
      BY <3>1, <2>1, <2>2, SubSeqProperties
  <2>4. SubSeq(q, i + 1, Len(q)) \in Seq(Tasks)
    <3>1. \A j \in (i + 1)..Len(q) : q[j] \in Tasks
      BY <2>1, <2>2
    <3> QED
      BY <3>1, <2>1, <2>2, SubSeqProperties
  <2>5. SubSeq(q, 1, i - 1) \o SubSeq(q, i + 1, Len(q)) \in Seq(Tasks)
    BY <2>3, <2>4, ConcatProperties
  <2> QED
    BY <1>2, <2>5 DEF Leave, i
<1> QED
  BY <1>1, <1>2

\* Moving keeps the types of the program counters and of the queue.
LEMMA GoType ==
  ASSUME TypeOK, NEW t \in Tasks, NEW from, NEW to \in PCs, Go(t, from, to)
  PROVE  /\ pc' \in [Tasks -> PCs]
         /\ usQueue' \in Seq(Tasks)
<1>1. pc' \in [Tasks -> PCs]
  BY DEF TypeOK, Go
<1>2. Leave(usQueue, t) \in Seq(Tasks)
  BY LeaveType DEF TypeOK
<1>3. Append(Leave(usQueue, t), t) \in Seq(Tasks)
  BY <1>2, AppendProperties
<1> QED
  BY <1>1, <1>2, <1>3 DEF Go

\* Giving up locks keeps the types of the lock variables.
LEMMA ReleaseType ==
  ASSUME TypeOK, NEW t \in Tasks
  PROVE  /\ \A M : Release(t, M) => holder' \in [Mutexes -> Tasks \cup {None}]
         /\ ReleaseMap(t) => usReaders' \subseteq Tasks /\ usWriter' \in Tasks \cup {None}
         /\ \A m : Take(m, t) => holder' \in [Mutexes -> Tasks \cup {None}]
BY DEF TypeOK, Release, ReleaseMap, Take

\* One step of a task keeps every type.
LEMMA TypeStep == TypeOK /\ [Next]_vars => TypeOK'
<1> SUFFICES ASSUME TypeOK, [Next]_vars PROVE TypeOK'
  OBVIOUS
<1> USE DEF PCs, WaitsForRead, WaitsForWrite, TimedWaits, AwaitsClient, Keep, ReadMap, WriteMap,
            ReleaseAll, valueVars
<1>t. Handlers \subseteq Tasks /\ Blocks \subseteq Tasks /\ Poller \in Tasks
  BY DEF Tasks
<1>b. \A b \in Blocks : b \in Nat
  BY LocksAssumption DEF Blocks
<1>1. ASSUME NEW h \in Handlers, Message(h) PROVE TypeOK'
  BY <1>1, <1>t, <1>b, GoType, ReleaseType DEF Message, TypeOK
<1>2. ASSUME NEW h \in Handlers, SubmitCheck(h) PROVE TypeOK'
  BY <1>2, <1>t, <1>b, GoType, ReleaseType DEF SubmitCheck, TypeOK
<1>3. ASSUME NEW h \in Handlers, SubmitInsert(h) PROVE TypeOK'
  BY <1>3, <1>t, <1>b, GoType, ReleaseType DEF SubmitInsert, TypeOK
<1>4. ASSUME NEW h \in Handlers, SubmitGet(h) PROVE TypeOK'
  BY <1>4, <1>t, <1>b, GoType, ReleaseType DEF SubmitGet, TypeOK
<1>5. ASSUME NEW h \in Handlers, SubmitUser(h) PROVE TypeOK'
  BY <1>5, <1>t, <1>b, GoType, ReleaseType DEF SubmitUser, TypeOK
<1>6. ASSUME NEW h \in Handlers, SubmitValidate(h) PROVE TypeOK'
  BY <1>6, <1>t, <1>b, GoType, ReleaseType DEF SubmitValidate, TypeOK
<1>7. ASSUME NEW h \in Handlers, SubmitVerify(h) PROVE TypeOK'
  BY <1>7, <1>t, <1>b, GoType, ReleaseType DEF SubmitVerify, TypeOK
<1>8. ASSUME NEW h \in Handlers, SubmitBatch(h) PROVE TypeOK'
  BY <1>8, <1>t, <1>b, GoType, ReleaseType DEF SubmitBatch, TypeOK
<1>9. ASSUME NEW h \in Handlers, SubmitEvict(h) PROVE TypeOK'
  BY <1>9, <1>t, <1>b, GoType, ReleaseType DEF SubmitEvict, TypeOK
<1>10. ASSUME NEW h \in Handlers, ReplaceBatch(h) PROVE TypeOK'
  BY <1>10, <1>t, <1>b, GoType, ReleaseType DEF ReplaceBatch, TypeOK
<1>11. ASSUME NEW h \in Handlers, ReplaceVerify(h) PROVE TypeOK'
  BY <1>11, <1>t, <1>b, GoType, ReleaseType DEF ReplaceVerify, TypeOK
<1>12. ASSUME NEW h \in Handlers, QueryMap(h) PROVE TypeOK'
  BY <1>12, <1>t, <1>b, GoType, ReleaseType DEF QueryMap, TypeOK
<1>13. ASSUME NEW h \in Handlers, QueryUser(h) PROVE TypeOK'
  BY <1>13, <1>t, <1>b, GoType, ReleaseType DEF QueryUser, TypeOK
<1>14. ASSUME NEW b \in Blocks, NewBlock(b) PROVE TypeOK'
  BY <1>14, <1>t, <1>b, GoType, ReleaseType DEF NewBlock, TypeOK
<1>15. ASSUME NEW b \in Blocks, BlockVerifiers(b) PROVE TypeOK'
  BY <1>15, <1>t, <1>b, GoType, ReleaseType DEF BlockVerifiers, TypeOK
<1>16. ASSUME NEW b \in Blocks, FlushBatch(b) PROVE TypeOK'
  BY <1>16, <1>t, <1>b, GoType, ReleaseType DEF FlushBatch, TypeOK
<1>17. ASSUME NEW b \in Blocks, FlushMap(b) PROVE TypeOK'
  BY <1>17, <1>t, <1>b, GoType, ReleaseType DEF FlushMap, AfterFlush, TypeOK
<1>18. ASSUME NEW b \in Blocks, ExtractBatch(b) PROVE TypeOK'
  BY <1>18, <1>t, <1>b, GoType, ReleaseType DEF ExtractBatch, TypeOK
<1>19. ASSUME NEW b \in Blocks, ExtractUploaded(b) PROVE TypeOK'
  BY <1>19, <1>t, <1>b, GoType, ReleaseType DEF ExtractUploaded, TypeOK
<1>20. ASSUME NEW b \in Blocks, ExtractPosting(b) PROVE TypeOK'
  BY <1>20, <1>t, <1>b, GoType, ReleaseType DEF ExtractPosting, TypeOK
<1>21. ASSUME NEW b \in Blocks, FinalizeUploaded(b) PROVE TypeOK'
  BY <1>21, <1>t, <1>b, GoType, ReleaseType DEF FinalizeUploaded, TypeOK
<1>22. ASSUME NEW b \in Blocks, SubmitTask(b) PROVE TypeOK'
  BY <1>22, <1>t, <1>b, GoType, ReleaseType DEF SubmitTask, TypeOK
<1>23. ASSUME NEW b \in Blocks, UpdateMap(b) PROVE TypeOK'
  <2> PICK u \in todo[b] :
        \/ /\ Go(b, "update_map", "update_user")
           /\ who' = [who EXCEPT ![b] = u]
           /\ ReadMap(b)
           /\ UNCHANGED <<todo, holder>>
        \/ /\ Go(b, "update_map", AfterUpdate(b, u))
           /\ UserUpdated(b, u)
           /\ UNCHANGED who
    BY <1>23 DEF UpdateMap
  <2>1. UNCHANGED valueVars /\ u \in Users
    BY <1>23 DEF UpdateMap, TypeOK
  <2>2. AfterUpdate(b, u) \in PCs
    BY DEF AfterUpdate
  <2>3. CASE UserUpdated(b, u) /\ Go(b, "update_map", AfterUpdate(b, u)) /\ UNCHANGED who
    <3>1. pc' \in [Tasks -> PCs] /\ usQueue' \in Seq(Tasks)
      BY <2>2, <2>3, <1>t, GoType
    <3>2. holder' \in [Mutexes -> Tasks \cup {None}] /\ usReaders' \subseteq Tasks
          /\ usWriter' \in Tasks \cup {None}
      BY <2>3, <1>t, ReleaseType DEF UserUpdated
    <3> QED
      BY <3>1, <3>2, <2>1, <2>3 DEF UserUpdated, TypeOK
  <2>4. CASE ~ UserUpdated(b, u) \/ ~ Go(b, "update_map", AfterUpdate(b, u)) \/ ~ UNCHANGED who
    BY <2>1, <2>4, <1>t, GoType DEF TypeOK
  <2> QED
    BY <2>3, <2>4
<1>24. ASSUME NEW b \in Blocks, UpdateUser(b) PROVE TypeOK'
  BY <1>24, <1>t, <1>b, GoType, ReleaseType DEF UpdateUser, TypeOK
<1>25. ASSUME NEW b \in Blocks, UpdateBatch(b) PROVE TypeOK'
  BY <1>25, <1>t, <1>b, GoType, ReleaseType DEF UpdateBatch, AfterUpdate, UserUpdated, TypeOK
<1>26. ASSUME NEW b \in Blocks, Cleanup(b) PROVE TypeOK'
  BY <1>26, <1>t, <1>b, GoType, ReleaseType DEF Cleanup, TypeOK
<1>27. ASSUME NEW b \in Blocks, CleanupMap(b) PROVE TypeOK'
  BY <1>27, <1>t, <1>b, GoType, ReleaseType DEF CleanupMap, TypeOK
<1>28. ASSUME NEW b \in Blocks, ResetPosting(b) PROVE TypeOK'
  BY <1>28, <1>t, <1>b, GoType, ReleaseType DEF ResetPosting, TypeOK
<1>29. ASSUME NEW b \in Blocks, RestoreMap(b) PROVE TypeOK'
  BY <1>29, <1>t, <1>b, GoType, ReleaseType DEF RestoreMap, TypeOK
<1>30. ASSUME NEW b \in Blocks, RestoreBatch(b) PROVE TypeOK'
  BY <1>30, <1>t, <1>b, GoType, ReleaseType DEF RestoreBatch, TypeOK
<1>31. ASSUME PollEvent PROVE TypeOK'
  BY <1>31, <1>t, <1>b, GoType, ReleaseType DEF PollEvent, TypeOK
<1>32. ASSUME PollMap PROVE TypeOK'
  BY <1>32, <1>t, <1>b, GoType, ReleaseType DEF PollMap, TypeOK
<1>33. ASSUME PollUser PROVE TypeOK'
  BY <1>33, <1>t, <1>b, GoType, ReleaseType DEF PollUser, TypeOK
<1>34. ASSUME PollRemove PROVE TypeOK'
  BY <1>34, <1>t, <1>b, GoType, ReleaseType DEF PollRemove, TypeOK
<1>35. ASSUME PollBatch PROVE TypeOK'
  BY <1>35, <1>t, <1>b, GoType, ReleaseType DEF PollBatch, TypeOK
<1>36. ASSUME NEW t \in Handlers \cup {Poller}, Timeout(t) PROVE TypeOK'
  BY <1>36, <1>t, LeaveType, ReleaseType DEF Timeout, TypeOK
<1>37. ASSUME NEW h \in Handlers, Reply(h) PROVE TypeOK'
  BY <1>37, <1>t, <1>b, GoType, ReleaseType DEF Reply, TypeOK
<1>38. ASSUME NEW b \in Blocks, SendInclusion(b) PROVE TypeOK'
  BY <1>38, <1>t, <1>b, GoType, ReleaseType DEF SendInclusion, TypeOK
<1>39. CASE UNCHANGED vars
  BY <1>39 DEF vars, lockVars, TypeOK
<1> QED
  BY <1>1, <1>2, <1>3, <1>4, <1>5, <1>6, <1>7, <1>8, <1>9, <1>10, <1>11, <1>12, <1>13, <1>14, <1>15, <1>16, <1>17, <1>18, <1>19, <1>20, <1>21, <1>22, <1>23, <1>24, <1>25, <1>26, <1>27, <1>28, <1>29, <1>30, <1>31, <1>32, <1>33, <1>34, <1>35, <1>36, <1>37, <1>38, <1>39
     DEF Next, HandlerStep, BlockStep, PollStep

\* The lock variables, the program counters and the two shared values always
\* have their types.
THEOREM TypeCorrect == Spec => []TypeOK
<1>1. Init => TypeOK
  BY LocksAssumption, EmptySeq, ZenonT(40)
     DEF Init, TypeOK, PCs, WaitsForRead, WaitsForWrite, TimedWaits, AwaitsClient
<1>2. TypeOK /\ [Next]_vars => TypeOK'
  BY TypeStep
<1> QED
  BY <1>1, <1>2, PTL DEF Spec

-----------------------------------------------------------------------------
(***************************************************************************)
(* One batch at a time, min_block_interval blocks apart.                   *)
(*                                                                         *)
(* posting_batch alone is not inductive.  It has to be known where the     *)
(* task that holds disabled_verifiers or posting_batch can be, since the   *)
(* same code runs inside and outside a posting; that a task about to       *)
(* extract a batch still holds last_uploaded_batch_block, so that the      *)
(* interval it checked cannot change under it; and that this value is      *)
(* only behind while its writer is about to write it.                      *)
(***************************************************************************)
FlushPCs == {"flush_batch", "flush_map", "flush_insert"}

RecoveryPCs ==
    {"restore_map", "restore_batch", "restore_evict_write", "restore_evict_read",
     "update_map", "update_user", "update_batch"}

LocalInv(b) ==
    /\ holder["verifiers"] = b => pc[b] \in FlushPCs
    /\ holder["posting"] = b => pc[b] \in RecoveryPCs
    /\ pc[b] \in {"restore_map", "restore_batch"} => holder["posting"] = b
    /\ pc[b] = "extract_posting" => holder["uploaded"] = b /\ IntervalPassed(b)
    /\ pc[b] = "finalize_uploaded" => lastPosted = b

PostingInv ==
    /\ TypeOK
    /\ OneBatchAtATime
    /\ \A b \in Blocks : LocalInv(b)
    /\ lastUploaded # lastPosted => \E b \in Blocks : pc[b] = "finalize_uploaded"

PostingMutexes == {"verifiers", "posting", "uploaded"}

\* What a step of t leaves alone of a block task other than t.
Others(t) ==
    \A c \in Blocks \ {t} :
        /\ pc'[c] = pc[c]
        /\ \A m \in PostingMutexes : holder'[m] = c <=> holder[m] = c

\* A task that waits for a mutex and may go on finds it free.
LEMMA FreeMutex ==
  ASSUME NEW t, Free(t)
  PROVE  /\ pc[t] = "block_verifiers" => holder["verifiers"] = None
         /\ pc[t] \in {"extract_posting", "reset_posting"} => holder["posting"] = None
         /\ pc[t] \in {"extract_uploaded", "finalize_uploaded"} => holder["uploaded"] = None
BY LocksAssumption
   DEF Free, BlockedBy, WantedMutex, WaitsForRead, WaitsForWrite, Mutexes, SharedMutexes

\* A task that moves moves alone.
LEMMA GoMoves ==
  ASSUME TypeOK, NEW t \in Tasks, NEW from, NEW to, Go(t, from, to)
  PROVE  /\ pc[t] = from /\ pc'[t] = to /\ Free(t)
         /\ \A c \in Tasks \ {t} : pc'[c] = pc[c]
BY DEF TypeOK, Go

\* A task gives up its own mutexes only.
LEMMA ReleaseOwn ==
  ASSUME TypeOK, NEW t \in Tasks, NEW M, Release(t, M)
  PROVE  /\ \A m \in Mutexes, c \in Tasks \ {t} : holder'[m] = c <=> holder[m] = c
         /\ \A m \in Mutexes : holder'[m] = t <=> holder[m] = t /\ m \notin M
BY LocksAssumption DEF Release

\* Taking a mutex changes no other.
LEMMA TakeOne ==
  ASSUME TypeOK, NEW t, NEW m, Take(m, t)
  PROVE  /\ \A n \in Mutexes \ {m} : holder'[n] = holder[n]
         /\ m \in Mutexes => holder'[m] = t
BY DEF TypeOK, Take

\* A step of a task other than the block tasks keeps the invariant.
LEMMA QuietStep ==
  ASSUME PostingInv, TypeOK', UNCHANGED valueVars, NEW t \in Tasks \ Blocks, Others(t)
  PROVE  PostingInv'
<1>1. \A b \in Blocks : /\ pc'[b] = pc[b]
                        /\ \A m \in PostingMutexes : holder'[m] = b <=> holder[m] = b
  BY DEF Others
<1>2. \A b \in Blocks : PostsBatch(b)' <=> PostsBatch(b)
  BY <1>1 DEF PostsBatch, PostingMutexes
<1>3. OneBatchAtATime'
  BY <1>2 DEF PostingInv, OneBatchAtATime, valueVars
<1>4. \A b \in Blocks : LocalInv(b)'
  BY <1>1 DEF PostingInv, LocalInv, IntervalPassed, PostingMutexes, valueVars
<1> QED
  BY <1>1, <1>3, <1>4 DEF PostingInv, valueVars

\* A step of a block task that neither begins nor ends a posting keeps it.
LEMMA InnerStep ==
  ASSUME PostingInv, TypeOK', UNCHANGED valueVars, NEW b \in Blocks, Others(b),
         PostsBatch(b)' <=> PostsBatch(b), LocalInv(b)',
         pc[b] # "finalize_uploaded", pc'[b] # "finalize_uploaded"
  PROVE  PostingInv'
<1>1. \A c \in Blocks \ {b} :
         /\ pc'[c] = pc[c]
         /\ \A m \in PostingMutexes : holder'[m] = c <=> holder[m] = c
  BY DEF Others
<1>2. \A c \in Blocks : PostsBatch(c)' <=> PostsBatch(c)
  BY <1>1 DEF PostsBatch, PostingMutexes
<1>3. OneBatchAtATime'
  BY <1>2 DEF PostingInv, OneBatchAtATime, valueVars
<1>4. \A c \in Blocks : LocalInv(c)'
  BY <1>1 DEF PostingInv, LocalInv, IntervalPassed, PostingMutexes, valueVars
<1> QED
  BY <1>1, <1>3, <1>4 DEF PostingInv, valueVars

\* Handlers, the poller and timeouts take and give up no mutex that matters to
\* the posting of batches.
LEMMA OtherTasksQuiet ==
  ASSUME TypeOK
  PROVE  /\ \A h \in Handlers :
               Message(h) \/ HandlerStep(h) \/ Reply(h) => Others(h) /\ UNCHANGED valueVars
         /\ PollEvent \/ PollStep => Others(Poller) /\ UNCHANGED valueVars
         /\ \A t \in Handlers \cup {Poller} : Timeout(t) => Others(t) /\ UNCHANGED valueVars
<1> USE DEF Keep, ReleaseAll
<1>t. Handlers \subseteq Tasks /\ Blocks \subseteq Tasks /\ Poller \in Tasks
  BY DEF Tasks
<1>m. /\ PostingMutexes \subseteq Mutexes
      /\ "batch" \notin PostingMutexes
      /\ (Users \cup {None}) \cap PostingMutexes = {}
      /\ \A t \in Tasks : who[t] \notin PostingMutexes
  BY LocksAssumption DEF PostingMutexes, Mutexes, SharedMutexes, TypeOK
<1>1. ASSUME NEW h \in Handlers, Message(h) PROVE Others(h) /\ UNCHANGED valueVars
  BY <1>1, <1>t, <1>m, GoMoves, ReleaseOwn, TakeOne DEF Message, Others
<1>2. ASSUME NEW h \in Handlers, SubmitCheck(h) PROVE Others(h) /\ UNCHANGED valueVars
  BY <1>2, <1>t, <1>m, GoMoves, ReleaseOwn, TakeOne DEF SubmitCheck, Others
<1>3. ASSUME NEW h \in Handlers, SubmitInsert(h) PROVE Others(h) /\ UNCHANGED valueVars
  BY <1>3, <1>t, <1>m, GoMoves, ReleaseOwn, TakeOne DEF SubmitInsert, Others
<1>4. ASSUME NEW h \in Handlers, SubmitGet(h) PROVE Others(h) /\ UNCHANGED valueVars
  BY <1>4, <1>t, <1>m, GoMoves, ReleaseOwn, TakeOne DEF SubmitGet, Others
<1>5. ASSUME NEW h \in Handlers, SubmitUser(h) PROVE Others(h) /\ UNCHANGED valueVars
  BY <1>5, <1>t, <1>m, GoMoves, ReleaseOwn, TakeOne DEF SubmitUser, Others
<1>6. ASSUME NEW h \in Handlers, SubmitValidate(h) PROVE Others(h) /\ UNCHANGED valueVars
  BY <1>6, <1>t, <1>m, GoMoves, ReleaseOwn, TakeOne DEF SubmitValidate, Others
<1>7. ASSUME NEW h \in Handlers, SubmitVerify(h) PROVE Others(h) /\ UNCHANGED valueVars
  BY <1>7, <1>t, <1>m, GoMoves, ReleaseOwn, TakeOne DEF SubmitVerify, Others
<1>8. ASSUME NEW h \in Handlers, SubmitBatch(h) PROVE Others(h) /\ UNCHANGED valueVars
  BY <1>8, <1>t, <1>m, GoMoves, ReleaseOwn, TakeOne DEF SubmitBatch, Others
<1>9. ASSUME NEW h \in Handlers, SubmitEvict(h) PROVE Others(h) /\ UNCHANGED valueVars
  BY <1>9, <1>t, <1>m, GoMoves, ReleaseOwn, TakeOne DEF SubmitEvict, Others
<1>10. ASSUME NEW h \in Handlers, ReplaceBatch(h) PROVE Others(h) /\ UNCHANGED valueVars
  BY <1>10, <1>t, <1>m, GoMoves, ReleaseOwn, TakeOne DEF ReplaceBatch, Others
<1>11. ASSUME NEW h \in Handlers, ReplaceVerify(h) PROVE Others(h) /\ UNCHANGED valueVars
  BY <1>11, <1>t, <1>m, GoMoves, ReleaseOwn, TakeOne DEF ReplaceVerify, Others
<1>12. ASSUME NEW h \in Handlers, QueryMap(h) PROVE Others(h) /\ UNCHANGED valueVars
  BY <1>12, <1>t, <1>m, GoMoves, ReleaseOwn, TakeOne DEF QueryMap, Others
<1>13. ASSUME NEW h \in Handlers, QueryUser(h) PROVE Others(h) /\ UNCHANGED valueVars
  BY <1>13, <1>t, <1>m, GoMoves, ReleaseOwn, TakeOne DEF QueryUser, Others
<1>14. ASSUME PollEvent PROVE Others(Poller) /\ UNCHANGED valueVars
  BY <1>14, <1>t, <1>m, GoMoves, ReleaseOwn DEF PollEvent, Others
<1>15. ASSUME PollMap PROVE Others(Poller) /\ UNCHANGED valueVars
  BY <1>15, <1>t, <1>m, GoMoves, ReleaseOwn DEF PollMap, Others
<1>16. ASSUME PollUser PROVE Others(Poller) /\ UNCHANGED valueVars
  BY <1>16, <1>t, <1>m, GoMoves, ReleaseOwn DEF PollUser, Others
<1>17. ASSUME PollRemove PROVE Others(Poller) /\ UNCHANGED valueVars
  BY <1>17, <1>t, <1>m, GoMoves, ReleaseOwn DEF PollRemove, Others
<1>18. ASSUME PollBatch PROVE Others(Poller) /\ UNCHANGED valueVars
  BY <1>18, <1>t, <1>m, GoMoves, ReleaseOwn DEF PollBatch, Others
<1>19. ASSUME NEW t \in Handlers \cup {Poller}, Timeout(t)
      PROVE  Others(t) /\ UNCHANGED valueVars
  BY <1>19, <1>t, <1>m, ReleaseOwn DEF Timeout, Others, TypeOK
<1>20. ASSUME NEW h \in Handlers, Reply(h) PROVE Others(h) /\ UNCHANGED valueVars
  BY <1>20, <1>t, <1>m, GoMoves, ReleaseOwn DEF Reply, Others
<1> QED
  BY <1>1, <1>2, <1>3, <1>4, <1>5, <1>6, <1>7, <1>8, <1>9, <1>10, <1>11, <1>12, <1>13, <1>14, <1>15, <1>16, <1>17, <1>18, <1>19, <1>20
     DEF HandlerStep, PollStep

\* Every step of a block task keeps the invariant.
LEMMA BlockStepInv ==
  ASSUME PostingInv, TypeOK', NEW b \in Blocks, NewBlock(b) \/ BlockStep(b) \/ SendInclusion(b)
  PROVE  PostingInv'
<1> DEFINE Inner == /\ Others(b) /\ UNCHANGED valueVars
                    /\ PostsBatch(b)' <=> PostsBatch(b)
                    /\ LocalInv(b)'
                    /\ pc[b] # "finalize_uploaded" /\ pc'[b] # "finalize_uploaded"
<1> USE DEF Keep, ReleaseAll
<1>t. Blocks \subseteq Tasks /\ b \in Tasks /\ \A c \in Blocks : c # None
  BY LocksAssumption DEF Tasks
<1>m. /\ {"verifiers", "posting", "uploaded"} \subseteq Mutexes
      /\ \A u \in Users : u \notin PostingMutexes
      /\ who[b] \notin PostingMutexes
      /\ "batch" \notin PostingMutexes
  BY LocksAssumption, <1>t DEF PostingInv, TypeOK, PostingMutexes, Mutexes, SharedMutexes
<1>i. TypeOK /\ LocalInv(b)
  BY DEF PostingInv
<1>1. ASSUME NewBlock(b) PROVE PostingInv'
  <2>1. Inner
    BY <1>1, <1>t, <1>m, <1>i, GoMoves, ReleaseOwn, TakeOne, FreeMutex
       DEF NewBlock, Others, PostsBatch, PostingPCs, LocalInv,
           FlushPCs, RecoveryPCs, PostingMutexes, IntervalPassed, valueVars
  <2> QED
    BY <2>1, InnerStep
<1>2. ASSUME BlockVerifiers(b) PROVE PostingInv'
  <2>1. Inner
    BY <1>2, <1>t, <1>m, <1>i, GoMoves, ReleaseOwn, TakeOne, FreeMutex
       DEF BlockVerifiers, Others, PostsBatch, PostingPCs, LocalInv,
           FlushPCs, RecoveryPCs, PostingMutexes, IntervalPassed, valueVars
  <2> QED
    BY <2>1, InnerStep
<1>3. ASSUME FlushBatch(b) PROVE PostingInv'
  <2>1. Inner
    BY <1>3, <1>t, <1>m, <1>i, GoMoves, ReleaseOwn, TakeOne, FreeMutex
       DEF FlushBatch, Others, PostsBatch, PostingPCs, LocalInv,
           FlushPCs, RecoveryPCs, PostingMutexes, IntervalPassed, valueVars
  <2> QED
    BY <2>1, InnerStep
<1>4. ASSUME FlushMap(b) PROVE PostingInv'
  <2>1. Inner
    BY <1>4, <1>t, <1>m, <1>i, GoMoves, ReleaseOwn, TakeOne, FreeMutex
       DEF FlushMap, AfterFlush, Others, PostsBatch, PostingPCs, LocalInv,
           FlushPCs, RecoveryPCs, PostingMutexes, IntervalPassed, valueVars
  <2> QED
    BY <2>1, InnerStep
<1>5. ASSUME ExtractBatch(b) PROVE PostingInv'
  <2>1. Inner
    BY <1>5, <1>t, <1>m, <1>i, GoMoves, ReleaseOwn, TakeOne, FreeMutex
       DEF ExtractBatch, Others, PostsBatch, PostingPCs, LocalInv,
           FlushPCs, RecoveryPCs, PostingMutexes, IntervalPassed, valueVars
  <2> QED
    BY <2>1, InnerStep
<1>6. ASSUME ExtractUploaded(b) PROVE PostingInv'
  <2>1. Inner
    BY <1>6, <1>t, <1>m, <1>i, GoMoves, ReleaseOwn, TakeOne, FreeMutex
       DEF ExtractUploaded, Others, PostsBatch, PostingPCs, LocalInv,
           FlushPCs, RecoveryPCs, PostingMutexes, IntervalPassed, valueVars
  <2> QED
    BY <2>1, InnerStep
<1>7. ASSUME SubmitTask(b) PROVE PostingInv'
  <2>1. Inner
    BY <1>7, <1>t, <1>m, <1>i, GoMoves, ReleaseOwn, TakeOne, FreeMutex
       DEF SubmitTask, Others, PostsBatch, PostingPCs, LocalInv,
           FlushPCs, RecoveryPCs, PostingMutexes, IntervalPassed, valueVars
  <2> QED
    BY <2>1, InnerStep
<1>8. ASSUME UpdateMap(b) PROVE PostingInv'
  <2>1. Inner
    BY <1>8, <1>t, <1>m, <1>i, GoMoves, ReleaseOwn, TakeOne, FreeMutex
       DEF UpdateMap, AfterUpdate, UserUpdated, Others, PostsBatch, PostingPCs, LocalInv,
           FlushPCs, RecoveryPCs, PostingMutexes, IntervalPassed, valueVars
  <2> QED
    BY <2>1, InnerStep
<1>9. ASSUME UpdateUser(b) PROVE PostingInv'
  <2>1. Inner
    BY <1>9, <1>t, <1>m, <1>i, GoMoves, ReleaseOwn, TakeOne, FreeMutex
       DEF UpdateUser, Others, PostsBatch, PostingPCs, LocalInv,
           FlushPCs, RecoveryPCs, PostingMutexes, IntervalPassed, valueVars
  <2> QED
    BY <2>1, InnerStep
<1>10. ASSUME UpdateBatch(b) PROVE PostingInv'
  <2>1. Inner
    BY <1>10, <1>t, <1>m, <1>i, GoMoves, ReleaseOwn, TakeOne, FreeMutex
       DEF UpdateBatch, AfterUpdate, UserUpdated, Others, PostsBatch, PostingPCs, LocalInv,
           FlushPCs, RecoveryPCs, PostingMutexes, IntervalPassed, valueVars
  <2> QED
    BY <2>1, InnerStep
<1>11. ASSUME Cleanup(b) PROVE PostingInv'
  <2>1. Inner
    BY <1>11, <1>t, <1>m, <1>i, GoMoves, ReleaseOwn, TakeOne, FreeMutex
       DEF Cleanup, Others, PostsBatch, PostingPCs, LocalInv,
           FlushPCs, RecoveryPCs, PostingMutexes, IntervalPassed, valueVars
  <2> QED
    BY <2>1, InnerStep
<1>12. ASSUME CleanupMap(b) PROVE PostingInv'
  <2>1. Inner
    BY <1>12, <1>t, <1>m, <1>i, GoMoves, ReleaseOwn, TakeOne, FreeMutex
       DEF CleanupMap, Others, PostsBatch, PostingPCs, LocalInv,
           FlushPCs, RecoveryPCs, PostingMutexes, IntervalPassed, valueVars
  <2> QED
    BY <2>1, InnerStep
<1>13. ASSUME RestoreMap(b) PROVE PostingInv'
  <2>1. Inner
    BY <1>13, <1>t, <1>m, <1>i, GoMoves, ReleaseOwn, TakeOne, FreeMutex
       DEF RestoreMap, Others, PostsBatch, PostingPCs, LocalInv,
           FlushPCs, RecoveryPCs, PostingMutexes, IntervalPassed, valueVars
  <2> QED
    BY <2>1, InnerStep
<1>14. ASSUME RestoreBatch(b) PROVE PostingInv'
  <2>1. Inner
    BY <1>14, <1>t, <1>m, <1>i, GoMoves, ReleaseOwn, TakeOne, FreeMutex
       DEF RestoreBatch, Others, PostsBatch, PostingPCs, LocalInv,
           FlushPCs, RecoveryPCs, PostingMutexes, IntervalPassed, valueVars
  <2> QED
    BY <2>1, InnerStep
<1>15. ASSUME ExtractPosting(b) PROVE PostingInv'
  <2>1. Others(b) /\ Free(b)
    BY <1>15, <1>t, <1>m, <1>i, GoMoves, ReleaseOwn DEF ExtractPosting, Others, PostingMutexes
  <2>2. CASE Go(b, "extract_posting", "done") /\ UNCHANGED valueVars
    <3>1. Inner
      BY <1>15, <2>1, <2>2, <1>t, <1>m, <1>i, GoMoves, ReleaseOwn
         DEF ExtractPosting, PostsBatch, PostingPCs, LocalInv, FlushPCs, RecoveryPCs
    <3> QED
      BY <3>1, InnerStep
  <2>3. CASE /\ ~postingBatch /\ postingBatch' = TRUE /\ lastPosted' = b
             /\ UNCHANGED lastUploaded /\ Go(b, "extract_posting", "finalize_uploaded")
    <3>1. pc[b] = "extract_posting" /\ pc'[b] = "finalize_uploaded"
      BY <2>3, <1>t, <1>i, GoMoves
    <3>2. /\ holder'["verifiers"] # b /\ holder'["posting"] # b
      BY <1>15, <1>t, <1>m, <1>i, ReleaseOwn DEF ExtractPosting
    <3>3. PostsBatch(b)' /\ LocalInv(b)'
      BY <3>1, <3>2, <2>3 DEF PostsBatch, PostingPCs, LocalInv
    <3>4. \A c \in Blocks \ {b} : ~PostsBatch(c) /\ ~PostsBatch(c)'
      BY <2>1, <2>3 DEF PostingInv, OneBatchAtATime, PostsBatch, Others, PostingMutexes
    <3>5. OneBatchAtATime'
      BY <3>3, <3>4, <2>3 DEF OneBatchAtATime
    <3>6. \A c \in Blocks \ {b} : pc[c] # "finalize_uploaded"
      BY <2>3 DEF PostingInv, OneBatchAtATime, PostsBatch, PostingPCs, LocalInv,
                  FlushPCs, RecoveryPCs
    <3>7. \A c \in Blocks \ {b} : LocalInv(c)'
      BY <2>1, <2>3, <3>6 DEF PostingInv, LocalInv, Others, PostingMutexes, IntervalPassed
    <3> QED
      BY <3>1, <3>3, <3>5, <3>7 DEF PostingInv
  <2> QED
    BY <1>15, <2>2, <2>3 DEF ExtractPosting, NoBatchPosting
<1>16. ASSUME FinalizeUploaded(b) PROVE PostingInv'
  <2>1. /\ Others(b) /\ Free(b) /\ UNCHANGED <<postingBatch, lastPosted, holder>>
        /\ pc[b] = "finalize_uploaded" /\ pc'[b] = "submit_task" /\ lastUploaded' = b
    BY <1>16, <1>t, <1>i, GoMoves DEF FinalizeUploaded, Others
  <2>2. lastPosted = b /\ holder["uploaded"] = None
    BY <2>1, <1>i, FreeMutex DEF LocalInv
  <2>3. \A c \in Blocks : PostsBatch(c)' <=> PostsBatch(c)
    BY <2>1 DEF PostsBatch, PostingPCs, Others, PostingMutexes
  <2>4. OneBatchAtATime'
    BY <2>1, <2>3 DEF PostingInv, OneBatchAtATime
  <2>5. \A c \in Blocks : pc[c] # "extract_posting"
    BY <2>2, LocksAssumption DEF PostingInv, LocalInv, Tasks
  <2>6. \A c \in Blocks : LocalInv(c)'
    BY <2>1, <2>5 DEF PostingInv, LocalInv, FlushPCs, RecoveryPCs, Others
  <2> QED
    BY <2>1, <2>2, <2>4, <2>6 DEF PostingInv
<1>17. ASSUME ResetPosting(b) PROVE PostingInv'
  <2>1. /\ Others(b) /\ Free(b) /\ postingBatch' = FALSE
        /\ UNCHANGED <<lastUploaded, lastPosted>>
        /\ pc[b] = "reset_posting" /\ pc'[b] \in {"done", "restore_map"}
        /\ pc'[b] = "done" => Release(b, Mutexes)
        /\ pc'[b] = "restore_map" => Take("posting", b)
    <3>1. holder["posting"] = None
      BY <1>17, <1>t, <1>i, GoMoves, FreeMutex DEF ResetPosting
    <3> QED
      BY <1>17, <3>1, <1>t, <1>m, <1>i, GoMoves, ReleaseOwn, TakeOne
         DEF ResetPosting, Others, PostingMutexes
  <2>2. PostsBatch(b)
    BY <2>1, <1>i DEF PostsBatch, PostingPCs, LocalInv, FlushPCs, RecoveryPCs
  <2>3. \A c \in Blocks : ~PostsBatch(c)'
    BY <2>1, <2>2 DEF PostingInv, OneBatchAtATime, PostsBatch, PostingPCs, Others,
                      PostingMutexes
  <2>4. OneBatchAtATime'
    BY <2>1, <2>3 DEF OneBatchAtATime
  <2>5. LocalInv(b)'
    BY <2>1, <1>t, <1>m, <1>i, ReleaseOwn, TakeOne DEF LocalInv, FlushPCs, RecoveryPCs
  <2>6. \A c \in Blocks \ {b} : LocalInv(c)'
    BY <2>1 DEF PostingInv, LocalInv, Others, PostingMutexes, IntervalPassed
  <2>7. lastUploaded' = lastPosted' \/ \E c \in Blocks : pc'[c] = "finalize_uploaded"
    BY <2>1 DEF PostingInv, Others
  <2> QED
    BY <2>4, <2>5, <2>6, <2>7 DEF PostingInv
<1>18. ASSUME SendInclusion(b) PROVE PostingInv'
  <2>1. Inner
    BY <1>18, <1>t, <1>m, <1>i, GoMoves
       DEF SendInclusion, Others, PostsBatch, PostingPCs, LocalInv,
           FlushPCs, RecoveryPCs, PostingMutexes, IntervalPassed, valueVars
  <2> QED
    BY <2>1, InnerStep
<1> QED
  BY <1>1, <1>2, <1>3, <1>4, <1>5, <1>6, <1>7, <1>8, <1>9, <1>10, <1>11, <1>12, <1>13, <1>14, <1>15, <1>16, <1>17, <1>18
     DEF BlockStep

\* The step lemmas together.
LEMMA PostingInvStep == PostingInv /\ [Next]_vars => PostingInv'
<1> SUFFICES ASSUME PostingInv, [Next]_vars PROVE PostingInv'
  OBVIOUS
<1>1. TypeOK /\ TypeOK'
  BY TypeStep DEF PostingInv
<1>2. \A t \in Handlers \cup {Poller} : t \in Tasks \ Blocks
  BY LocksAssumption DEF Tasks
<1>3. ASSUME NEW h \in Handlers, Message(h) \/ HandlerStep(h) \/ Reply(h) PROVE PostingInv'
  BY <1>1, <1>2, <1>3, OtherTasksQuiet, QuietStep
<1>4. ASSUME PollEvent \/ PollStep PROVE PostingInv'
  BY <1>1, <1>2, <1>4, OtherTasksQuiet, QuietStep
<1>5. ASSUME NEW t \in Handlers \cup {Poller}, Timeout(t) PROVE PostingInv'
  BY <1>1, <1>2, <1>5, OtherTasksQuiet, QuietStep
<1>6. ASSUME NEW b \in Blocks, NewBlock(b) \/ BlockStep(b) \/ SendInclusion(b) PROVE PostingInv'
  BY <1>1, <1>6, BlockStepInv
<1>7. CASE UNCHANGED vars
  <2>1. UNCHANGED valueVars /\ Others(Poller)
    BY <1>7 DEF vars, valueVars, lockVars, Others
  <2> QED
    BY <2>1, <1>1, <1>2, QuietStep
<1> QED
  BY <1>3, <1>4, <1>5, <1>6, <1>7 DEF Next

\* Nothing has been extracted or is held at the start.
LEMMA PostingInvInit == Init => PostingInv
<1> SUFFICES ASSUME Init PROVE PostingInv
  OBVIOUS
<1>1. TypeOK
  BY LocksAssumption, EmptySeq
     DEF Init, TypeOK, PCs, WaitsForRead, WaitsForWrite, TimedWaits, AwaitsClient
<1>2. \A b \in Blocks : pc[b] = "idle" /\ b # None
  BY LocksAssumption DEF Init, Tasks
<1>3. OneBatchAtATime
  BY <1>2 DEF Init, OneBatchAtATime, PostsBatch, PostingPCs
<1>4. \A b \in Blocks : LocalInv(b)
  BY <1>2 DEF Init, LocalInv, Mutexes, SharedMutexes
<1> QED
  BY <1>1, <1>3, <1>4 DEF Init, PostingInv

\* posting_batch does what its comment says: whatever the tasks do and however
\* their lock acquisitions interleave, batches are posted one at a time.
THEOREM OnePosting == Spec => []OneBatchAtATime
<1>1. PostingInv => OneBatchAtATime
  BY DEF PostingInv
<1> QED
  BY <1>1, PostingInvInit, PostingInvStep, PTL DEF Spec

\* The interval check of extract_batch_if_ready is not defeated by the window
\* between it and the update of last_uploaded_batch_block in finalize_batch.
THEOREM IntervalKept == Spec => IntervalRespected
<1>1. PostingInv /\ [Next]_vars
        => [lastPosted' # lastPosted => lastPosted' >= lastPosted + MinBlockInterval]_vars
  <2> SUFFICES ASSUME PostingInv, [Next]_vars, lastPosted' # lastPosted
               PROVE  lastPosted' >= lastPosted + MinBlockInterval
    OBVIOUS
  <2>1. PICK b \in Blocks : ExtractPosting(b)
    <3>1. TypeOK
      BY DEF PostingInv
    <3> QED
      BY <3>1, OtherTasksQuiet
         DEF Next, vars, valueVars, NewBlock, BlockStep, BlockVerifiers, FlushBatch, FlushMap,
             ExtractBatch, ExtractUploaded, FinalizeUploaded, SubmitTask, UpdateMap,
             UpdateUser, UpdateBatch, Cleanup, CleanupMap, SendInclusion, ResetPosting,
             RestoreMap, RestoreBatch
  <2>2. ~postingBatch /\ lastPosted' = b /\ pc[b] = "extract_posting"
    BY <2>1 DEF ExtractPosting, NoBatchPosting, valueVars, Go
  <2>3. lastUploaded = lastPosted
    BY <2>2 DEF PostingInv, OneBatchAtATime, PostsBatch, PostingPCs, LocalInv,
                FlushPCs, RecoveryPCs
  <2> QED
    BY <2>2, <2>3 DEF PostingInv, LocalInv, IntervalPassed
<1> QED
  BY <1>1, PostingInvInit, PostingInvStep, PTL DEF Spec, IntervalRespected

-----------------------------------------------------------------------------
(***************************************************************************)
(* No deadlock.                                                            *)
(*                                                                         *)
(* The locks are not taken in one order, so that deadlock freedom needs a  *)
(* condition on what happens around the batcher.  Calm is the weakest one  *)
(* over the switches of the model: each of the settings it leaves out has  *)
(* a deadlock (a full queue makes a task wait for the guard it holds; with *)
(* two block tasks, one that restores proofs or flushes the queue meets    *)
(* one that extracts or updates; with one, a flush of handle_new_block     *)
(* meets a handler that verifies under batch_state).                       *)
(***************************************************************************)
Calm ==
    /\ ~QueueFills
    /\ BlocksOverlap => ~SubmissionFails /\ ~VerifiersChange
    /\ VerifiersChange => ~PreVerification

MapWaits == WaitsForRead \cup WaitsForWrite

BlockPCs ==
    {"idle", "block_verifiers", "flush_batch", "flush_map", "flush_insert",
     "extract_batch", "extract_uploaded", "extract_posting", "finalize_uploaded",
     "submit_task", "update_map", "update_user", "update_batch", "cleanup",
     "cleanup_map", "send_inclusion", "reset_posting", "restore_map", "restore_batch",
     "done"}

HandlerPCs ==
    {"idle", "submit_check", "submit_insert", "submit_get", "submit_user",
     "submit_validate", "submit_verify", "submit_batch", "replace_batch",
     "replace_verify", "query_map", "query_user", "reply"}

PollPCs == {"idle", "poll_map", "poll_user", "poll_remove", "poll_batch"}

\* Where a block task can be with a lock in its hands, and which branches the
\* switches open to it.
BlockLocks(b) ==
    /\ pc[b] \in BlockPCs
    /\ holder["verifiers"] = b => VerifiersChange
    /\ holder["posting"] = b => SubmissionFails
    /\ holder["uploaded"] = b => pc[b] = "extract_posting"
    /\ holder["batch"] = b => pc[b] \in {"flush_map", "flush_insert", "extract_uploaded",
                                         "extract_posting", "cleanup_map"}
    /\ \A u \in Users : holder[u] = b => pc[b] = "update_batch"
    /\ b \in usReaders => pc[b] \in {"update_user", "update_batch"}
    /\ usWriter = b => pc[b] = "restore_batch"
    /\ pc[b] \in FlushPCs => SubmissionFails \/ holder["verifiers"] = b
    /\ pc[b] \in {"restore_map", "restore_batch"} => SubmissionFails
    /\ pc[b] \in {"cleanup", "send_inclusion", "reset_posting"} /\ ~SubmissionFails => todo[b] = {}

HandlerLocks(h) ==
    /\ pc[h] \in HandlerPCs
    /\ pc[h] \in {"submit_verify", "replace_verify"} => PreVerification
    /\ \A m \in PostingMutexes : holder[m] # h

PollerLocks ==
    /\ pc[Poller] \in PollPCs
    /\ \A m \in Mutexes : holder[m] # Poller
    /\ Poller \in usReaders => pc[Poller] = "poll_user"
    /\ usWriter = Poller => pc[Poller] = "poll_batch"

Distinct(q) == \A i, j \in 1..Len(q) : q[i] = q[j] => i = j

\* Every task stands in the queue for user_states once at most, and waits for it.
QueueInv ==
    /\ Distinct(usQueue)
    /\ \A i \in 1..Len(usQueue) : pc[usQueue[i]] \in MapWaits

\* Without overlap the tasks of all earlier blocks have ended.
OneActive ==
    ~BlocksOverlap =>
      \A c \in Blocks : pc[c] # "idle" => \A a \in 1..(c - 1) : pc[a] = "done"

LockInv ==
    /\ PostingInv
    /\ \A b \in Blocks : BlockLocks(b)
    /\ \A h \in Handlers : HandlerLocks(h)
    /\ PollerLocks
    /\ QueueInv
    /\ OneActive

\* What a step of t leaves alone of every other task: it gives them no lock.
\* A flush of handle_new_block keeps disabled_verifiers besides.
HandsOff(t) ==
    \A c \in Tasks \ {t} :
        /\ \A m \in Mutexes : holder'[m] = c => holder[m] = c
        /\ holder["verifiers"] = c => holder'["verifiers"] = c

MapOff(t) == \A c \in Tasks \ {t} : /\ c \in usReaders' => c \in usReaders
                                    /\ usWriter' = c => usWriter = c

Alone(t) ==
    /\ \A c \in Tasks \ {t} : pc'[c] = pc[c] /\ (c \in Blocks => todo'[c] = todo[c])
    /\ HandsOff(t)
    /\ MapOff(t)

\* Leaving the queue takes one's own place out of it and no other.
LEMMA LeaveOnce ==
  ASSUME NEW q \in Seq(Tasks), NEW t, Distinct(q)
  PROVE  /\ Distinct(Leave(q, t))
         /\ \A k \in 1..Len(Leave(q, t)) :
               /\ Leave(q, t)[k] # t
               /\ \E i \in 1..Len(q) : Leave(q, t)[k] = q[i]
<1>1. CASE ~ \E i \in 1..Len(q) : q[i] = t
  BY <1>1 DEF Leave
<1>2. CASE \E i \in 1..Len(q) : q[i] = t
  <2> DEFINE i == CHOOSE i \in 1..Len(q) : q[i] = t
             l == SubSeq(q, 1, i - 1)
             r == SubSeq(q, i + 1, Len(q))
  <2>1. i \in 1..Len(q) /\ q[i] = t
    BY <1>2
  <2>2. Leave(q, t) = l \o r
    BY <1>2 DEF Leave
  <2> HIDE DEF i
  <2>3. Len(q) \in Nat /\ \A j \in 1..Len(q) : q[j] \in Tasks
    BY LenProperties, ElementOfSeq
  <2>4. l \in Seq(Tasks) /\ Len(l) = i - 1 /\ \A k \in 1..(i - 1) : l[k] = q[k]
    <3>1. \A j \in 1..(i - 1) : q[j] \in Tasks
      BY <2>1, <2>3
    <3>2. /\ SubSeq(q, 1, i - 1) \in Seq(Tasks)
          /\ Len(SubSeq(q, 1, i - 1)) = IF 1 <= i - 1 THEN (i - 1) - 1 + 1 ELSE 0
          /\ \A k \in 1..((i - 1) - 1 + 1) : SubSeq(q, 1, i - 1)[k] = q[1 + k - 1]
      BY <3>1, <2>1, <2>3, SubSeqProperties
    <3> QED
      BY <3>2, <2>1, <2>3
  <2>5. r \in Seq(Tasks) /\ Len(r) = Len(q) - i /\ \A k \in 1..(Len(q) - i) : r[k] = q[i + k]
    <3>1. \A j \in (i + 1)..Len(q) : q[j] \in Tasks
      BY <2>1, <2>3
    <3>2. /\ SubSeq(q, i + 1, Len(q)) \in Seq(Tasks)
          /\ Len(SubSeq(q, i + 1, Len(q))) = IF i + 1 <= Len(q) THEN Len(q) - (i + 1) + 1 ELSE 0
          /\ \A k \in 1..(Len(q) - (i + 1) + 1) :
                SubSeq(q, i + 1, Len(q))[k] = q[i + 1 + k - 1]
      BY <3>1, <2>1, <2>3, SubSeqProperties
    <3> QED
      BY <3>2, <2>1, <2>3
  <2> HIDE DEF l, r
  <2>6. /\ Len(l \o r) = Len(q) - 1
        /\ \A k \in 1..(Len(q) - 1) : (l \o r)[k] = IF k < i THEN q[k] ELSE q[k + 1]
    <3>1. /\ Len(l \o r) = Len(l) + Len(r)
          /\ \A k \in 1..(Len(l) + Len(r)) :
                (l \o r)[k] = IF k <= Len(l) THEN l[k] ELSE r[k - Len(l)]
      BY <2>4, <2>5, ConcatProperties
    <3>2. ASSUME NEW k \in 1..(Len(q) - 1), k < i PROVE (l \o r)[k] = q[k]
      BY <3>1, <3>2, <2>1, <2>3, <2>4, <2>5
    <3>3. ASSUME NEW k \in 1..(Len(q) - 1), ~ k < i PROVE (l \o r)[k] = q[k + 1]
      <4>1. k - Len(l) \in 1..(Len(q) - i) /\ i + (k - Len(l)) = k + 1
        BY <3>3, <2>1, <2>3, <2>4
      <4>2. (l \o r)[k] = r[k - Len(l)]
        BY <3>1, <3>3, <2>1, <2>3, <2>4, <2>5
      <4> QED
        BY <4>1, <4>2, <2>5
    <3> QED
      BY <3>1, <3>2, <3>3, <2>1, <2>3, <2>4, <2>5
  <2>7. Distinct(l \o r)
    <3>1. ASSUME NEW j \in 1..(Len(q) - 1), NEW k \in 1..(Len(q) - 1), (l \o r)[j] = (l \o r)[k]
          PROVE  j = k
      <4>1. /\ (IF j < i THEN j ELSE j + 1) \in 1..Len(q)
            /\ (IF k < i THEN k ELSE k + 1) \in 1..Len(q)
        BY <2>1, <2>3
      <4>2. q[IF j < i THEN j ELSE j + 1] = q[IF k < i THEN k ELSE k + 1]
        BY <3>1, <2>6
      <4>3. (IF j < i THEN j ELSE j + 1) = (IF k < i THEN k ELSE k + 1)
        BY <4>1, <4>2 DEF Distinct
      <4> QED
        BY <4>3, <2>1, <2>3
    <3> QED
      BY <3>1, <2>6 DEF Distinct
  <2>8. ASSUME NEW k \in 1..Len(l \o r)
        PROVE  (l \o r)[k] # t /\ \E j \in 1..Len(q) : (l \o r)[k] = q[j]
    BY <2>1, <2>3, <2>6 DEF Distinct
  <2> QED
    BY <2>2, <2>7, <2>8
<1> QED
  BY <1>1, <1>2

\* A task that moves, or gives up, keeps the queue in order.
LEMMA QueueKept ==
  ASSUME TypeOK, QueueInv, NEW t \in Tasks, \A c \in Tasks \ {t} : pc'[c] = pc[c],
         \/ usQueue' = Leave(usQueue, t)
         \/ pc'[t] \in MapWaits /\ usQueue' = Append(Leave(usQueue, t), t)
  PROVE  QueueInv'
<1> DEFINE r == Leave(usQueue, t)
<1>1. usQueue \in Seq(Tasks) /\ Distinct(usQueue)
  BY DEF TypeOK, QueueInv
<1>2. /\ r \in Seq(Tasks) /\ Distinct(r)
      /\ \A k \in 1..Len(r) : r[k] # t /\ \E i \in 1..Len(usQueue) : r[k] = usQueue[i]
  BY <1>1, LeaveType, LeaveOnce
<1> HIDE DEF r
<1>3. Len(r) \in Nat /\ \A k \in 1..Len(r) : r[k] \in Tasks
  BY <1>2, LenProperties, ElementOfSeq
<1>4. \A k \in 1..Len(r) : pc'[r[k]] \in MapWaits
  BY <1>2, <1>3 DEF QueueInv
<1>5. CASE usQueue' = r
  BY <1>2, <1>4, <1>5 DEF QueueInv, Distinct, MapWaits
<1>6. CASE pc'[t] \in MapWaits /\ usQueue' = Append(r, t)
  <2>1. /\ Len(Append(r, t)) = Len(r) + 1
        /\ \A k \in 1..Len(r) : Append(r, t)[k] = r[k]
        /\ Append(r, t)[Len(r) + 1] = t
    BY <1>2, AppendProperties
  <2>2. \A k \in 1..(Len(r) + 1) : k \in 1..Len(r) \/ k = Len(r) + 1
    BY <1>3
  <2>3. Distinct(Append(r, t))
    BY <1>2, <1>3, <2>1, <2>2 DEF Distinct
  <2>4. \A k \in 1..Len(Append(r, t)) : pc'[Append(r, t)[k]] \in MapWaits
    BY <1>4, <1>6, <2>1, <2>2
  <2> QED
    BY <1>6, <2>3, <2>4 DEF QueueInv, Distinct, MapWaits
<1> QED
  BY <1>5, <1>6 DEF r

\* In a queue without repetitions no two tasks are ahead of each other.
LEMMA AheadOrder ==
  ASSUME TypeOK, QueueInv, NEW x, NEW y, x \in Ahead(y), y \in Ahead(x)
  PROVE  FALSE
<1>1. Len(usQueue) \in Nat
  BY LenProperties DEF TypeOK
<1>2. PICK i, j \in 1..Len(usQueue) : usQueue[i] = x /\ usQueue[j] = y /\ i < j
  BY DEF Ahead
<1>3. PICK k, l \in 1..Len(usQueue) : usQueue[k] = y /\ usQueue[l] = x /\ k < l
  BY DEF Ahead
<1> QED
  BY <1>1, <1>2, <1>3 DEF QueueInv, Distinct

\* A step of t changes nothing of the others' claims.
LEMMA AloneKeeps ==
  ASSUME LockInv, NEW t \in Tasks, Alone(t)
  PROVE  /\ \A b \in Blocks \ {t} : BlockLocks(b)'
         /\ \A h \in Handlers \ {t} : HandlerLocks(h)'
         /\ t # Poller => PollerLocks'
<1>t. Handlers \subseteq Tasks /\ Blocks \subseteq Tasks /\ Poller \in Tasks
  BY DEF Tasks
<1>m. PostingMutexes \subseteq Mutexes /\ Users \subseteq Mutexes /\ "batch" \in Mutexes
  BY DEF PostingMutexes, Mutexes, SharedMutexes
<1>1. ASSUME NEW b \in Blocks \ {t} PROVE BlockLocks(b)'
  BY <1>t, <1>m DEF LockInv, Alone, HandsOff, MapOff, BlockLocks, PostingMutexes
<1>2. ASSUME NEW h \in Handlers \ {t} PROVE HandlerLocks(h)'
  BY <1>t, <1>m DEF LockInv, Alone, HandsOff, MapOff, HandlerLocks
<1>3. ASSUME t # Poller PROVE PollerLocks'
  BY <1>3, <1>t, <1>m DEF LockInv, Alone, HandsOff, MapOff, PollerLocks
<1> QED
  BY <1>1, <1>2, <1>3

\* What a task does to the locks gives nothing to the others.
LEMMA LockOps ==
  ASSUME TypeOK, NEW t \in Tasks
  PROVE  /\ UNCHANGED holder => HandsOff(t)
         /\ \A M : Release(t, M) => HandsOff(t)
         /\ \A m : /\ Take(m, t)
                   /\ m = "verifiers" => holder["verifiers"] = None
                   => HandsOff(t)
         /\ UNCHANGED <<usReaders, usWriter>> => MapOff(t)
         /\ ReleaseMap(t) => MapOff(t)
         /\ ReadMap(t) => MapOff(t)
         /\ WriteMap(t) => MapOff(t)
<1>v. "verifiers" \in Mutexes /\ None \notin Tasks
  BY LocksAssumption DEF Mutexes, SharedMutexes
<1>1. \A M : Release(t, M) => HandsOff(t)
  BY <1>v, ReleaseOwn DEF HandsOff
<1>2. ASSUME NEW m, Take(m, t), m = "verifiers" => holder["verifiers"] = None
      PROVE  HandsOff(t)
  BY <1>2, <1>v DEF Take, HandsOff, TypeOK
<1>3. /\ UNCHANGED <<usReaders, usWriter>> => MapOff(t)
      /\ ReleaseMap(t) => MapOff(t)
      /\ ReadMap(t) => MapOff(t)
      /\ WriteMap(t) => MapOff(t)
  BY LocksAssumption DEF MapOff, ReleaseMap, ReadMap, WriteMap, Tasks
<1> QED
  BY <1>1, <1>2, <1>3 DEF HandsOff

\* A move keeps the queue in order.
LEMMA GoQueue ==
  ASSUME LockInv, NEW t \in Tasks, NEW from, NEW to, Go(t, from, to)
  PROVE  QueueInv'
<1>1. TypeOK /\ QueueInv
  BY DEF LockInv, PostingInv
<1>2. pc'[t] = to /\ \A c \in Tasks \ {t} : pc'[c] = pc[c]
  BY <1>1, GoMoves
<1>3. \/ usQueue' = Leave(usQueue, t)
      \/ pc'[t] \in MapWaits /\ usQueue' = Append(Leave(usQueue, t), t)
  BY <1>2 DEF Go, MapWaits
<1> QED
  BY <1>1, <1>2, <1>3, QueueKept

\* Every handler moves alone, and never holds a lock of the block tasks' own.
LEMMA HandlerLockStep ==
  ASSUME Calm, LockInv, NEW h \in Handlers, Message(h) \/ HandlerStep(h) \/ Reply(h)
  PROVE  Alone(h) /\ HandlerLocks(h)' /\ QueueInv'
<1> DEFINE Goal == Alone(h) /\ HandlerLocks(h)' /\ QueueInv'
<1> USE DEF Keep, ReleaseAll
<1>t. h \in Tasks /\ h # None /\ h \notin Blocks /\ h # Poller
  BY LocksAssumption DEF Tasks
<1>m. /\ PostingMutexes \subseteq Mutexes
      /\ "batch" \in Mutexes \ PostingMutexes
      /\ \A u \in Users : u \in Mutexes \ PostingMutexes
      /\ who[h] \notin PostingMutexes
  BY LocksAssumption, <1>t DEF LockInv, PostingInv, TypeOK, PostingMutexes, Mutexes, SharedMutexes
<1>i. TypeOK /\ HandlerLocks(h)
  BY DEF LockInv, PostingInv
<1>1. ASSUME Message(h) PROVE Goal
  <2>1. QueueInv'
    BY <1>1, <1>t, GoQueue DEF Message
  <2>2. Alone(h)
    BY <1>1, <1>t, <1>m, <1>i, GoMoves, LockOps DEF Message, Alone
  <2>3. HandlerLocks(h)'
    BY <1>1, <1>t, <1>m, <1>i, GoMoves DEF Message, HandlerLocks, HandlerPCs
  <2> QED
    BY <2>1, <2>2, <2>3
<1>2. ASSUME SubmitCheck(h) PROVE Goal
  <2>1. QueueInv'
    BY <1>2, <1>t, GoQueue DEF SubmitCheck
  <2>2. Alone(h)
    BY <1>2, <1>t, <1>m, <1>i, GoMoves, LockOps DEF SubmitCheck, Alone
  <2>3. HandlerLocks(h)'
    BY <1>2, <1>t, <1>m, <1>i, GoMoves DEF SubmitCheck, HandlerLocks, HandlerPCs
  <2> QED
    BY <2>1, <2>2, <2>3
<1>3. ASSUME SubmitInsert(h) PROVE Goal
  <2>1. QueueInv'
    BY <1>3, <1>t, GoQueue DEF SubmitInsert
  <2>2. Alone(h)
    BY <1>3, <1>t, <1>m, <1>i, GoMoves, LockOps DEF SubmitInsert, Alone
  <2>3. HandlerLocks(h)'
    BY <1>3, <1>t, <1>m, <1>i, GoMoves DEF SubmitInsert, HandlerLocks, HandlerPCs
  <2> QED
    BY <2>1, <2>2, <2>3
<1>4. ASSUME SubmitGet(h) PROVE Goal
  <2>1. QueueInv'
    BY <1>4, <1>t, GoQueue DEF SubmitGet
  <2>2. Alone(h)
    BY <1>4, <1>t, <1>m, <1>i, GoMoves, LockOps DEF SubmitGet, Alone
  <2>3. HandlerLocks(h)'
    BY <1>4, <1>t, <1>m, <1>i, GoMoves DEF SubmitGet, HandlerLocks, HandlerPCs
  <2> QED
    BY <2>1, <2>2, <2>3
<1>5. ASSUME SubmitUser(h) PROVE Goal
  <2>1. QueueInv'
    BY <1>5, <1>t, GoQueue DEF SubmitUser
  <2>2. Alone(h)
    BY <1>5, <1>t, <1>m, <1>i, GoMoves, LockOps DEF SubmitUser, Alone, PostingMutexes
  <2>3. HandlerLocks(h)'
    BY <1>5, <1>t, <1>m, <1>i, GoMoves, TakeOne DEF SubmitUser, HandlerLocks, HandlerPCs
  <2> QED
    BY <2>1, <2>2, <2>3
<1>6. ASSUME SubmitValidate(h) PROVE Goal
  <2>1. QueueInv'
    BY <1>6, <1>t, GoQueue DEF SubmitValidate
  <2>2. Alone(h)
    BY <1>6, <1>t, <1>m, <1>i, GoMoves, LockOps DEF SubmitValidate, Alone
  <2>3. HandlerLocks(h)'
    BY <1>6, <1>t, <1>m, <1>i, GoMoves, ReleaseOwn
       DEF SubmitValidate, HandlerLocks, HandlerPCs
  <2> QED
    BY <2>1, <2>2, <2>3
<1>7. ASSUME SubmitVerify(h) PROVE Goal
  <2>1. QueueInv'
    BY <1>7, <1>t, GoQueue DEF SubmitVerify
  <2>2. Alone(h)
    BY <1>7, <1>t, <1>m, <1>i, GoMoves, LockOps DEF SubmitVerify, Alone
  <2>3. HandlerLocks(h)'
    BY <1>7, <1>t, <1>m, <1>i, GoMoves, ReleaseOwn
       DEF SubmitVerify, HandlerLocks, HandlerPCs
  <2> QED
    BY <2>1, <2>2, <2>3
<1>8. ASSUME SubmitBatch(h) PROVE Goal
  <2>1. QueueInv'
    BY <1>8, <1>t, GoQueue DEF SubmitBatch
  <2>2. Alone(h)
    BY <1>8, <1>t, <1>m, <1>i, GoMoves, LockOps DEF SubmitBatch, Alone, PostingMutexes
  <2>3. HandlerLocks(h)'
    BY <1>8, <1>t, <1>m, <1>i, GoMoves, ReleaseOwn, TakeOne
       DEF SubmitBatch, HandlerLocks, HandlerPCs, Calm
  <2> QED
    BY <2>1, <2>2, <2>3
<1>9. ASSUME SubmitEvict(h) PROVE Goal
  <2>1. QueueInv'
    BY <1>9, <1>t, GoQueue DEF SubmitEvict
  <2>2. Alone(h)
    BY <1>9, <1>t, <1>m, <1>i, GoMoves, LockOps DEF SubmitEvict, Alone, PostingMutexes
  <2>3. HandlerLocks(h)'
    BY <1>9, <1>t, <1>m, <1>i, GoMoves, ReleaseOwn, TakeOne
       DEF SubmitEvict, HandlerLocks, HandlerPCs
  <2> QED
    BY <2>1, <2>2, <2>3
<1>10. ASSUME ReplaceBatch(h) PROVE Goal
  <2>1. QueueInv'
    BY <1>10, <1>t, GoQueue DEF ReplaceBatch
  <2>2. Alone(h)
    BY <1>10, <1>t, <1>m, <1>i, GoMoves, LockOps DEF ReplaceBatch, Alone, PostingMutexes
  <2>3. HandlerLocks(h)'
    BY <1>10, <1>t, <1>m, <1>i, GoMoves, ReleaseOwn, TakeOne
       DEF ReplaceBatch, HandlerLocks, HandlerPCs
  <2> QED
    BY <2>1, <2>2, <2>3
<1>11. ASSUME ReplaceVerify(h) PROVE Goal
  <2>1. QueueInv'
    BY <1>11, <1>t, GoQueue DEF ReplaceVerify
  <2>2. Alone(h)
    BY <1>11, <1>t, <1>m, <1>i, GoMoves, LockOps DEF ReplaceVerify, Alone
  <2>3. HandlerLocks(h)'
    BY <1>11, <1>t, <1>m, <1>i, GoMoves, ReleaseOwn
       DEF ReplaceVerify, HandlerLocks, HandlerPCs
  <2> QED
    BY <2>1, <2>2, <2>3
<1>12. ASSUME QueryMap(h) PROVE Goal
  <2>1. QueueInv'
    BY <1>12, <1>t, GoQueue DEF QueryMap
  <2>2. Alone(h)
    BY <1>12, <1>t, <1>m, <1>i, GoMoves, LockOps DEF QueryMap, Alone
  <2>3. HandlerLocks(h)'
    BY <1>12, <1>t, <1>m, <1>i, GoMoves, ReleaseOwn DEF QueryMap, HandlerLocks, HandlerPCs
  <2> QED
    BY <2>1, <2>2, <2>3
<1>13. ASSUME QueryUser(h) PROVE Goal
  <2>1. QueueInv'
    BY <1>13, <1>t, GoQueue DEF QueryUser
  <2>2. Alone(h)
    BY <1>13, <1>t, <1>m, <1>i, GoMoves, LockOps DEF QueryUser, Alone
  <2>3. HandlerLocks(h)'
    BY <1>13, <1>t, <1>m, <1>i, GoMoves, ReleaseOwn DEF QueryUser, HandlerLocks, HandlerPCs
  <2> QED
    BY <2>1, <2>2, <2>3
<1>14. ASSUME Reply(h) PROVE Goal
  <2>1. QueueInv'
    BY <1>14, <1>t, GoQueue DEF Reply
  <2>2. Alone(h)
    BY <1>14, <1>t, <1>m, <1>i, GoMoves, LockOps DEF Reply, Alone
  <2>3. HandlerLocks(h)'
    BY <1>14, <1>t, <1>m, <1>i, GoMoves, ReleaseOwn DEF Reply, HandlerLocks, HandlerPCs
  <2> QED
    BY <2>1, <2>2, <2>3
<1> HIDE DEF Goal
<1>g. Goal
  BY <1>1, <1>2, <1>3, <1>4, <1>5, <1>6, <1>7, <1>8, <1>9, <1>10, <1>11, <1>12, <1>13, <1>14
     DEF HandlerStep
<1> QED
  BY <1>g DEF Goal

\* The poller keeps user_states only where it must, and no mutex at all.
LEMMA PollLockStep ==
  ASSUME LockInv, PollEvent \/ PollStep
  PROVE  Alone(Poller) /\ PollerLocks' /\ QueueInv'
<1> DEFINE Goal == Alone(Poller) /\ PollerLocks' /\ QueueInv'
<1> USE DEF Keep, ReleaseAll
<1>t. Poller \in Tasks /\ Poller # None /\ Poller \notin Blocks
  BY LocksAssumption DEF Tasks
<1>i. TypeOK /\ PollerLocks
  BY DEF LockInv, PostingInv
<1>1. ASSUME PollEvent PROVE Goal
  <2>1. QueueInv'
    BY <1>1, <1>t, GoQueue DEF PollEvent
  <2>2. Alone(Poller)
    BY <1>1, <1>t, <1>i, GoMoves, LockOps DEF PollEvent, Alone
  <2>3. PollerLocks'
    BY <1>1, <1>t, <1>i, GoMoves DEF PollEvent, PollerLocks, PollPCs
  <2> QED
    BY <2>1, <2>2, <2>3
<1>2. ASSUME PollMap PROVE Goal
  <2>1. QueueInv'
    BY <1>2, <1>t, GoQueue DEF PollMap
  <2>2. Alone(Poller)
    BY <1>2, <1>t, <1>i, GoMoves, LockOps DEF PollMap, Alone
  <2>3. PollerLocks'
    BY <1>2, <1>t, <1>i, GoMoves, ReleaseOwn
       DEF PollMap, PollerLocks, PollPCs, ReleaseMap, ReadMap
  <2> QED
    BY <2>1, <2>2, <2>3
<1>3. ASSUME PollUser PROVE Goal
  <2>1. QueueInv'
    BY <1>3, <1>t, GoQueue DEF PollUser
  <2>2. Alone(Poller)
    BY <1>3, <1>t, <1>i, GoMoves, LockOps DEF PollUser, Alone
  <2>3. PollerLocks'
    BY <1>3, <1>t, <1>i, GoMoves, ReleaseOwn DEF PollUser, PollerLocks, PollPCs, ReleaseMap
  <2> QED
    BY <2>1, <2>2, <2>3
<1>4. ASSUME PollRemove PROVE Goal
  <2>1. QueueInv'
    BY <1>4, <1>t, GoQueue DEF PollRemove
  <2>2. Alone(Poller)
    BY <1>4, <1>t, <1>i, GoMoves, LockOps DEF PollRemove, Alone
  <2>3. PollerLocks'
    BY <1>4, <1>t, <1>i, GoMoves DEF PollRemove, PollerLocks, PollPCs, WriteMap
  <2> QED
    BY <2>1, <2>2, <2>3
<1>5. ASSUME PollBatch PROVE Goal
  <2>1. QueueInv'
    BY <1>5, <1>t, GoQueue DEF PollBatch
  <2>2. Alone(Poller)
    BY <1>5, <1>t, <1>i, GoMoves, LockOps DEF PollBatch, Alone
  <2>3. PollerLocks'
    BY <1>5, <1>t, <1>i, GoMoves, ReleaseOwn DEF PollBatch, PollerLocks, PollPCs, ReleaseMap
  <2> QED
    BY <2>1, <2>2, <2>3
<1> HIDE DEF Goal
<1>g. Goal
  BY <1>1, <1>2, <1>3, <1>4, <1>5 DEF PollStep
<1> QED
  BY <1>g DEF Goal

\* A timeout gives up what the task holds, or leaves it to the answer.
LEMMA TimeoutLockStep ==
  ASSUME LockInv, NEW t \in Handlers \cup {Poller}, Timeout(t)
  PROVE  /\ Alone(t) /\ QueueInv'
         /\ t \in Handlers => HandlerLocks(t)'
         /\ t = Poller => PollerLocks'
<1> USE DEF ReleaseAll
<1>t. t \in Tasks /\ t # None /\ t \notin Blocks
  BY LocksAssumption DEF Tasks
<1>i. TypeOK /\ QueueInv /\ PollerLocks
  BY DEF LockInv, PostingInv
<1>1. pc'[t] \in {"idle", "reply"} /\ \A c \in Tasks \ {t} : pc'[c] = pc[c]
  BY <1>t, <1>i DEF Timeout, TypeOK
<1>2. QueueInv'
  BY <1>t, <1>i, <1>1, QueueKept DEF Timeout
<1>3. Alone(t)
  <2>1. HandsOff(t) /\ MapOff(t)
    <3>1. CASE ReleaseAll(t)
      BY <3>1, <1>t, <1>i, LockOps
    <3>2. CASE Keep
      BY <3>2 DEF Keep, HandsOff, MapOff
    <3> QED
      BY <3>1, <3>2 DEF Timeout
  <2>2. todo' = todo
    BY DEF Timeout
  <2> QED
    BY <1>1, <2>1, <2>2 DEF Alone
<1>m. PostingMutexes \subseteq Mutexes
  BY DEF PostingMutexes, Mutexes, SharedMutexes
<1>4. ASSUME pc'[t] = "idle", ReleaseAll(t)
      PROVE  /\ t \in Handlers => HandlerLocks(t)'
             /\ t = Poller => PollerLocks'
  <2>1. \A m \in Mutexes : holder'[m] # t
    BY <1>4, <1>t, <1>i, ReleaseOwn
  <2>2. t \notin usReaders' /\ usWriter' # t
    BY <1>4, <1>t DEF ReleaseMap
  <2> QED
    BY <1>4, <1>m, <2>1, <2>2 DEF HandlerLocks, HandlerPCs, PollerLocks, PollPCs
<1>5. ASSUME pc[t] \in {"submit_batch", "query_user"}, pc'[t] = "reply", Keep
      PROVE  t \in Handlers /\ HandlerLocks(t)'
  <2>1. t \in Handlers
    BY <1>5, <1>i DEF PollerLocks, PollPCs
  <2>2. HandlerLocks(t)
    BY <2>1 DEF LockInv
  <2> QED
    BY <1>5, <2>1, <2>2 DEF HandlerLocks, HandlerPCs, Keep
<1>6. \/ pc'[t] = "idle" /\ ReleaseAll(t)
      \/ pc[t] \in {"submit_batch", "query_user"} /\ pc'[t] = "reply" /\ Keep
  BY <1>t, <1>i DEF Timeout, TypeOK
<1> QED
  BY <1>2, <1>3, <1>4, <1>5, <1>6, LocksAssumption

\* Every block task moves alone, and keeps to where its locks let it be.
LEMMA BlockLockStep ==
  ASSUME Calm, LockInv, NEW b \in Blocks, NewBlock(b) \/ BlockStep(b) \/ SendInclusion(b)
  PROVE  Alone(b) /\ BlockLocks(b)' /\ QueueInv'
<1> DEFINE Goal == Alone(b) /\ BlockLocks(b)' /\ QueueInv'
<1> USE DEF Keep, ReleaseAll
<1>t. b \in Tasks /\ b # None /\ Blocks \subseteq Tasks
  BY LocksAssumption DEF Tasks
<1>m. /\ {"verifiers", "posting", "uploaded", "batch"} \subseteq Mutexes
      /\ \A u \in Users : u \in Mutexes /\ u \notin {"verifiers", "posting", "uploaded", "batch"}
      /\ who[b] \in Users \cup {None} /\ None \notin Mutexes
  BY LocksAssumption, <1>t DEF LockInv, PostingInv, TypeOK, Mutexes, SharedMutexes
<1>i. TypeOK /\ LocalInv(b) /\ BlockLocks(b)
  BY DEF LockInv, PostingInv
<1>1. ASSUME NewBlock(b) PROVE Goal
  <2>1. QueueInv'
    BY <1>1, <1>t, GoQueue DEF NewBlock
  <2>2. Alone(b)
    BY <1>1, <1>t, <1>m, <1>i, GoMoves, LockOps DEF NewBlock, Alone, TypeOK
  <2>3. BlockLocks(b)'
    BY <1>1, <1>t, <1>m, <1>i, GoMoves
       DEF NewBlock, BlockLocks, BlockPCs, LocalInv, FlushPCs, RecoveryPCs, TypeOK
  <2> QED
    BY <2>1, <2>2, <2>3
<1>2. ASSUME BlockVerifiers(b) PROVE Goal
  <2>1. QueueInv'
    BY <1>2, <1>t, GoQueue DEF BlockVerifiers
  <2>2. Alone(b)
    BY <1>2, <1>t, <1>m, <1>i, GoMoves, FreeMutex, LockOps
       DEF BlockVerifiers, Alone, TypeOK
  <2>3. BlockLocks(b)'
    BY <1>2, <1>t, <1>m, <1>i, GoMoves, TakeOne
       DEF BlockVerifiers, BlockLocks, BlockPCs, LocalInv, FlushPCs, RecoveryPCs, TypeOK
  <2> QED
    BY <2>1, <2>2, <2>3
<1>3. ASSUME FlushBatch(b) PROVE Goal
  <2>1. QueueInv'
    BY <1>3, <1>t, GoQueue DEF FlushBatch
  <2>2. Alone(b)
    BY <1>3, <1>t, <1>m, <1>i, GoMoves, LockOps DEF FlushBatch, Alone, TypeOK
  <2>3. BlockLocks(b)'
    BY <1>3, <1>t, <1>m, <1>i, GoMoves, TakeOne
       DEF FlushBatch, BlockLocks, BlockPCs, LocalInv, FlushPCs, RecoveryPCs, TypeOK
  <2> QED
    BY <2>1, <2>2, <2>3
<1>4. ASSUME FlushMap(b) PROVE Goal
  <2>1. QueueInv'
    BY <1>4, <1>t, GoQueue DEF FlushMap
  <2>2. Alone(b)
    BY <1>4, <1>t, <1>m, <1>i, GoMoves, LockOps DEF FlushMap, Alone, TypeOK
  <2>3. BlockLocks(b)'
    <3>1. CASE Go(b, "flush_map", "flush_insert") /\ Keep
      BY <3>1, <1>t, <1>m, <1>i, GoMoves DEF BlockLocks, BlockPCs, FlushPCs
    <3>2. CASE \E from \in {"flush_map", "flush_insert"} :
                  Go(b, from, AfterFlush(b)) /\ ReleaseAll(b)
      <4>1. pc[b] \in FlushPCs /\ pc'[b] \in {"extract_batch", "reset_posting"}
            /\ (pc'[b] = "reset_posting" => holder["verifiers"] # b)
        BY <3>2, <1>t, <1>i, GoMoves DEF AfterFlush, FlushPCs
      <4>2. \A m \in Mutexes : holder'[m] # b
        BY <3>2, <1>t, <1>i, ReleaseOwn
      <4>3. b \notin usReaders' /\ usWriter' # b
        BY <3>2, <1>t DEF ReleaseMap
      <4>4. UNCHANGED todo
        BY <1>4 DEF FlushMap
      <4> QED
        BY <4>1, <4>2, <4>3, <4>4, <1>m, <1>i DEF BlockLocks, BlockPCs, FlushPCs
    <3> QED
      BY <1>4, <3>1, <3>2 DEF FlushMap
  <2> QED
    BY <2>1, <2>2, <2>3
<1>5. ASSUME ExtractBatch(b) PROVE Goal
  <2>1. QueueInv'
    BY <1>5, <1>t, GoQueue DEF ExtractBatch
  <2>2. Alone(b)
    BY <1>5, <1>t, <1>m, <1>i, GoMoves, LockOps DEF ExtractBatch, Alone, TypeOK
  <2>3. BlockLocks(b)'
    BY <1>5, <1>t, <1>m, <1>i, GoMoves, TakeOne
       DEF ExtractBatch, BlockLocks, BlockPCs, LocalInv, FlushPCs, RecoveryPCs, TypeOK
  <2> QED
    BY <2>1, <2>2, <2>3
<1>6. ASSUME ExtractUploaded(b) PROVE Goal
  <2>1. QueueInv'
    BY <1>6, <1>t, GoQueue DEF ExtractUploaded
  <2>2. Alone(b)
    BY <1>6, <1>t, <1>m, <1>i, GoMoves, LockOps DEF ExtractUploaded, Alone, TypeOK
  <2>3. BlockLocks(b)'
    BY <1>6, <1>t, <1>m, <1>i, GoMoves, ReleaseOwn, TakeOne
       DEF ExtractUploaded, BlockLocks, BlockPCs, LocalInv, FlushPCs, RecoveryPCs, TypeOK,
           ReleaseMap
  <2> QED
    BY <2>1, <2>2, <2>3
<1>7. ASSUME ExtractPosting(b) PROVE Goal
  <2>1. QueueInv'
    BY <1>7, <1>t, GoQueue DEF ExtractPosting
  <2>2. Alone(b)
    BY <1>7, <1>t, <1>m, <1>i, GoMoves, LockOps DEF ExtractPosting, Alone, TypeOK
  <2>3. BlockLocks(b)'
    BY <1>7, <1>t, <1>m, <1>i, GoMoves, ReleaseOwn
       DEF ExtractPosting, BlockLocks, BlockPCs, LocalInv, FlushPCs, RecoveryPCs, TypeOK,
           ReleaseMap
  <2> QED
    BY <2>1, <2>2, <2>3
<1>8. ASSUME FinalizeUploaded(b) PROVE Goal
  <2>1. QueueInv'
    BY <1>8, <1>t, GoQueue DEF FinalizeUploaded
  <2>2. Alone(b)
    BY <1>8, <1>t, <1>m, <1>i, GoMoves, LockOps DEF FinalizeUploaded, Alone, TypeOK
  <2>3. BlockLocks(b)'
    BY <1>8, <1>t, <1>m, <1>i, GoMoves
       DEF FinalizeUploaded, BlockLocks, BlockPCs, LocalInv, FlushPCs, RecoveryPCs, TypeOK
  <2> QED
    BY <2>1, <2>2, <2>3
<1>9. ASSUME SubmitTask(b) PROVE Goal
  <2>1. QueueInv'
    BY <1>9, <1>t, GoQueue DEF SubmitTask
  <2>2. Alone(b)
    BY <1>9, <1>t, <1>m, <1>i, GoMoves, LockOps DEF SubmitTask, Alone, TypeOK
  <2>3. BlockLocks(b)'
    BY <1>9, <1>t, <1>m, <1>i, GoMoves
       DEF SubmitTask, BlockLocks, BlockPCs, LocalInv, FlushPCs, RecoveryPCs, TypeOK
  <2> QED
    BY <2>1, <2>2, <2>3
<1>10. ASSUME UpdateMap(b) PROVE Goal
  <2>1. QueueInv'
    BY <1>10, <1>t, GoQueue DEF UpdateMap, AfterUpdate, UserUpdated
  <2>2. Alone(b)
    BY <1>10, <1>t, <1>m, <1>i, GoMoves, LockOps DEF UpdateMap, Alone, TypeOK, AfterUpdate,
       UserUpdated
  <2>3. BlockLocks(b)'
    BY <1>10, <1>t, <1>m, <1>i, GoMoves, ReleaseOwn
       DEF UpdateMap, BlockLocks, BlockPCs, LocalInv, FlushPCs, RecoveryPCs, TypeOK,
           ReleaseMap, ReadMap, AfterUpdate, UserUpdated
  <2> QED
    BY <2>1, <2>2, <2>3
<1>11. ASSUME UpdateUser(b) PROVE Goal
  <2>1. QueueInv'
    BY <1>11, <1>t, GoQueue DEF UpdateUser
  <2>2. Alone(b)
    BY <1>11, <1>t, <1>m, <1>i, GoMoves, LockOps DEF UpdateUser, Alone, TypeOK
  <2>3. BlockLocks(b)'
    BY <1>11, <1>t, <1>m, <1>i, GoMoves, TakeOne
       DEF UpdateUser, BlockLocks, BlockPCs, LocalInv, FlushPCs, RecoveryPCs, TypeOK
  <2> QED
    BY <2>1, <2>2, <2>3
<1>12. ASSUME UpdateBatch(b) PROVE Goal
  <2>1. QueueInv'
    BY <1>12, <1>t, GoQueue DEF UpdateBatch, AfterUpdate, UserUpdated
  <2>2. Alone(b)
    BY <1>12, <1>t, <1>m, <1>i, GoMoves, LockOps DEF UpdateBatch, Alone, TypeOK,
       AfterUpdate, UserUpdated
  <2>3. BlockLocks(b)'
    BY <1>12, <1>t, <1>m, <1>i, GoMoves, ReleaseOwn
       DEF UpdateBatch, BlockLocks, BlockPCs, LocalInv, FlushPCs, RecoveryPCs, TypeOK,
           ReleaseMap, AfterUpdate, UserUpdated
  <2> QED
    BY <2>1, <2>2, <2>3
<1>13. ASSUME Cleanup(b) PROVE Goal
  <2>1. QueueInv'
    BY <1>13, <1>t, GoQueue DEF Cleanup
  <2>2. Alone(b)
    BY <1>13, <1>t, <1>m, <1>i, GoMoves, LockOps DEF Cleanup, Alone, TypeOK
  <2>3. BlockLocks(b)'
    BY <1>13, <1>t, <1>m, <1>i, GoMoves, TakeOne
       DEF Cleanup, BlockLocks, BlockPCs, LocalInv, FlushPCs, RecoveryPCs, TypeOK
  <2> QED
    BY <2>1, <2>2, <2>3
<1>14. ASSUME CleanupMap(b) PROVE Goal
  <2>1. QueueInv'
    BY <1>14, <1>t, GoQueue DEF CleanupMap
  <2>2. Alone(b)
    BY <1>14, <1>t, <1>m, <1>i, GoMoves, LockOps DEF CleanupMap, Alone, TypeOK
  <2>3. BlockLocks(b)'
    BY <1>14, <1>t, <1>m, <1>i, GoMoves, ReleaseOwn
       DEF CleanupMap, BlockLocks, BlockPCs, LocalInv, FlushPCs, RecoveryPCs, TypeOK,
           ReleaseMap
  <2> QED
    BY <2>1, <2>2, <2>3
<1>15. ASSUME ResetPosting(b) PROVE Goal
  <2>1. QueueInv'
    BY <1>15, <1>t, GoQueue DEF ResetPosting
  <2>2. Alone(b)
    BY <1>15, <1>t, <1>m, <1>i, GoMoves, LockOps DEF ResetPosting, Alone, TypeOK
  <2>3. BlockLocks(b)'
    BY <1>15, <1>t, <1>m, <1>i, GoMoves, ReleaseOwn, TakeOne
       DEF ResetPosting, BlockLocks, BlockPCs, LocalInv, FlushPCs, RecoveryPCs, TypeOK,
           ReleaseMap
  <2> QED
    BY <2>1, <2>2, <2>3
<1>16. ASSUME RestoreMap(b) PROVE Goal
  <2>1. QueueInv'
    BY <1>16, <1>t, GoQueue DEF RestoreMap
  <2>2. Alone(b)
    BY <1>16, <1>t, <1>m, <1>i, GoMoves, LockOps DEF RestoreMap, Alone, TypeOK
  <2>3. BlockLocks(b)'
    BY <1>16, <1>t, <1>m, <1>i, GoMoves
       DEF RestoreMap, BlockLocks, BlockPCs, LocalInv, FlushPCs, RecoveryPCs, TypeOK,
           WriteMap
  <2> QED
    BY <2>1, <2>2, <2>3
<1>17. ASSUME RestoreBatch(b) PROVE Goal
  <2>1. QueueInv'
    BY <1>17, <1>t, GoQueue DEF RestoreBatch
  <2>2. Alone(b)
    BY <1>17, <1>t, <1>m, <1>i, GoMoves, LockOps DEF RestoreBatch, Alone, TypeOK
  <2>3. BlockLocks(b)'
    BY <1>17, <1>t, <1>m, <1>i, GoMoves, ReleaseOwn, TakeOne
       DEF RestoreBatch, BlockLocks, BlockPCs, LocalInv, FlushPCs, RecoveryPCs, Calm, TypeOK,
           ReleaseMap
  <2> QED
    BY <2>1, <2>2, <2>3
<1>18. ASSUME SendInclusion(b) PROVE Goal
  <2>1. QueueInv'
    BY <1>18, <1>t, GoQueue DEF SendInclusion
  <2>2. Alone(b)
    BY <1>18, <1>t, <1>m, <1>i, GoMoves, LockOps DEF SendInclusion, Alone, TypeOK
  <2>3. BlockLocks(b)'
    BY <1>18, <1>t, <1>m, <1>i, GoMoves
       DEF SendInclusion, BlockLocks, BlockPCs, LocalInv, FlushPCs, RecoveryPCs, TypeOK
  <2> QED
    BY <2>1, <2>2, <2>3
<1> HIDE DEF Goal
<1>g. Goal
  BY <1>1, <1>2, <1>3, <1>4, <1>5, <1>6, <1>7, <1>8, <1>9, <1>10, <1>11, <1>12, <1>13,
     <1>14, <1>15, <1>16, <1>17, <1>18 DEF BlockStep
<1> QED
  BY <1>g DEF Goal

\* A block task that has begun and not ended leaves the order of blocks alone.
LEMMA ActiveStep ==
  ASSUME LockInv, NEW t \in Tasks, Alone(t),
         t \in Blocks => pc[t] \notin {"idle", "done"} \/ NewBlock(t)
  PROVE  OneActive'
<1> SUFFICES ASSUME ~BlocksOverlap, NEW c \in Blocks, pc'[c] # "idle", NEW a \in 1..(c - 1)
             PROVE  pc'[a] = "done"
  BY DEF OneActive
<1>1. a \in Blocks /\ a # c /\ Blocks \subseteq Tasks
  BY LocksAssumption DEF Blocks, Tasks
<1>2. \A d \in Blocks \ {t} : pc'[d] = pc[d]
  BY <1>1 DEF Alone
<1>3. pc[a] = "done"
  <2>1. CASE t = c /\ NewBlock(c)
    BY <2>1 DEF NewBlock
  <2>2. CASE pc[c] # "idle"
    BY <2>2 DEF LockInv, OneActive
  <2> QED
    BY <2>1, <2>2, <1>2
<1>4. a # t
  BY <1>1, <1>3 DEF NewBlock, Go
<1> QED
  BY <1>1, <1>2, <1>3, <1>4

\* A step of a block task starts where the task has begun and not ended.
LEMMA BlockStepActive ==
  ASSUME NEW b, BlockStep(b) \/ SendInclusion(b)
  PROVE  pc[b] \notin {"idle", "done"}
BY DEF BlockStep, BlockVerifiers, FlushBatch, FlushMap, ExtractBatch, ExtractUploaded,
       ExtractPosting, FinalizeUploaded, SubmitTask, UpdateMap, UpdateUser, UpdateBatch,
       Cleanup, CleanupMap, SendInclusion, ResetPosting, RestoreMap, RestoreBatch, Go

\* Every step keeps the invariant.
LEMMA LockInvStep == Calm /\ LockInv /\ [Next]_vars => LockInv'
<1> SUFFICES ASSUME Calm, LockInv, [Next]_vars PROVE LockInv'
  OBVIOUS
<1>t. Handlers \subseteq Tasks /\ Blocks \subseteq Tasks /\ Poller \in Tasks
  BY DEF Tasks
<1>d. Blocks \cap Handlers = {} /\ Poller \notin Blocks \cup Handlers
  BY LocksAssumption
<1>p. PostingInv'
  BY PostingInvStep DEF LockInv
<1>1. ASSUME NEW h \in Handlers, Message(h) \/ HandlerStep(h) \/ Reply(h) PROVE LockInv'
  <2>1. Alone(h) /\ HandlerLocks(h)' /\ QueueInv'
    BY <1>1, HandlerLockStep
  <2>2. OneActive'
    BY <2>1, <1>t, <1>d, ActiveStep
  <2> QED
    BY <2>1, <2>2, <1>t, <1>d, <1>p, AloneKeeps DEF LockInv
<1>2. ASSUME PollEvent \/ PollStep PROVE LockInv'
  <2>1. Alone(Poller) /\ PollerLocks' /\ QueueInv'
    BY <1>2, PollLockStep
  <2>2. OneActive'
    BY <2>1, <1>t, <1>d, ActiveStep
  <2> QED
    BY <2>1, <2>2, <1>t, <1>d, <1>p, AloneKeeps DEF LockInv
<1>3. ASSUME NEW t \in Handlers \cup {Poller}, Timeout(t) PROVE LockInv'
  <2>1. /\ Alone(t) /\ QueueInv'
        /\ t \in Handlers => HandlerLocks(t)'
        /\ t = Poller => PollerLocks'
    BY <1>3, TimeoutLockStep
  <2>2. OneActive'
    BY <2>1, <1>t, <1>d, ActiveStep
  <2> QED
    BY <2>1, <2>2, <1>t, <1>d, <1>p, AloneKeeps DEF LockInv
<1>4. ASSUME NEW b \in Blocks, NewBlock(b) \/ BlockStep(b) \/ SendInclusion(b) PROVE LockInv'
  <2>1. Alone(b) /\ BlockLocks(b)' /\ QueueInv'
    BY <1>4, BlockLockStep
  <2>2. OneActive'
    BY <1>4, <2>1, <1>t, ActiveStep, BlockStepActive
  <2> QED
    BY <2>1, <2>2, <1>t, <1>d, <1>p, AloneKeeps DEF LockInv
<1>5. CASE UNCHANGED vars
  BY <1>5, <1>p DEF LockInv, vars, lockVars, valueVars, BlockLocks, HandlerLocks, PollerLocks,
                    QueueInv, Distinct, OneActive
<1> QED
  BY <1>1, <1>2, <1>3, <1>4, <1>5 DEF Next

\* At the start every task is idle and every lock free.
LEMMA LockInvInit == Init => LockInv
<1> SUFFICES ASSUME Init PROVE LockInv
  OBVIOUS
<1>1. PostingInv
  BY PostingInvInit
<1>2. /\ \A t \in Tasks : pc[t] = "idle" /\ t # None
      /\ \A m \in Mutexes : holder[m] = None
      /\ \A b \in Blocks : todo[b] = {}
  BY LocksAssumption DEF Init
<1>3. Handlers \subseteq Tasks /\ Blocks \subseteq Tasks /\ Poller \in Tasks
  BY DEF Tasks
<1>4. PostingMutexes \subseteq Mutexes /\ Users \subseteq Mutexes /\ "batch" \in Mutexes
  BY DEF PostingMutexes, Mutexes, SharedMutexes
<1>5. \A b \in Blocks : BlockLocks(b)
  BY <1>2, <1>3, <1>4 DEF Init, BlockLocks, BlockPCs, FlushPCs, PostingMutexes
<1>6. (\A h \in Handlers : HandlerLocks(h)) /\ PollerLocks
  BY <1>2, <1>3, <1>4 DEF Init, HandlerLocks, HandlerPCs, PollerLocks, PollPCs
<1>7. QueueInv
  BY EmptySeq DEF Init, QueueInv, Distinct
<1>8. OneActive
  BY <1>2, <1>3 DEF OneActive
<1> QED
  BY <1>1, <1>5, <1>6, <1>7, <1>8 DEF LockInv

-----------------------------------------------------------------------------
(***************************************************************************)
(* From the invariant to the absence of a circle.  Handlers only wait      *)
(* without a timeout for disabled_verifiers, which nobody holds then.  The *)
(* block tasks of a circle come down to one, which can only meet the       *)
(* poller in the queue for user_states, and there one of them is first.    *)
(***************************************************************************)

\* What a block task in a circle waits for, and who stands in its way.
LEMMA BlockWaits ==
  ASSUME LockInv, NEW b \in Blocks, Waiting(b), NEW x \in BlockedBy(b)
  PROVE  \/ /\ pc[b] \in {"update_map", "cleanup_map", "flush_map", "restore_map"}
            /\ x = usWriter \/ x \in usReaders \/ x \in Ahead(b)
         \/ pc[b] = "update_user" /\ who[b] \in Users /\ x = holder[who[b]]
         \/ /\ pc[b] \in {"flush_batch", "extract_batch", "update_batch", "restore_batch"}
            /\ x = holder["batch"]
         \/ pc[b] = "block_verifiers" /\ x = holder["verifiers"]
         \/ pc[b] \in {"extract_uploaded", "finalize_uploaded"} /\ x = holder["uploaded"]
         \/ pc[b] \in {"extract_posting", "reset_posting"} /\ x = holder["posting"]
<1>1. pc[b] \in BlockPCs /\ who[b] \in Users \cup {None}
  BY DEF LockInv, BlockLocks, PostingInv, TypeOK, Tasks
<1>2. CASE pc[b] \in MapWaits
  BY <1>1, <1>2 DEF BlockedBy, MapWaits, WaitsForRead, WaitsForWrite, BlockPCs
<1>3. CASE pc[b] \notin MapWaits
  <2>1. x = holder[WantedMutex(b)] /\ WantedMutex(b) # None
    BY <1>3 DEF BlockedBy, MapWaits
  <2> QED
    BY <1>1, <1>3, <2>1 DEF WantedMutex, BlockPCs, MapWaits, WaitsForRead, WaitsForWrite
<1> QED
  BY <1>2, <1>3

\* The poller waits without a timeout for user_states only.
LEMMA PollerWaits ==
  ASSUME LockInv, Waiting(Poller), pc[Poller] \notin TimedWaits, NEW x \in BlockedBy(Poller)
  PROVE  /\ pc[Poller] \in {"poll_map", "poll_remove"}
         /\ x = usWriter \/ x \in usReaders \/ x \in Ahead(Poller)
<1>1. pc[Poller] \in {"poll_map", "poll_remove"}
  BY DEF LockInv, PollerLocks, PollPCs, TimedWaits, Waiting, WaitsForMap, WantedMutex,
         WaitsForRead, WaitsForWrite
<1> QED
  BY <1>1 DEF BlockedBy, WaitsForRead, WaitsForWrite

\* A task ahead in the queue waits for user_states itself.
LEMMA AheadWaits ==
  ASSUME LockInv, NEW t, NEW x \in Ahead(t)
  PROVE  pc[x] \in MapWaits
BY DEF Ahead, LockInv, QueueInv

\* A circle has no handler in it.
LEMMA NoHandlerInCircle ==
  ASSUME Calm, LockInv, NEW S \in SUBSET Tasks, WaitForEver(S)
  PROVE  S \subseteq Blocks \cup {Poller}
<1> SUFFICES ASSUME NEW h \in Handlers, h \in S PROVE FALSE
  BY DEF Tasks
<1>1. HandlerLocks(h) /\ Waiting(h) /\ pc[h] \notin TimedWaits /\ BlockedBy(h) \cap S # {}
  BY DEF LockInv, WaitForEver
<1>2. pc[h] \in {"submit_verify", "replace_verify"}
  BY <1>1 DEF HandlerLocks, HandlerPCs, TimedWaits, Waiting, WaitsForMap, WantedMutex,
              WaitsForRead, WaitsForWrite
<1>3. ~VerifiersChange
  BY <1>1, <1>2 DEF HandlerLocks, Calm
<1>4. BlockedBy(h) = {holder["verifiers"]} \ {None}
  BY <1>2, LocksAssumption
     DEF BlockedBy, WantedMutex, WaitsForRead, WaitsForWrite, Mutexes, SharedMutexes
<1>5. holder["verifiers"] \in Tasks
  BY <1>1, <1>4
<1>6. holder["verifiers"] \notin Blocks
  BY <1>3 DEF LockInv, BlockLocks
<1>7. holder["verifiers"] \notin Handlers
  BY DEF LockInv, HandlerLocks, PostingMutexes
<1>8. holder["verifiers"] # Poller
  BY DEF LockInv, PollerLocks, Mutexes, SharedMutexes
<1> QED
  BY <1>5, <1>6, <1>7, <1>8 DEF Tasks

\* The poller in a circle holds nothing.
LEMMA PollerHoldsNothing ==
  ASSUME LockInv, NEW S, WaitForEver(S), Poller \in S
  PROVE  /\ \A m \in Mutexes : holder[m] # Poller
         /\ Poller \notin usReaders /\ usWriter # Poller
BY DEF LockInv, PollerLocks, WaitForEver, TimedWaits

\* A block task and the poller cannot make a circle.
LEMMA NoPair ==
  ASSUME LockInv, NEW S, WaitForEver(S), NEW b \in Blocks, S \subseteq {b, Poller}, S # {}
  PROVE  FALSE
<1>b. /\ BlockLocks(b) /\ LocalInv(b) /\ TypeOK /\ QueueInv /\ b # Poller
      /\ b # None
  BY LocksAssumption DEF LockInv, PostingInv, Tasks
<1>m. SharedMutexes \subseteq Mutexes /\ Users \subseteq Mutexes
  BY DEF Mutexes
<1>1. ASSUME b \in S PROVE Poller \in S /\ Poller \in Ahead(b) /\ pc[b] \in MapWaits
  <2>1. Waiting(b) /\ BlockedBy(b) \cap S # {}
    BY <1>1 DEF WaitForEver
  <2>2. PICK x \in BlockedBy(b) : x \in {b, Poller} /\ x \in S
    BY <2>1
  <2>3. b \notin BlockedBy(b)
    <3> SUFFICES ASSUME b \in BlockedBy(b) PROVE FALSE
      OBVIOUS
    <3>1. b \notin Ahead(b)
      BY <1>b, AheadOrder
    <3> QED
      BY <3>1, <2>1, <1>b, BlockWaits DEF BlockLocks, LocalInv, FlushPCs, RecoveryPCs
  <2>4. x = Poller /\ Poller \in S
    BY <2>2, <2>3
  <2>5. /\ \A m \in Mutexes : holder[m] # Poller
        /\ Poller \notin usReaders /\ usWriter # Poller
    BY <2>4, PollerHoldsNothing
  <2> QED
    BY <2>1, <2>2, <2>4, <2>5, <1>m, BlockWaits
       DEF SharedMutexes, MapWaits, WaitsForRead, WaitsForWrite
<1>2. ASSUME Poller \in S PROVE b \in S
  <2>1. Waiting(Poller) /\ pc[Poller] \notin TimedWaits /\ BlockedBy(Poller) \cap S # {}
    BY <1>2 DEF WaitForEver
  <2>2. Poller \notin BlockedBy(Poller)
    BY <2>1, <1>2, <1>b, PollerWaits, PollerHoldsNothing, AheadOrder
  <2> QED
    BY <2>1, <2>2
<1>3. b \in S /\ Poller \in S
  BY <1>1, <1>2
<1>4. b \in Ahead(Poller)
  <2>1. Waiting(Poller) /\ pc[Poller] \notin TimedWaits /\ BlockedBy(Poller) \cap S # {}
    BY <1>3 DEF WaitForEver
  <2>2. Poller \notin BlockedBy(Poller)
    BY <2>1, <1>3, <1>b, PollerWaits, PollerHoldsNothing, AheadOrder
  <2>3. b \in BlockedBy(Poller)
    BY <2>1, <2>2
  <2>4. b # usWriter /\ b \notin usReaders
    BY <1>1, <1>3, <1>b DEF BlockLocks, MapWaits, WaitsForRead, WaitsForWrite
  <2> QED
    BY <2>1, <2>3, <2>4, PollerWaits
<1> QED
  BY <1>1, <1>3, <1>4, <1>b, AheadOrder

\* Blocks one after the other: one block task at most is in a circle.
LEMMA NoCircleOfOneBlock ==
  ASSUME Calm, LockInv, ~BlocksOverlap, NEW S \in SUBSET Tasks, WaitForEver(S), S # {}
  PROVE  FALSE
<1>1. S \subseteq Blocks \cup {Poller}
  BY NoHandlerInCircle
<1>2. ASSUME NEW b \in Blocks, NEW c \in Blocks, b \in S, c \in S PROVE b = c
  <2>1. \A d \in {b, c} : pc[d] \notin {"idle", "done"}
    BY <1>2, LocksAssumption
       DEF WaitForEver, Waiting, WaitsForMap, WantedMutex, WaitsForRead, WaitsForWrite
  <2>2. ~ b < c /\ ~ c < b
    BY <1>2, <2>1, LocksAssumption DEF LockInv, OneActive, Blocks
  <2> QED
    BY <2>2, LocksAssumption DEF Blocks
<1>3. CASE \E b \in Blocks : b \in S
  <2>1. PICK b \in Blocks : b \in S
    BY <1>3
  <2>2. S \subseteq {b, Poller}
    BY <1>1, <1>2, <2>1
  <2> QED
    BY <2>2, NoPair
<1>4. CASE ~ \E b \in Blocks : b \in S
  <2>1. S = {Poller}
    BY <1>1, <1>4
  <2>2. Waiting(Poller) /\ pc[Poller] \notin TimedWaits /\ Poller \in BlockedBy(Poller)
    BY <2>1 DEF WaitForEver
  <2>3. TypeOK /\ QueueInv
    BY DEF LockInv, PostingInv
  <2> QED
    BY <2>1, <2>2, <2>3, PollerWaits, PollerHoldsNothing, AheadOrder
<1> QED
  BY <1>3, <1>4

\* Overlapping blocks, whose batches do not fail and whose verifiers stay.
LEMMA NoCircleOfManyBlocks ==
  ASSUME LockInv, ~SubmissionFails, ~VerifiersChange,
         NEW S \in SUBSET (Blocks \cup {Poller}), WaitForEver(S), S # {}
  PROVE  FALSE
<1>t. TypeOK /\ QueueInv /\ OneBatchAtATime /\ Poller \notin Blocks
  BY LocksAssumption DEF LockInv, PostingInv
<1>b. \A b \in Blocks : BlockLocks(b)
  BY DEF LockInv
<1>m. {"batch", "posting", "uploaded", "verifiers"} \subseteq Mutexes /\ Users \subseteq Mutexes
  BY DEF Mutexes, SharedMutexes
<1>p. Poller \in S => /\ \A m \in Mutexes : holder[m] # Poller
                      /\ Poller \notin usReaders /\ usWriter # Poller
  BY PollerHoldsNothing
<1>w. ASSUME NEW b \in Blocks, b \in S
      PROVE  Waiting(b) /\ \E x \in S : x \in BlockedBy(b)
  BY <1>w DEF WaitForEver
<1>1. ASSUME NEW b \in Blocks, b \in S
      PROVE  pc[b] \notin {"block_verifiers", "extract_posting", "reset_posting",
                           "flush_map", "flush_batch", "restore_map", "restore_batch"}
  BY <1>1, <1>w, <1>b, <1>m, <1>p, BlockWaits DEF BlockLocks, FlushPCs
<1>2. ASSUME NEW b \in Blocks, b \in S
      PROVE  pc[b] \notin {"extract_uploaded", "finalize_uploaded"}
  BY <1>2, <1>1, <1>w, <1>b, <1>m, <1>p, BlockWaits DEF BlockLocks
<1>3. ASSUME NEW b \in Blocks, b \in S, holder["batch"] = b PROVE pc[b] = "cleanup_map"
  BY <1>1, <1>2, <1>3, <1>b DEF BlockLocks, FlushPCs
<1>4. ASSUME NEW b \in Blocks, NEW c \in Blocks, pc[b] \in PostingPCs, pc[c] \in PostingPCs
      PROVE  b = c
  BY <1>4, <1>b, <1>t DEF OneBatchAtATime, PostsBatch, BlockLocks
<1>5. ASSUME NEW b \in Blocks, b \in S PROVE pc[b] # "update_batch"
  <2> SUFFICES ASSUME pc[b] = "update_batch" PROVE FALSE
    OBVIOUS
  <2>1. PICK x \in S : x = holder["batch"]
    BY <1>5, <1>w, BlockWaits
  <2>2. x \in Blocks /\ pc[x] = "cleanup_map"
    BY <2>1, <1>3, <1>m, <1>p
  <2> QED
    BY <2>2, <1>4 DEF PostingPCs
<1>6. ASSUME NEW b \in Blocks, b \in S PROVE pc[b] # "update_user"
  BY <1>6, <1>5, <1>w, <1>b, <1>m, <1>p, BlockWaits DEF BlockLocks
<1>7. ASSUME NEW b \in Blocks, b \in S
      PROVE  b \notin usReaders /\ usWriter # b
  BY <1>7, <1>1, <1>5, <1>6, <1>b DEF BlockLocks
<1>8. \A x \in S : x \notin usReaders /\ usWriter # x
  BY <1>7, <1>p
<1>9. ASSUME NEW b \in Blocks, b \in S, pc[b] \in MapWaits PROVE FALSE
  <2>1. pc[b] \in PostingPCs
    BY <1>9, <1>1, <1>b DEF BlockLocks, BlockPCs, MapWaits, WaitsForRead, WaitsForWrite, PostingPCs
  <2>2. ASSUME NEW x \in S, x \in Blocks, pc[x] \in MapWaits PROVE x = b
    BY <2>1, <2>2, <1>1, <1>4, <1>b
       DEF BlockLocks, BlockPCs, MapWaits, WaitsForRead, WaitsForWrite, PostingPCs
  <2>3. PICK x \in S : x \in Ahead(b)
    BY <1>9, <1>w, <1>8, BlockWaits DEF MapWaits, WaitsForRead, WaitsForWrite
  <2>4. x = Poller
    BY <2>2, <2>3, <1>t, AheadWaits, AheadOrder
  <2>5. PICK y \in S : y \in Ahead(Poller)
    BY <2>4, <1>8, PollerWaits DEF WaitForEver
  <2>6. y = b
    BY <2>2, <2>5, <1>t, AheadWaits, AheadOrder
  <2> QED
    BY <2>3, <2>4, <2>5, <2>6, <1>t, AheadOrder
<1>10. Poller \notin S
  <2> SUFFICES ASSUME Poller \in S PROVE FALSE
    OBVIOUS
  <2>1. PICK y \in S : y \in Ahead(Poller)
    BY <1>8, PollerWaits DEF WaitForEver
  <2>2. y \in Blocks
    BY <2>1, <1>t, AheadOrder
  <2> QED
    BY <2>1, <2>2, <1>9, AheadWaits
<1>11. ASSUME NEW b \in Blocks, b \in S PROVE FALSE
  <2>1. pc[b] = "extract_batch"
    <3>1. pc[b] \notin MapWaits
      BY <1>9, <1>11
    <3>2. PICK x \in S : x \in BlockedBy(b)
      BY <1>w, <1>11
    <3> QED
      BY <3>1, <3>2, <1>1, <1>2, <1>5, <1>6, <1>11, <1>w, BlockWaits
         DEF MapWaits, WaitsForRead, WaitsForWrite
  <2>2. PICK x \in S : x = holder["batch"]
    BY <2>1, <1>w, <1>11, BlockWaits
  <2>3. x \in Blocks /\ pc[x] = "cleanup_map"
    BY <2>2, <1>3, <1>10
  <2> QED
    BY <2>3, <1>9 DEF MapWaits, WaitsForRead
<1> QED
  BY <1>10, <1>11

\* Whatever the number of users, handlers and blocks: as long as the queue does
\* not fill, no submission fails and no verifier changes while blocks overlap,
\* and verifiers do not change under pre-verification, no tasks of the batcher
\* wait for one another for ever.
THEOREM DeadlockFree == Calm => (Spec => []NoDeadlock)
<1> SUFFICES ASSUME Calm PROVE Spec => []NoDeadlock
  OBVIOUS
<1>1. ASSUME LockInv PROVE NoDeadlock
  <2> SUFFICES ASSUME NEW S \in (SUBSET Tasks) \ {{}}, WaitForEver(S) PROVE FALSE
    BY DEF NoDeadlock
  <2>1. CASE ~BlocksOverlap
    BY <1>1, <2>1, NoCircleOfOneBlock
  <2>2. CASE BlocksOverlap
    <3>1. S \in SUBSET (Blocks \cup {Poller})
      BY <1>1, NoHandlerInCircle
    <3> QED
      BY <1>1, <2>2, <3>1, NoCircleOfManyBlocks DEF Calm
  <2> QED
    BY <2>1, <2>2
<1>2. LockInv /\ [Next]_vars => LockInv'
  BY LockInvStep
<1> QED
  BY <1>1, <1>2, LockInvInit, PTL DEF Spec
=============================================================================
