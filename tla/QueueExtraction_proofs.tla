---------------------- MODULE QueueExtraction_proofs ----------------------
(***************************************************************************)
(* Proofs about the batches the queue gives up, for any users, fees,       *)
(* sizes, gas prices and limits.                                           *)
(***************************************************************************)
EXTENDS QueueExtraction, BatchQueue_proofs

(***************************************************************************)
(* The invariant: the queue holds every sender and nonce once, below the   *)
(* next nonce of the sender, with the fee it was signed with as priority,  *)
(* and the fees of a user do not rise with the nonce.                      *)
(***************************************************************************)
Signed(S) == \A e \in S : e.prio = e.max_fee /\ e.nonce < nonces[e.sender]

FeesFall(S) ==
    \A e, f \in S : e.sender = f.sender /\ e.nonce < f.nonce => f.max_fee <= e.max_fee

QueueInv ==
    /\ queue \in Seq(EntryOf(Users)) /\ Distinct(queue)
    /\ nonces \in [Users -> Nat]
    /\ Signed(EntriesOf(queue))
    /\ FeesFall(EntriesOf(queue))

\* What the last extraction returned.
TriedInv == BatchMayBePosted /\ BatchIsBiggest /\ NoncesLeaveInOrder

\* Nothing was tried: nothing to show.
LEMMA NothingTriedInv ==
  ASSUME tried = NothingTried
  PROVE  TriedInv
<1>1. EntriesOf(<<>>) = {}
  BY EmptySeq DEF EntriesOf, Positions
<1>2. tried.batch = <<>> /\ tried.queue = <<>> /\ Available = {}
  BY <1>1 DEF NothingTried, Available
<1>3. BatchIsBiggest
  BY <1>2 DEF BatchIsBiggest, MayBePosted
<1> QED
  BY <1>1, <1>2, <1>3 DEF TriedInv, BatchMayBePosted, NoncesLeaveInOrder

\* A submission keeps the invariant: its nonce is new, its fee the lowest.
LEMMA SubmitInv ==
  ASSUME QueueInv, NEW u \in Users, Submit(u)
  PROVE  QueueInv'
<1>1. PICK fee \in Fees, size \in Sizes :
        /\ \A e \in EntriesFrom(queue, u) : fee <= e.max_fee
        /\ queue' = Push(queue, NewEntry(u, nonces[u], fee, size))
  BY DEF Submit
<1> DEFINE r == NewEntry(u, nonces[u], fee, size)
<1>2. r \in EntryOf(Users)
  BY ExtractionAssumption DEF QueueInv, NewEntry, EntryOf
<1>3. /\ r.sender = u /\ r.nonce = nonces[u] /\ r.max_fee = fee /\ r.prio = fee
  BY DEF NewEntry
<1>4. EntriesOf(queue) \in SUBSET EntryOf(Users)
  BY EntriesFinite DEF QueueInv
<1>5. \A e \in EntriesOf(queue) : ~SameEntry(e, r)
  BY <1>3, <1>4 DEF QueueInv, Signed, SameEntry, EntryOf
<1>6. nonces' = [nonces EXCEPT ![u] = @ + 1]
  BY DEF Submit
<1> HIDE DEF r
<1>7. queue' \in Seq(EntryOf(Users)) /\ Distinct(queue')
  BY <1>1, <1>2, PushProperties DEF QueueInv, r
<1>8. EntriesOf(queue') = EntriesOf(queue) \cup {r}
  BY <1>1, <1>2, <1>5, PushEntries DEF QueueInv, r
<1>9. nonces' \in [Users -> Nat]
  BY <1>6 DEF QueueInv
<1>10. Signed(EntriesOf(queue))'
  <2>1. \A e \in EntriesOf(queue) : e.prio = e.max_fee /\ e.nonce < nonces'[e.sender]
    BY <1>4, <1>6 DEF QueueInv, Signed, EntryOf
  <2>2. r.prio = r.max_fee /\ r.nonce < nonces'[r.sender]
    BY <1>3, <1>6 DEF QueueInv
  <2> QED
    BY <1>8, <2>1, <2>2 DEF Signed
<1>11. FeesFall(EntriesOf(queue))'
  <2>1. \A e \in EntriesOf(queue) :
          /\ e.sender = u => e.nonce < r.nonce /\ r.max_fee <= e.max_fee
          /\ e.nonce \in Nat
    BY <1>1, <1>3, <1>4 DEF QueueInv, Signed, EntriesFrom, EntryOf
  <2>2. r.nonce \in Nat
    BY <1>2 DEF EntryOf
  <2> QED
    BY <1>3, <1>8, <2>1, <2>2 DEF QueueInv, FeesFall
<1> QED
  BY <1>7, <1>9, <1>10, <1>11 DEF QueueInv

\* A block that finds the queue not empty keeps the invariant, and what it extracts
\* is what the properties ask for.
LEMMA NewBlockInv ==
  ASSUME QueueInv, NEW gasPrice \in GasPrices, UNCHANGED nonces,
         NEW x \in ExtractBatchDirectly(queue, gasPrice), queue' = x.queue,
         tried' = [gasPrice |-> gasPrice, batch |-> x.batch, queue |-> x.queue]
  PROVE  QueueInv' /\ TriedInv'
<1>0. /\ queue \in Seq(EntryOf(Users)) /\ Distinct(queue) /\ gasPrice \in Nat
      /\ \A e \in EntriesOf(queue) : e.prio = e.max_fee
  BY ExtractionAssumption DEF QueueInv, Signed
<1>1. /\ x.queue \in Seq(EntryOf(Users)) /\ Distinct(x.queue)
      /\ x.batch \in Seq(EntryOf(Users)) /\ Distinct(x.batch)
  BY <1>0, ExtractProperties
<1>2. EntriesOf(x.batch) \cup EntriesOf(x.queue) = EntriesOf(queue)
  BY <1>0, ExtractEntries
<1>3. \A e \in EntriesOf(x.batch), f \in EntriesOf(x.queue) :
         ~PoppedBefore(e, f) /\ ~SameEntry(e, f)
  BY <1>0, ExtractEntries
<1>4. EntriesOf(queue) \in SUBSET EntryOf(Users)
  BY <1>0, EntriesFinite
<1>5. tried'.gasPrice = gasPrice /\ tried'.batch = x.batch /\ tried'.queue = x.queue
  OBVIOUS
<1>6. QueueInv'
  BY <1>1, <1>2 DEF QueueInv, Signed, FeesFall
<1>7. BatchMayBePosted'
  <2>1. SUFFICES ASSUME x.batch # <<>>
                 PROVE  /\ MayBePosted(EntriesOf(x.batch))'
                        /\ Cardinality(EntriesOf(x.batch)) = Len(x.batch)
    BY <1>5 DEF BatchMayBePosted
  <2>2. Cardinality(EntriesOf(x.batch)) = Len(x.batch)
    BY <1>1, EntriesDistinct
  <2>3. /\ Len(x.batch) \in Nat \ {0} /\ Len(x.batch) <= MaxBatchProofQty
        /\ BatchByteSize(EntriesOf(x.batch)) <= MaxBatchByteSize
        /\ \A e \in EntriesOf(x.batch) : FeePerProof(Len(x.batch), gasPrice) <= e.max_fee
    BY <1>0, <2>1, ExtractLimits
  <2>4. EntriesOf(x.batch) # {}
    BY <2>2, <2>3, FS_EmptySet
  <2> QED
    BY <1>5, <2>2, <2>3, <2>4 DEF MayBePosted
<1>8. BatchIsBiggest'
  <2>1. SUFFICES ASSUME \A e, f \in EntriesOf(queue) : e.size = f.size,
                        NEW S \in SUBSET EntriesOf(queue), MayBePosted(S)'
                 PROVE  Cardinality(S) <= Len(x.batch)
    <3>1. Available' = EntriesOf(queue)
      BY <1>2, <1>5 DEF Available
    <3> QED
      BY <1>5, <3>1 DEF BatchIsBiggest
  <2>2. /\ S # {} /\ Cardinality(S) <= MaxBatchProofQty
        /\ BatchByteSize(S) <= MaxBatchByteSize
        /\ \A e \in S : FeePerProof(Cardinality(S), gasPrice) <= e.max_fee
    BY <1>5, <2>1 DEF MayBePosted
  <2> QED
    BY <1>0, <2>1, <2>2, ExtractBiggest
<1>9. NoncesLeaveInOrder'
  <2>1. SUFFICES ASSUME NEW e \in EntriesOf(x.batch), NEW f \in EntriesOf(x.queue)
                 PROVE  (e.sender = f.sender => e.nonce < f.nonce) /\ f.max_fee <= e.max_fee
    BY <1>5 DEF NoncesLeaveInOrder
  <2>2. e \in EntriesOf(queue) /\ f \in EntriesOf(queue)
    BY <1>2
  <2>3. /\ e.prio = e.max_fee /\ f.prio = f.max_fee
        /\ e.nonce \in Nat /\ f.nonce \in Nat /\ e.max_fee \in Nat /\ f.max_fee \in Nat
    BY <1>0, <1>4, <2>2 DEF EntryOf
  <2>4. ~PoppedBefore(e, f) /\ ~SameEntry(e, f)
    BY <1>3
  <2>5. e.sender = f.sender /\ f.nonce < e.nonce => e.max_fee <= f.max_fee
    BY <2>2 DEF QueueInv, FeesFall
  <2> QED
    BY <2>3, <2>4, <2>5 DEF PoppedBefore, SameEntry
<1> QED
  BY <1>6, <1>7, <1>8, <1>9 DEF TriedInv

\* Every step keeps the invariant.
LEMMA StepInv ==
  ASSUME QueueInv, TriedInv, [Next]_vars
  PROVE  QueueInv' /\ TriedInv'
<1>1. ASSUME NEW u \in Users, Submit(u) PROVE QueueInv' /\ TriedInv'
  <2>1. tried' = NothingTried
    BY <1>1 DEF Submit
  <2>2. (tried = NothingTried => TriedInv)'
    BY NothingTriedInv, PTL
  <2> QED
    BY <1>1, <2>1, <2>2, SubmitInv
<1>2. ASSUME NEW gasPrice \in GasPrices, NewBlock(gasPrice) PROVE QueueInv' /\ TriedInv'
  <2>1. CASE UNCHANGED queue /\ tried' = NothingTried
    <3>1. (tried = NothingTried => TriedInv)'
      BY NothingTriedInv, PTL
    <3>2. QueueInv'
      BY <1>2, <2>1 DEF NewBlock, QueueInv, Signed
    <3> QED
      BY <2>1, <3>1, <3>2
  <2>2. CASE \E x \in ExtractBatchDirectly(queue, gasPrice) :
               /\ queue' = x.queue
               /\ tried' = [gasPrice |-> gasPrice, batch |-> x.batch, queue |-> x.queue]
    BY <1>2, <2>2, NewBlockInv DEF NewBlock
  <2> QED
    BY <1>2, <2>1, <2>2 DEF NewBlock
<1>3. CASE UNCHANGED vars
  BY <1>3 DEF vars, QueueInv, Signed, TriedInv, BatchMayBePosted, BatchIsBiggest,
              NoncesLeaveInOrder, Available, MayBePosted
<1> QED
  BY <1>1, <1>2, <1>3 DEF Next

\* The invariant holds of every reachable state.
LEMMA AlwaysInv == Spec => [](QueueInv /\ TriedInv)
<1>1. Init => QueueInv /\ TriedInv
  <2> SUFFICES ASSUME Init PROVE QueueInv /\ TriedInv
    OBVIOUS
  <2>1. <<>> \in Seq(EntryOf(Users)) /\ Positions(<<>>) = {} /\ EntriesOf(<<>>) = {}
    BY EmptySeq DEF Positions, EntriesOf
  <2> QED
    BY <2>1, NothingTriedInv DEF Init, QueueInv, Signed, FeesFall, Distinct
<1>2. (QueueInv /\ TriedInv) /\ [Next]_vars => (QueueInv /\ TriedInv)'
  BY StepInv
<1> QED
  BY <1>1, <1>2, PTL DEF Spec

\* Every batch extract_batch_directly returns is within both limits, holds no proof
\* twice, and everyone in it offered the price of a batch of that size, although the
\* loop only compares the price with the proof it would reject next.
THEOREM BatchPostable == Spec => []BatchMayBePosted
<1>1. QueueInv /\ TriedInv => BatchMayBePosted
  BY DEF TriedInv
<1> QED
  BY <1>1, AlwaysInv, PTL

\* "The batch will be made as big as possible" (batch_queue.rs): among proofs of one
\* size no other choice of proofs that may be posted is bigger, in any queue of any
\* length.
THEOREM BatchBiggest == Spec => []BatchIsBiggest
<1>1. QueueInv /\ TriedInv => BatchIsBiggest
  BY DEF TriedInv
<1> QED
  BY <1>1, AlwaysInv, PTL

\* A batch takes the lowest nonces of each of its users, and leaves no proof behind
\* for one that offers less.
THEOREM NoncesInOrder == Spec => []NoncesLeaveInOrder
<1>1. QueueInv /\ TriedInv => NoncesLeaveInOrder
  BY DEF TriedInv
<1> QED
  BY <1>1, AlwaysInv, PTL
=============================================================================
