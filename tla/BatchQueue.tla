---------------------------- MODULE BatchQueue ----------------------------
(***************************************************************************)
(* The proof queue of the batcher: crates/batcher/src/types/batch_queue.rs *)
(* and batch_state.rs.                                                     *)
(*                                                                         *)
(* The queue is a priority_queue::PriorityQueue, an index map (whose       *)
(* iteration order the eviction of handle_submit_proof_msg depends on)     *)
(* with a heap over it.  It is modelled by the sequence of its entries in  *)
(* iteration order.  An entry carries the fee it was signed with           *)
(* (max_fee) and, apart from it, the fee of its priority (prio): pushing   *)
(* an entry equal to one in the queue replaces only the priority.          *)
(***************************************************************************)
EXTENDS Integers, Sequences, FiniteSets, FiniteSetsExt, TLC

CONSTANTS
    MaxBatchByteSize,           \* max_batch_byte_size
    MaxBatchProofQty,           \* max_batch_proof_qty
    ConstantGasCost,            \* constant_gas_cost()
    AdditionalGasPerProof,      \* ADDITIONAL_SUBMISSION_GAS_COST_PER_PROOF
    CborOverhead                \* CBOR_ARRAY_MAX_OVERHEAD

ASSUME LimitsAssumption ==
    /\ MaxBatchByteSize \in Nat
    /\ MaxBatchProofQty \in Nat
    /\ ConstantGasCost \in Nat
    /\ AdditionalGasPerProof \in Nat
    /\ CborOverhead \in Nat

Positions(q) == 1..Len(q)

EntriesOf(q) == {q[i] : i \in Positions(q)}

EntryOf(users) == [sender : users, nonce : Nat, max_fee : Nat, prio : Nat, size : Nat]

NewEntry(sender, nonce, max_fee, size) ==
    [sender |-> sender, nonce |-> nonce, max_fee |-> max_fee,
     prio |-> max_fee, size |-> size]

(***************************************************************************)
(* Equality of entries (sender and nonce only) and the order in which the  *)
(* heap gives them up: the cheapest first and, at one fee, the biggest     *)
(* nonce first.  Entries of different senders may tie.                     *)
(***************************************************************************)
SameEntry(e, f) == e.sender = f.sender /\ e.nonce = f.nonce

\* A heap that, at one fee, gives up the smallest nonce first.
PoppedSmallestNonceFirst(e, f) ==
    \/ e.prio < f.prio
    \/ e.prio = f.prio /\ e.nonce < f.nonce

PoppedBefore(e, f) ==
    \/ e.prio < f.prio
    \/ e.prio = f.prio /\ e.nonce > f.nonce

-----------------------------------------------------------------------------
(***************************************************************************)
(* The priority_queue operations the batcher uses.  push of an equal entry *)
(* keeps the old entry at its place and takes the new priority; remove     *)
(* moves the last entry to the place of the one removed.                   *)
(***************************************************************************)
Contains(q, e) == \E i \in Positions(q) : SameEntry(q[i], e)

\* A push that would append even when the queue holds an equal entry.
PushDuplicates(q, e) == Append(q, e)

Push(q, e) ==
    IF Contains(q, e)
      THEN [i \in Positions(q) |->
              IF SameEntry(q[i], e) THEN [q[i] EXCEPT !.prio = e.prio] ELSE q[i]]
      ELSE Append(q, e)

SwapRemove(q, i) ==
    [j \in 1..(Len(q) - 1) |-> IF j = i THEN q[Len(q)] ELSE q[j]]

\* The positions peek may return: no other entry is popped before them.
Peekable(q) ==
    {i \in Positions(q) : \A j \in Positions(q) : ~PoppedBefore(q[j], q[i])}

\* The sequences that hold every element of S once.
Arrangements(S) ==
    {s \in [1..Cardinality(S) -> S] : \A i, j \in DOMAIN s : i # j => s[i] # s[j]}

\* The ways to visit each of 1..n once.  (Permutations is what TLC enumerates
\* quickly; the condition says the same for a reader without its definition.)
Visits(n) ==
    {p \in Permutations(1..n) :
        p \in [1..n -> 1..n] /\ \A j \in 1..n : \E i \in 1..n : p[i] = j}

\* The orders in which popping until the queue is empty can return it.
PopOrders(q) ==
    {s \in {[i \in Positions(q) |-> q[p[i]]] : p \in Visits(Len(q))} :
        \A i, j \in DOMAIN s : i < j => ~PoppedBefore(s[j], s[i])}

-----------------------------------------------------------------------------
(***************************************************************************)
(* batch_state.rs                                                          *)
(***************************************************************************)
EntriesFrom(q, u) == {e \in EntriesOf(q) : e.sender = u}

HasEntry(q, u, n) == \E e \in EntriesOf(q) : e.sender = u /\ e.nonce = n

\* The position get_entry finds, for a queue that HasEntry(q, u, n).
EntryAt(q, u, n) ==
    CHOOSE i \in Positions(q) : q[i].sender = u /\ q[i].nonce = n

MinFeeOf(q, u) == Min({e.max_fee : e \in EntriesFrom(q, u)})

TotalFees(S) == MapThenSumSet(LAMBDA e : e.max_fee, S)

\* replacement_entry_is_valid that compares fees only with later nonces.
ReplacementChecksLaterNonces(q, r) ==
    ~ \E e \in EntriesFrom(q, r.sender) : e.nonce > r.nonce /\ e.max_fee < r.max_fee

ReplacementEntryIsValid(q, r) ==
    ~ \E e \in EntriesFrom(q, r.sender) : e.nonce < r.nonce /\ e.max_fee < r.max_fee

-----------------------------------------------------------------------------
(***************************************************************************)
(* extract_batch_directly.  Entries are popped until the rest makes an     *)
(* acceptable batch, judged by the fee of the next entry to be popped.     *)
(***************************************************************************)
FeePerProof(len, gasPrice) ==
    ((ConstantGasCost + AdditionalGasPerProof * len) \div len) * gasPrice

BatchByteSize(S) == CborOverhead + MapThenSumSet(LAMBDA e : e.size, S)

\* The fee is compared with what a proof would pay in a batch without the entry
\* that is judged.
AcceptableWithStaleFee(s, k, gasPrice) ==
    LET len == Len(s) - k
    IN  /\ BatchByteSize({s[i] : i \in (k + 1)..Len(s)}) <= MaxBatchByteSize
        /\ FeePerProof(len + 1, gasPrice) <= s[k + 1].max_fee
        /\ len <= MaxBatchProofQty

\* The limits taken as exclusive.
AcceptableBelowLimits(s, k, gasPrice) ==
    LET len == Len(s) - k
    IN  /\ BatchByteSize({s[i] : i \in (k + 1)..Len(s)}) < MaxBatchByteSize
        /\ FeePerProof(len, gasPrice) <= s[k + 1].max_fee
        /\ len < MaxBatchProofQty

AcceptableFrom(s, k, gasPrice) ==
    LET len == Len(s) - k
    IN  /\ BatchByteSize({s[i] : i \in (k + 1)..Len(s)}) <= MaxBatchByteSize
        /\ FeePerProof(len, gasPrice) <= s[k + 1].max_fee
        /\ len <= MaxBatchProofQty

\* Popping in the order s, the first k entries are rejected and no more.
Rejects(s, k, gasPrice) ==
    /\ k = Len(s) \/ AcceptableFrom(s, k, gasPrice)
    /\ \A j \in 0..(k - 1) : ~AcceptableFrom(s, j, gasPrice)

\* An extraction that leaves the batch in the queue, to be removed later.
ExtractWithoutRemoval(q, gasPrice) ==
    UNION {{[batch |-> SubSeq(s, k + 1, Len(s)), queue |-> s] :
               k \in {k \in 0..Len(s) : Rejects(s, k, gasPrice)}} :
           s \in PopOrders(q)}

\* The possible outcomes: the batch in pop order, empty when no batch can be
\* paid for, and the queue that is left, filled again in pop order.
ExtractBatchDirectly(q, gasPrice) ==
    UNION {{[batch |-> SubSeq(s, k + 1, Len(s)), queue |-> SubSeq(s, 1, k)] :
               k \in {k \in 0..Len(s) : Rejects(s, k, gasPrice)}} :
           s \in PopOrders(q)}
=============================================================================
