-------------------------- MODULE QueueExtraction --------------------------
(***************************************************************************)
(* The queue on its own: users push proofs with consecutive nonces and     *)
(* fees that do not rise, the way handle_submit_proof_msg lets them, and   *)
(* every block tries to extract a batch.  The batches are judged against a *)
(* definition of what a batch may be that does not mention the heap.       *)
(***************************************************************************)
EXTENDS BatchQueue

CONSTANTS
    Users,
    Fees,           \* max_fee of a proof
    Sizes,          \* serialized size of a proof
    GasPrices,      \* gas prices a block may bring
    MaxNonce,       \* bound: nonces are below it
    MaxQueueSize    \* bound: entries in the queue

ASSUME ExtractionAssumption ==
    /\ Fees \subseteq Nat /\ Sizes \subseteq Nat /\ GasPrices \subseteq Nat
    /\ MaxNonce \in Nat /\ MaxQueueSize \in Nat

VARIABLES
    queue,      \* batch_state.batch_queue
    nonces,     \* the next nonce of each user
    tried       \* the last extraction: the gas price and what came out of it

vars == <<queue, nonces, tried>>

NothingTried == [gasPrice |-> 0, batch |-> <<>>, queue |-> <<>>]

Init ==
    /\ queue = <<>>
    /\ nonces = [u \in Users |-> 0]
    /\ tried = NothingTried

\* A message that passes the nonce and the fee check; a user whose proofs have
\* all left the queue may offer any fee.
Submit(u) ==
    /\ nonces[u] < MaxNonce
    /\ Len(queue) < MaxQueueSize
    /\ \E fee \in Fees, size \in Sizes :
         /\ \A e \in EntriesFrom(queue, u) : fee <= e.max_fee
         /\ queue' = Push(queue, NewEntry(u, nonces[u], fee, size))
    /\ nonces' = [nonces EXCEPT ![u] = @ + 1]
    /\ tried' = NothingTried

\* extract_batch_if_ready at a block: with an empty queue nothing is tried.
NewBlock(gasPrice) ==
    /\ \/ queue = <<>> /\ tried' = NothingTried /\ UNCHANGED queue
       \/ /\ queue # <<>>
          /\ \E x \in ExtractBatchDirectly(queue, gasPrice) :
                /\ queue' = x.queue
                /\ tried' = [gasPrice |-> gasPrice, batch |-> x.batch, queue |-> x.queue]
    /\ UNCHANGED nonces

Next == (\E u \in Users : Submit(u)) \/ (\E gasPrice \in GasPrices : NewBlock(gasPrice))

Spec == Init /\ [][Next]_vars

-----------------------------------------------------------------------------
Available == EntriesOf(tried.batch) \cup EntriesOf(tried.queue)

\* What may be posted: the batch fits, and everyone in it offered its price.
MayBePosted(S) ==
    /\ S # {}
    /\ Cardinality(S) <= MaxBatchProofQty
    /\ BatchByteSize(S) <= MaxBatchByteSize
    /\ \A e \in S : FeePerProof(Cardinality(S), tried.gasPrice) <= e.max_fee

\* An extracted batch may be posted, and no proof is in it twice: every proof in
\* it pays the price of a batch of that very size, although the loop only ever
\* compares the price with the proof it would reject next.
BatchMayBePosted ==
    tried.batch # <<>> =>
        /\ MayBePosted(EntriesOf(tried.batch))
        /\ Cardinality(EntriesOf(tried.batch)) = Len(tried.batch)

\* "The batch will be made as big as possible": among proofs of one size, no
\* other choice of proofs that may be posted is bigger.
BatchIsBiggest ==
    (\A e, f \in Available : e.size = f.size) =>
        \A S \in SUBSET Available :
            MayBePosted(S) => Cardinality(S) <= Len(tried.batch)

\* A batch takes the lowest nonces of each of its users, leaving the higher ones
\* queued, and no proof is left behind for one that offers less.
NoncesLeaveInOrder ==
    \A e \in EntriesOf(tried.batch), f \in EntriesOf(tried.queue) :
        /\ e.sender = f.sender => e.nonce < f.nonce
        /\ f.max_fee <= e.max_fee
=============================================================================
