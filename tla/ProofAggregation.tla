-------------------------- MODULE ProofAggregation --------------------------
(***************************************************************************)
(* The proof aggregation service: aggregation_mode/src/.  A run of the     *)
(* process reads the block it stopped at from a file, collects the proofs  *)
(* of the batches posted since, aggregates them, publishes the aggregated  *)
(* proof with a blob of commitments, and writes the block back.  A         *)
(* scheduler starts the next run.                                          *)
(*                                                                         *)
(* Nodes may lag behind or fail, downloads fail, the prover fails, a       *)
(* transaction may revert or be mined after its run has given up, and the  *)
(* process may crash between any two steps.                                *)
(***************************************************************************)
EXTENDS AggregationTree, FiniteSets

CONSTANTS
    Batches,        \* the proofs of each batch, in the order of the NewBatchV3 logs
    Limit,          \* config.total_proofs_limit
    MaxBlock,       \* bound on the chain
    MaxFaults       \* bound on failures

ASSUME LimitAssumption ==
    /\ Limit \in Nat
    /\ Limit * HashBytes <= FieldElements * PayloadBytes

\* The proofs posted.
Proofs == UNION {Range(Batches[i]) : i \in DOMAIN Batches}

ASSUME BatchesAssumption == Batches \in Seq(Seq(Proofs))

ASSUME BoundsAssumption == MaxBlock \in Nat /\ MaxFaults \in Nat

VARIABLES
    head,       \* the last block
    blocks,     \* the block of each posted batch
    engine,     \* AGGREGATOR: the zkVM of this service
    file,       \* last_aggregated_block on disk
    pc,         \* where the run is
    last,       \* fetcher.last_aggregated_block
    current,    \* current_block of fetch
    next,       \* the next log of fetch
    proofs,     \* the proofs collected
    failed,     \* batches this run could not download
    skipped,    \* batches that were not downloaded by a run that completed
    tx,         \* the verify transaction of this run
    pool,       \* verify transactions that are not mined yet
    events,     \* AggregatedProofVerified
    reverted,   \* verify transactions that reverted
    faults

chainVars == <<head, blocks, pool, events, reverted>>
fetchVars == <<current, next, proofs, failed>>
vars == <<chainVars, fetchVars, engine, file, pc, last, skipped, tx, faults>>

Truncated == -1

NoTx == [root |-> NoRoot, blob |-> <<>>, proofs |-> {}]

Init ==
    /\ head = 0 /\ blocks = <<>> /\ pool = {} /\ events = {} /\ reverted = {}
    /\ engine \in {"SP1", "RISC0"}
    /\ file = 0 /\ pc = "off" /\ last = 0 /\ current = 0 /\ next = 1
    /\ proofs = <<>> /\ failed = {} /\ skipped = {} /\ tx = NoTx
    /\ faults = 0

Fault == faults < MaxFaults /\ faults' = faults + 1

-----------------------------------------------------------------------------
(***************************************************************************)
(* The chain                                                               *)
(***************************************************************************)
\* A block, with n createNewTask transactions.
NewBlock(n) ==
    /\ head < MaxBlock
    /\ Len(blocks) + n <= Len(Batches)
    /\ head' = head + 1
    /\ blocks' = blocks \o [i \in 1..n |-> head + 1]
    /\ UNCHANGED <<pool, events, reverted, fetchVars, engine, file, pc, last, skipped, tx, faults>>

\* verifySP1 or verifyRisc0: the root becomes an aggregated proof.
MineVerify(t) ==
    /\ pool' = pool \ {t}
    /\ events' = events \cup {t}
    /\ UNCHANGED <<head, blocks, reverted, fetchVars, engine, file, pc, last, skipped, tx, faults>>

RevertVerify(t) ==
    /\ Fault
    /\ pool' = pool \ {t}
    /\ reverted' = reverted \cup {t}
    /\ UNCHANGED <<head, blocks, events, fetchVars, engine, file, pc, last, skipped, tx>>

-----------------------------------------------------------------------------
(***************************************************************************)
(* fetch                                                                   *)
(***************************************************************************)
\* SP1ProofWithPubValuesAndElf::new: only compressed proofs are supported.
Sp1Compatible(p) == p.system = "SP1" /\ p.form = "compressed" /\ p.valid

\* Risc0ProofReceiptAndImageId::new: composite and succinct receipts.
Risc0Compatible(p) == p.system = "RISC0" /\ p.form \in {"composite", "succinct"} /\ p.valid

Compatible(p) == IF engine = "SP1" THEN Sp1Compatible(p) ELSE Risc0Compatible(p)

\* The compatible proofs of a batch, in its order.
ProofsToAdd(i) ==
    LET batch == Batches[i]
        filtered[n \in 0..Len(batch)] ==
            IF n = 0 THEN <<>>
            ELSE IF Compatible(batch[n]) THEN Append(filtered[n - 1], batch[n])
            ELSE filtered[n - 1]
    IN  filtered[Len(batch)]

\* A program code that is not 32 bytes long.
NoImageId == -1

\* Copying such a code into the image id of a RISC0 proof panics, before the proof is
\* looked at, and the panic ends the run.
Panics(i) ==
    engine = "RISC0" /\ \E p \in Range(Batches[i]) : p.system = "RISC0" /\ p.program = NoImageId

\* ProofAggregator::new, with the unwrap of get_last_aggregated_block: there is no
\* run while the file is not readable.
Start ==
    /\ pc = "off" /\ file # Truncated
    /\ last' = file
    /\ pc' = "block"
    /\ UNCHANGED <<chainVars, fetchVars, engine, file, skipped, tx, faults>>

\* The process ends, and with it its memory.
Exit ==
    /\ pc' = "off" /\ last' = 0 /\ current' = 0 /\ next' = 1
    /\ proofs' = <<>> /\ failed' = {} /\ tx' = NoTx

Ends == Exit /\ UNCHANGED <<chainVars, engine, file, skipped>>

\* The query for logs starts after the block of the last run, and not with it.
LogAfter(block) ==
    CHOOSE i \in 1..(Len(blocks) + 1) :
        /\ \A j \in 1..(i - 1) : blocks[j] <= block
        /\ i <= Len(blocks) => blocks[i] > block

\* from_block: the first log of the query.
FromBlock(block) ==
    CHOOSE i \in 1..(Len(blocks) + 1) :
        /\ \A j \in 1..(i - 1) : blocks[j] < block
        /\ i <= Len(blocks) => blocks[i] >= block

\* get_block_number, and the query for the logs from last to the block it returned.
\* A node that lags behind the last aggregated block ends the run (GetLogsFails).
GetLogs(block) ==
    /\ pc = "block" /\ block >= last
    /\ IF block = head THEN UNCHANGED faults ELSE Fault
    /\ current' = block
    /\ next' = FromBlock(last)
    /\ proofs' = <<>> /\ failed' = {}
    /\ pc' = "fetch"
    /\ UNCHANGED <<chainVars, engine, file, last, skipped, tx>>

GetLogsFails ==
    /\ pc = "block"
    /\ Fault
    /\ Ends

HasLog == next <= Len(blocks) /\ blocks[next] <= current

Fetched(block) ==
    /\ last' = block
    /\ pc' = IF proofs = <<>> THEN "save" ELSE "prove"
    /\ UNCHANGED <<chainVars, fetchVars, engine, file, skipped, tx, faults>>

\* Stops when the limit is reached, and not only when it is exceeded.
AtLimit == Len(proofs) + Len(ProofsToAdd(next)) >= Limit

\* Compares the proofs without those of the batch.
LimitPassed == Len(proofs) > Limit

OverLimit == Len(proofs) + Len(ProofsToAdd(next)) > Limit

AddProofs ==
    /\ pc = "fetch" /\ HasLog /\ ~Panics(next) /\ ~OverLimit
    /\ proofs' = proofs \o ProofsToAdd(next)
    /\ next' = next + 1
    /\ UNCHANGED <<chainVars, current, failed, engine, file, pc, last, skipped, tx, faults>>

\* The next run starts again at the block of the batch that did not fit.
StopAtLimit ==
    /\ pc = "fetch" /\ HasLog /\ ~Panics(next) /\ OverLimit
    /\ Fetched(blocks[next])

\* The proofs are filtered before the limit is looked at.
FetchPanics == pc = "fetch" /\ HasLog /\ Panics(next) /\ Ends /\ UNCHANGED faults

\* No URL of the batch answered, with all the retries of each: the loop goes on.
DownloadFails ==
    /\ pc = "fetch" /\ HasLog
    /\ Fault
    /\ failed' = failed \cup {next}
    /\ next' = next + 1
    /\ UNCHANGED <<chainVars, current, proofs, engine, file, pc, last, skipped, tx>>

\* The block after the last one that was read.
FetchedPastCurrent == pc = "fetch" /\ ~HasLog /\ Fetched(current + 1)

FetchDone == pc = "fetch" /\ ~HasLog /\ Fetched(current)

-----------------------------------------------------------------------------
(***************************************************************************)
(* aggregate_and_submit_proofs_on_chain, after fetch                       *)
(***************************************************************************)
\* The root of the zkVM is compared with the one computed outside, and the blob is
\* built; a list of leaves longer than the blob would panic.
Aggregate ==
    /\ pc = "prove"
    /\ LET leaves == Commitments(proofs)
           root == AggregateProofs(engine, proofs)
       IN  IF root = MerkleRoot(leaves) /\ BlobFits(leaves)
           THEN /\ tx' = [root |-> root, blob |-> ConstructBlob(leaves), proofs |-> Range(proofs)]
                /\ pc' = "send"
                /\ UNCHANGED <<fetchVars, last>>
           ELSE Exit
    /\ UNCHANGED <<chainVars, engine, file, skipped, faults>>

AggregateFails ==
    /\ pc = "prove"
    /\ Fault
    /\ Ends

Send ==
    /\ pc = "send"
    /\ pool' = pool \cup {tx}
    /\ pc' = "receipt"
    /\ UNCHANGED <<head, blocks, events, reverted, fetchVars, engine, file, last, skipped, tx, faults>>

\* send_raw_transaction returns an error; the node may have the transaction.
SendFails ==
    /\ pc = "send"
    /\ Fault
    /\ pool' \in {pool, pool \cup {tx}}
    /\ Exit
    /\ UNCHANGED <<head, blocks, events, reverted, engine, file, skipped>>

\* The status of the receipt is not read.
GetReceipt ==
    /\ pc = "receipt" /\ tx \notin pool
    /\ pc' = "save"
    /\ UNCHANGED <<chainVars, fetchVars, engine, file, last, skipped, tx, faults>>

GetReceiptFails ==
    /\ pc = "receipt"
    /\ Fault
    /\ Ends

\* update_last_aggregated_block opens the file with truncate, then writes it.
TruncateFile ==
    /\ pc = "save"
    /\ file' = Truncated
    /\ pc' = "write"
    /\ UNCHANGED <<chainVars, fetchVars, engine, last, skipped, tx, faults>>

WriteFile ==
    /\ pc = "write"
    /\ file' = last
    /\ skipped' = skipped \cup failed
    /\ Exit
    /\ UNCHANGED <<chainVars, engine, faults>>

Crash ==
    /\ pc # "off"
    /\ Fault
    /\ Ends

-----------------------------------------------------------------------------
RunStep ==
    \/ Start
    \/ GetLogs(head)
    \/ AddProofs \/ StopAtLimit \/ FetchPanics \/ FetchDone
    \/ Aggregate \/ Send \/ GetReceipt
    \/ TruncateFile \/ WriteFile

FaultStep ==
    \/ \E block \in 0..(head - 1) : GetLogs(block)
    \/ GetLogsFails \/ DownloadFails \/ AggregateFails
    \/ SendFails \/ GetReceiptFails \/ Crash

Mining == \E t \in pool : MineVerify(t)

Next ==
    \/ RunStep \/ FaultStep \/ Mining
    \/ \E n \in 0..Len(Batches) : NewBlock(n)
    \/ \E t \in pool : RevertVerify(t)

Spec == Init /\ [][Next]_vars

\* The scheduler starts the service again and again, and a run goes on until it
\* ends; a verify transaction is mined in the end unless it reverts.
FairSpec == Spec /\ WF_<<pc, next>>(RunStep) /\ WF_pool(Mining)

-----------------------------------------------------------------------------
(***************************************************************************)
(* Properties                                                              *)
(***************************************************************************)
\* The variables have their types: block numbers never run ahead of the chain.
TypeOK ==
    /\ head \in 0..MaxBlock
    /\ blocks \in Seq(1..head) /\ Len(blocks) <= Len(Batches)
    /\ engine \in {"SP1", "RISC0"}
    /\ file \in {Truncated} \cup 0..head
    /\ pc \in {"off", "block", "fetch", "prove", "send", "receipt", "save", "write"}
    /\ last \in 0..head /\ current \in 0..head /\ next \in 1..(Len(Batches) + 1)
    /\ failed \subseteq 1..Len(Batches) /\ skipped \subseteq 1..Len(Batches)
    /\ faults \in 0..MaxFaults

Compatibles(i) == {p \in Range(Batches[i]) : Compatible(p)}

Sent(p) == \E t \in events \cup reverted : p \in t.proofs

Handled(i) == i \in skipped \/ \A p \in Compatibles(i) : Sent(p)

\* Every proof of the service's zkVM that was posted before the block on disk has
\* been published with an aggregated proof, or its batch was not downloaded by a run
\* that completed: the limit, failures, crashes and late transactions never make a
\* run step over a batch.  A reverted transaction counts as published: the receipt's
\* status is not read.
NothingSteppedOver ==
    file # Truncated =>
        \A i \in 1..Len(blocks) : blocks[i] < file => Handled(i)

\* The root computed inside the zkVM, over chunks, is the one computed outside over
\* all the proofs: MerkleRootMisMatch is never returned, and no assertion of the
\* chunk program fails.
RootsAgree ==
    pc = "prove" => AggregateProofs(engine, proofs) = MerkleRoot(Commitments(proofs))

\* No run is given up by its own checks: the proofs a run collects fit the blob, and
\* the roots agree, so Aggregate always builds a transaction.  A run that does not
\* would be repeated with the same proofs for ever.
NoRunRefused == [][Aggregate => pc' = "send"]_vars

ProofsIn(block) ==
    LET sum[i \in 0..Len(blocks)] ==
            IF i = 0 THEN 0
            ELSE sum[i - 1] + IF blocks[i] = block THEN Len(ProofsToAdd(i)) ELSE 0
    IN  sum[Len(blocks)]

\* The block a run cannot get past: its proofs are more than the limit, so that every
\* run starts at it and stops in it, or reading one of its batches panics, so that
\* every run that reads that far ends.
Stuck(block) ==
    \/ ProofsIn(block) > Limit
    \/ \E i \in 1..Len(blocks) : blocks[i] = block /\ Panics(i)

\* Every proof of a posted batch is published in the end, whatever fails on the way,
\* except in the four cases in which the service gives up on it: its batch could not
\* be downloaded, a crash left an empty file behind, or there is a block ahead of the
\* service that has more proofs than the limit or a batch whose reading panics.  As
\* in NothingSteppedOver, a reverted transaction counts as published.
EveryProofHandled ==
    []<>(\/ \A i \in 1..Len(blocks) : Handled(i)
         \/ file = Truncated /\ pc = "off"
         \/ \E b \in 1..head : file <= b /\ Stuck(b))
=============================================================================
