---------------------------- MODULE SdkClient ----------------------------
(***************************************************************************)
(* The SDK's session with the batcher, crates/sdk/src/communication/ and   *)
(* verification_layer/, as the CLI's Submit command and the task sender's  *)
(* loop use it: one user submits bursts of proofs one after the other,     *)
(* each over a connection of its own, always with the same max_fee.        *)
(*                                                                         *)
(* The batcher appears through what a client can tell of it (Batcher has   *)
(* the rest): the nonce it expects, the user's queued proofs, the batch    *)
(* being posted.  Its refusals have one kind, "error".  Every burst has    *)
(* its own proofs; the root of a batch is the batch itself.                *)
(***************************************************************************)
EXTENDS Integers, Sequences, FiniteSets, FiniteSetsExt, Functions

CONSTANTS
    Bursts,         \* bursts submitted
    MaxBurst,       \* proofs in a burst
    Calls,          \* functions of the SDK the user calls
    None,           \* no user state, no connection, no batch
    MaxFaults       \* failures of the network, the batcher and the chain

ASSUME BurstAssumption == Bursts \in Nat \ {0} /\ MaxBurst \in Nat \ {0}
Apis == {"submit", "submit_and_wait", "submit_multiple", "submit_multiple_and_wait"}

ASSUME CallsAssumption == Calls \subseteq Apis
ASSUME FaultAssumption == MaxFaults \in Nat
ASSUME NoneAssumption == None \notin Nat \cup {"open", "lost", "closed", "sent", "created", "stuck"}

VARIABLES
    round,      \* burst being submitted
    client,     \* locals of the call of the SDK
    reports,    \* what the calls returned
    conn,       \* state of each burst's connection
    toBatcher,  \* messages under way to the batcher
    toClient,   \* messages under way to the client
    cached,     \* the user's UserState.nonce, None when there is no state
    queue,      \* the user's entries in the batch queue
    posting,    \* the batch being posted
    dropped,    \* entries the batcher lost without a word
    stopped,    \* the locks of the batcher's queue are held for ever
    ethNonce,   \* the user's nonce in BatcherPaymentService
    created,    \* batches for which a task was created
    reverted,   \* batches whose createNewTask reverted, receipt and all
    verified,   \* batches the operators verified
    faults

clientVars  == <<round, client, reports>>
netVars     == <<conn, toBatcher, toClient>>
batcherVars == <<cached, queue, posting, dropped, stopped>>
chainVars   == <<ethNonce, created, reverted, verified>>
vars == <<clientVars, netVars, batcherVars, chainVars, faults>>

Rounds == 1..Bursts
Waits(api) == api \in {"submit_and_wait", "submit_multiple_and_wait"}
Single(api) == api \in {"submit", "submit_and_wait"}

Error == [ok |-> FALSE]
Ok(e, root, index) == [ok |-> TRUE, proof |-> e, root |-> root, index |-> index]

IdleClient == [pc |-> "idle", api |-> "submit", size |-> 1, base |-> 0, sent |-> <<>>,
               pending |-> {}, results |-> <<>>, checked |-> 0]

\* The flag is lowered, the batch kept.
BatchKept == [pc |-> None, batch |-> posting.batch, unsent |-> 0]

\* No batch is being posted.
NotPosting == [pc |-> None, batch |-> <<>>, unsent |-> 0]

Init ==
    /\ round = 0 /\ client = IdleClient
    /\ reports = [r \in Rounds |-> [api |-> None, results |-> <<>>]]
    /\ conn = [r \in Rounds |-> None]
    /\ toBatcher = [r \in Rounds |-> <<>>] /\ toClient = [r \in Rounds |-> <<>>]
    /\ cached = None /\ queue = {} /\ dropped = {} /\ stopped = FALSE
    /\ posting = [pc |-> None, batch |-> <<>>, unsent |-> 0]
    /\ ethNonce = 0 /\ created = {} /\ reverted = {} /\ verified = {}
    /\ faults = 0

\* The nonce the batcher expects: the cached one, or the contract's.
Expected == IF cached = None THEN ethNonce ELSE cached

Fault == faults < MaxFaults /\ faults' = faults + 1

-----------------------------------------------------------------------------
(***************************************************************************)
(* The client.                                                             *)
(***************************************************************************)
\* What a call makes of the results: the single-proof calls keep the first.
Returned(api, results) ==
    IF Single(api) THEN <<IF results = <<>> THEN Error ELSE results[1]>> ELSE results

\* The call returns; the program goes on to its next burst.
Return(results) ==
    /\ reports' = [reports EXCEPT ![round] =
         [api |-> client.api, results |-> Returned(client.api, results)]]
    /\ client' = IdleClient

\* A burst starts with the nonce the batcher answers to GetNonceForAddress.
GetNonce(api, n) ==
    /\ client.pc = "idle" /\ round < Bursts
    /\ Single(api) => n = 1
    /\ round' = round + 1
    /\ client' = [IdleClient EXCEPT !.pc = "connect", !.api = api, !.size = n, !.base = Expected]
    /\ UNCHANGED <<reports, netVars, batcherVars, chainVars, faults>>

\* No connection, another protocol version, ServerBusy, EthRpcError.
GetNonceFails ==
    /\ client.pc = "idle" /\ round < Bursts
    /\ IF stopped THEN UNCHANGED faults ELSE Fault
    /\ round' = round + 1
    /\ reports' = [reports EXCEPT ![round'].results = <<Error>>]
    /\ UNCHANGED <<client, netVars, batcherVars, chainVars>>

\* connect_async and check_protocol_version
Connect ==
    /\ client.pc = "connect"
    /\ conn' = [conn EXCEPT ![round] = "open"]
    /\ client' = [client EXCEPT !.pc = "send"]
    /\ UNCHANGED <<round, reports, toBatcher, toClient, batcherVars, chainVars, faults>>

ConnectFails ==
    /\ client.pc = "connect" /\ Fault
    /\ Return(<<Error>>)
    /\ UNCHANGED <<round, netVars, batcherVars, chainVars>>

\* One turn of the loop of send_messages: proof i of the burst, nonce base + i - 1.
SendMessage ==
    LET i == Len(client.sent) + 1
        e == [nonce |-> client.base + i - 1, round |-> round, i |-> i]
    IN  /\ client.pc = "send" /\ conn[round] = "open"
        /\ toBatcher' = [toBatcher EXCEPT ![round] = Append(@, e)]
        /\ client' = [client EXCEPT !.sent = Append(@, e), !.pending = @ \cup {e},
                                    !.pc = IF i = client.size THEN "receive" ELSE "send"]
        /\ UNCHANGED <<round, reports, conn, toClient, batcherVars, chainVars, faults>>

\* The error is put in the list of sent messages, which receive() flattens away.
SendFails ==
    /\ client.pc = "send" /\ conn[round] = "lost"
    /\ client' = [client EXCEPT !.pc = "receive"]
    /\ UNCHANGED <<round, reports, netVars, batcherVars, chainVars, faults>>


\* get_biggest_nonce
BiggestNonce(sent) == Max({0} \cup {sent[j].nonce : j \in DOMAIN sent})

\* match_batcher_response_with_stored_verification_data
Matches(msg) == {e \in client.pending : e.nonce = msg.nonce}

\* verify_proof_inclusion: the Merkle path leads from the proof to the root.
ProofIsIncluded(e, msg) ==
    msg.index \in DOMAIN msg.root /\ msg.root[msg.index] = e

\* process_batcher_response
Answer(msg) ==
    IF \E e \in Matches(msg) : ProofIsIncluded(e, msg)
      THEN Ok(CHOOSE e \in Matches(msg) : TRUE, msg.root, msg.index)
      ELSE Error

\* receive() takes a batch inclusion: the last nonce, or an answer that does not
\* check, ends the burst.
ReceiveInclusion ==
    LET msg == Head(toClient[round])
        answer == Answer(msg)
    IN  /\ client.pc = "receive" /\ toClient[round] # <<>> /\ msg.kind = "inclusion"
        /\ toClient' = [toClient EXCEPT ![round] = Tail(@)]
        /\ client' = [client EXCEPT
             !.results = Append(@, answer),
             !.pending = @ \ Matches(msg),
             !.pc = IF answer = Error \/ msg.nonce = BiggestNonce(client.sent)
                      THEN "close" ELSE "receive"]
        /\ UNCHANGED <<round, reports, conn, toBatcher, batcherVars, chainVars, faults>>

\* An error that only ends its own proof.
ContinueAfterError == "receive"

\* receive() breaks at the first error.
AfterError == "close"

\* receive() takes an error or a close frame.
ReceiveError ==
    /\ client.pc = "receive" /\ toClient[round] # <<>>
    /\ Head(toClient[round]).kind \in {"error", "close"}
    /\ toClient' = [toClient EXCEPT ![round] = Tail(@)]
    /\ client' = [client EXCEPT !.results = Append(@, Error), !.pc = AfterError]
    /\ UNCHANGED <<round, reports, conn, toBatcher, batcherVars, chainVars, faults>>

\* The stream yields None or an error: receive() stops and says nothing.
StreamEnds ==
    /\ client.pc = "receive" /\ conn[round] = "lost" /\ toClient[round] = <<>>
    /\ client' = [client EXCEPT !.pc = "close"]
    /\ UNCHANGED <<round, reports, netVars, batcherVars, chainVars, faults>>

\* Close the connection, wait for the batches if asked to, return.
GoOn(results) ==
    \/ /\ Waits(client.api)
       /\ client' = [client EXCEPT !.pc = "await", !.results = results]
       /\ UNCHANGED reports
    \/ ~Waits(client.api) /\ Return(results)

Close ==
    /\ client.pc = "close"
    /\ conn' = [conn EXCEPT ![round] = "closed"]
    /\ toClient' = [toClient EXCEPT ![round] = <<>>]
    /\ \/ GoOn(client.results) /\ UNCHANGED faults
       \/ GoOn(<<Error>>) /\ IF conn[round] = "lost" THEN UNCHANGED faults ELSE Fault
    /\ UNCHANGED <<round, toBatcher, batcherVars, chainVars>>

\* is_proof_verified: verifyBatchInclusion of AlignedLayerServiceManager.
IsProofVerified(data) ==
    data.root \in verified /\ ProofIsIncluded(data.proof, [root |-> data.root, index |-> data.index])

\* The results for which await_batch_verification is yet to be called.
Unchecked == {j \in DOMAIN client.results : client.checked < j /\ client.results[j].ok}

AwaitVerified ==
    /\ client.pc = "await"
    /\ \E j \in Unchecked :
         /\ \A k \in Unchecked : j <= k
         /\ IsProofVerified(client.results[j])
         /\ client' = [client EXCEPT !.checked = j]
    /\ UNCHANGED <<round, reports, netVars, batcherVars, chainVars, faults>>

\* A timeout that is only logged.
SameResults(results) == results

\* The timeout is one more result.
WithTimeout(results) == Append(results, Error)

\* RETRIES queries found it unverified, or failed.
AwaitTimesOut ==
    /\ client.pc = "await" /\ Unchecked # {}
    /\ Return(WithTimeout(client.results))
    /\ UNCHANGED <<round, netVars, batcherVars, chainVars, faults>>

AwaitEnds ==
    /\ client.pc = "await" /\ Unchecked = {}
    /\ Return(client.results)
    /\ UNCHANGED <<round, netVars, batcherVars, chainVars, faults>>

\* The CLI's Submit saves the responses up to the first error.
SavedResponses(results) ==
    {results[j] : j \in {k \in DOMAIN results : \A l \in 1..k : results[l].ok}}

-----------------------------------------------------------------------------
(***************************************************************************)
(* The batcher, as far as this user can tell.                              *)
(***************************************************************************)
\* A message for the client of burst r, lost unless its connection is open.
Deliver(boxes, r, msg) ==
    IF conn[r] = "open" THEN [boxes EXCEPT ![r] = Append(@, msg)] ELSE boxes

\* An error for the client of each of the given entries.
TellAll(entries) ==
    toClient' = [r \in Rounds |->
        IF conn[r] # "open" THEN toClient[r]
        ELSE toClient[r] \o [j \in 1..Cardinality({e \in entries : e.round = r})
                                |-> [kind |-> "error"]]]

\* Entries of one user and nonce are equal to the queue: it keeps the one it has, and
\* the other is gone.
InQueue(e) == \E f \in queue : f.nonce = e.nonce

\* handle_submit_proof_msg: the expected nonce is queued; another one is refused,
\* a lower one because a replacement has to offer more.
HandleSubmitProof(r) ==
    LET e == Head(toBatcher[r]) IN
    /\ toBatcher[r] # <<>> /\ ~stopped
    /\ toBatcher' = [toBatcher EXCEPT ![r] = Tail(@)]
    /\ \/ /\ e.nonce = Expected
          /\ queue' = IF InQueue(e) THEN queue ELSE queue \cup {e}
          /\ dropped' = IF InQueue(e) THEN dropped \cup {e} ELSE dropped
          /\ cached' = e.nonce + 1
          /\ UNCHANGED toClient
       \/ /\ e.nonce # Expected
          /\ toClient' = Deliver(toClient, r, [kind |-> "error"])
          /\ cached' = Expected
          /\ UNCHANGED <<queue, dropped>>
    /\ UNCHANGED <<clientVars, conn, posting, stopped, chainVars, faults>>

\* ServerBusy: the handler of a stopped batcher gives up waiting for its locks.
AnswerBusy(r) ==
    /\ toBatcher[r] # <<>> /\ stopped
    /\ toBatcher' = [toBatcher EXCEPT ![r] = Tail(@)]
    /\ toClient' = Deliver(toClient, r, [kind |-> "error"])
    /\ UNCHANGED <<clientVars, conn, batcherVars, chainVars, faults>>

\* The checks of the message alone: chain, payment service, size, signature, fee,
\* locked funds.
RefuseMessage(r) ==
    /\ toBatcher[r] # <<>> /\ Fault
    /\ toBatcher' = [toBatcher EXCEPT ![r] = Tail(@)]
    /\ toClient' = Deliver(toClient, r, [kind |-> "error"])
    /\ UNCHANGED <<clientVars, conn, batcherVars, chainVars>>

\* The refusals after the user has a state: balance, fee limit, verifier, ServerBusy.
RefuseSubmitProof(r) ==
    /\ toBatcher[r] # <<>> /\ Fault
    /\ toBatcher' = [toBatcher EXCEPT ![r] = Tail(@)]
    /\ toClient' = Deliver(toClient, r, [kind |-> "error"])
    /\ cached' = Expected
    /\ UNCHANGED <<clientVars, conn, queue, posting, dropped, stopped, chainVars>>

Earlier(e, f) == e.nonce < f.nonce \/ (e.nonce = f.nonce /\ e.round < f.round)

\* The entries in the order of the priority queue: the highest nonce first.
InQueueOrder(entries) ==
    {b \in [1..Cardinality(entries) -> entries] : \A i, j \in DOMAIN b : i < j => Earlier(b[j], b[i])}

\* extract_batch_if_ready: proofs of one fee leave in nonce order, as many as cover
\* the cost of the batch; when it never falls that low, they stay.
ExtractBatch ==
    /\ posting.pc = None /\ ~stopped
    /\ \E S \in (SUBSET queue) \ {{}} :
         /\ \A e \in S, f \in queue \ S : Earlier(e, f)
         /\ \E b \in InQueueOrder(S) : posting' = [pc |-> "sent", batch |-> b, unsent |-> Len(b)]
         /\ queue' = queue \ S
    /\ UNCHANGED <<clientVars, netVars, cached, dropped, stopped, chainVars, faults>>

\* createNewTask counts the proofs, it does not see their nonces.
CreateTask ==
    /\ ethNonce' = ethNonce + Len(posting.batch)
    /\ created' = created \cup {posting.batch}
    /\ UNCHANGED <<reverted, verified>>

\* The status of the receipt of a transaction that reverted is not looked at.
RevertPasses ==
    /\ Fault
    /\ reverted' = reverted \cup {posting.batch}
    /\ UNCHANGED <<ethNonce, created, verified>>

\* The receipt of createNewTask; then the user states are updated, which a stopped
\* batcher never gets to.
TaskCreated ==
    /\ posting.pc = "sent"
    /\ \/ CreateTask /\ UNCHANGED faults
       \/ RevertPasses
    /\ posting' = [posting EXCEPT !.pc = IF stopped THEN "stuck" ELSE "created"]
    /\ UNCHANGED <<clientVars, netVars, cached, queue, dropped, stopped>>

\* rev() before enumerate().
IndexFromTheEnd(batch, j) == Len(batch) + 1 - j

\* The index in the batch of its j-th entry: enumerate() before rev().
IndexInBatch(batch, j) == j

\* BatchInclusionData::new
InclusionData(batch, j) ==
    [kind |-> "inclusion", nonce |-> batch[j].nonce, root |-> batch, index |-> IndexInBatch(batch, j)]

\* One turn of the loop of send_batch_inclusion_data_responses, in ascending nonce
\* order; after the last the posting is over.
SendResponse ==
    LET j == posting.unsent IN
    /\ posting.pc = "created"
    /\ toClient' = Deliver(toClient, posting.batch[j].round, InclusionData(posting.batch, j))
    /\ posting' = IF j = 1 THEN NotPosting ELSE [posting EXCEPT !.unsent = j - 1]
    /\ UNCHANGED <<clientVars, conn, toBatcher, cached, queue, dropped, stopped, chainVars, faults>>

\* Another client of the batch does not read what it is sent, and the sends have no
\* timeout.
ClientBlocks ==
    /\ posting.pc = "created" /\ Fault
    /\ posting' = [posting EXCEPT !.pc = "stuck"]
    /\ UNCHANGED <<clientVars, netVars, cached, queue, dropped, stopped, chainVars>>

\* Some entries of the batch go back to the queue, from which others are evicted.
\* What the queue has no room for, and what it has an equal of, is lost without a word.
Restore(back, evicted) ==
    /\ queue' = (queue \ evicted) \cup {e \in back : ~InQueue(e)}
    /\ dropped' = dropped \cup evicted \cup (Range(posting.batch) \ queue')
    /\ posting' = NotPosting

\* The posting fails and its proofs go back, which a stopped batcher never gets to.
\* The transaction may be mined all the same.
PostingFails ==
    /\ posting.pc = "sent" /\ Fault
    /\ CreateTask \/ UNCHANGED chainVars
    /\ \/ /\ ~stopped
          /\ \E back \in SUBSET Range(posting.batch) : Restore(back, {})
       \/ /\ stopped
          /\ posting' = [posting EXCEPT !.pc = "stuck"]
          /\ UNCHANGED <<queue, dropped>>
    /\ UNCHANGED <<clientVars, netVars, cached, stopped>>

\* A restoration that evicts an entry, of this user or of another one, waits for the
\* lock of the user states that it holds itself.
RestoreBlocks ==
    /\ posting.pc = "sent" /\ ~stopped /\ Fault
    /\ CreateTask \/ UNCHANGED chainVars
    /\ \E back \in SUBSET Range(posting.batch), evicted \in {{}} \cup {{e} : e \in queue} :
         Restore(back, evicted)
    /\ stopped' = TRUE
    /\ UNCHANGED <<clientVars, netVars, cached>>

\* flush_queue_and_clear_nonce_cache, alone (new disabled verifiers) or with the
\* batch (a user that cannot pay), and the removal of a user whose funds are unlocked.
FlushQueue ==
    /\ ~stopped /\ Fault
    /\ \/ TellAll(queue) /\ UNCHANGED posting
       \/ /\ posting.pc = "sent"
          /\ TellAll(queue \cup Range(posting.batch))
          /\ posting' = NotPosting
    /\ queue' = {} /\ cached' = None
    /\ UNCHANGED <<clientVars, conn, toBatcher, dropped, stopped, chainVars>>

\* A better paying proof of another user evicts one of several.  The handler may panic
\* when the user's state does not account for the entry, before it tells the client.
Evict ==
    /\ ~stopped /\ cached # None /\ Fault
    /\ \E e \in queue :
         /\ queue' = queue \ {e} /\ queue' # {}
         /\ \/ cached > 0 /\ TellAll({e}) /\ UNCHANGED dropped
            \/ dropped' = dropped \cup {e} /\ UNCHANGED toClient
    /\ cached' = IF cached = 0 THEN 0 ELSE cached - 1
    /\ UNCHANGED <<clientVars, conn, toBatcher, posting, stopped, chainVars>>

\* It evicts the last one: the handler waits for the lock it holds itself.
EvictLast ==
    /\ ~stopped /\ cached # None /\ Cardinality(queue) = 1 /\ Fault
    /\ dropped' = dropped \cup queue /\ queue' = {}
    /\ stopped' = TRUE
    /\ UNCHANGED <<clientVars, netVars, cached, posting, chainVars>>

\* The proof of another user is the last one, or the client it replies to, with the
\* lock of the queue held, does not read.
Stop ==
    /\ ~stopped /\ Fault
    /\ stopped' = TRUE
    /\ UNCHANGED <<clientVars, netVars, cached, queue, posting, dropped, chainVars>>

-----------------------------------------------------------------------------
(***************************************************************************)
(* The network and the operators.                                          *)
(***************************************************************************)
\* A connection breaks: what was under way may be lost, from some point on.
ConnectionLost ==
    /\ \E r \in Rounds :
         /\ conn[r] = "open"
         /\ conn' = [conn EXCEPT ![r] = "lost"]
         /\ \E n \in 0..Len(toBatcher[r]) :
              toBatcher' = [toBatcher EXCEPT ![r] = SubSeq(@, 1, n)]
         /\ \E n \in 0..Len(toClient[r]) :
              toClient' = [toClient EXCEPT ![r] = SubSeq(@, 1, n)]
    /\ Fault
    /\ UNCHANGED <<clientVars, batcherVars, chainVars>>

\* The other side closes the websocket in good order.
CloseFrame ==
    /\ \E r \in Rounds :
         /\ conn[r] = "open"
         /\ conn' = [conn EXCEPT ![r] = "lost"]
         /\ toClient' = [toClient EXCEPT ![r] = Append(@, [kind |-> "close"])]
    /\ Fault
    /\ UNCHANGED <<clientVars, toBatcher, batcherVars, chainVars>>

\* The operators verify a batch.
VerifyBatch ==
    /\ \E b \in created \ verified : verified' = verified \cup {b}
    /\ UNCHANGED <<clientVars, netVars, batcherVars, ethNonce, created, reverted, faults>>

ClientStep ==
    \/ \E api \in Calls, n \in 1..MaxBurst : GetNonce(api, n)
    \/ GetNonceFails \/ Connect \/ ConnectFails
    \/ SendMessage \/ SendFails
    \/ ReceiveInclusion \/ ReceiveError \/ StreamEnds \/ Close
    \/ AwaitVerified \/ AwaitTimesOut \/ AwaitEnds

BatcherStep ==
    \/ \E r \in Rounds :
         HandleSubmitProof(r) \/ AnswerBusy(r) \/ RefuseMessage(r) \/ RefuseSubmitProof(r)
    \/ ExtractBatch \/ TaskCreated \/ SendResponse \/ ClientBlocks
    \/ PostingFails \/ RestoreBlocks \/ FlushQueue \/ Evict \/ EvictLast \/ Stop

NetworkStep == ConnectionLost \/ CloseFrame \/ VerifyBatch

Next == ClientStep \/ BatcherStep \/ NetworkStep

Spec == Init /\ [][Next]_vars

\* The client runs; a connection's messages are handled, within the timeouts of the
\* handlers; a batch gets its receipt, within the retries of the task transaction, and
\* its clients are answered unless one of them blocks, once failures stop.  Nothing
\* says that a proof is ever extracted.
FairSpec ==
    /\ Spec
    /\ WF_vars(ReceiveInclusion \/ ReceiveError \/ StreamEnds)
    /\ \A r \in Rounds : WF_vars(HandleSubmitProof(r) \/ AnswerBusy(r))
    /\ WF_vars(TaskCreated) /\ WF_vars(SendResponse)

-----------------------------------------------------------------------------
(***************************************************************************)
(* Properties.                                                             *)
(***************************************************************************)
Entries == [nonce : Nat, round : Rounds, i : 1..MaxBurst]

\* The inclusions among the results.
Included(results) == {results[j] : j \in {k \in DOMAIN results : results[k].ok}}

\* The variables have their types; a batch is kept exactly while it is posted.
TypeOK ==
    /\ round \in 0..Bursts
    /\ client.pc \in {"idle", "connect", "send", "receive", "close", "await"}
    /\ client.api \in Apis
    /\ client.pending \subseteq Entries
    /\ Len(client.sent) <= client.size /\ client.size \in 1..MaxBurst
    /\ conn \in [Rounds -> {None, "open", "lost", "closed"}]
    /\ \A r \in Rounds : Range(toBatcher[r]) \subseteq Entries
    /\ cached = None \/ cached \in Nat
    /\ queue \subseteq Entries /\ dropped \subseteq Entries
    /\ posting.pc \in {None, "sent", "created", "stuck"} /\ Range(posting.batch) \subseteq Entries
    /\ (posting.pc = None) <=> (posting.batch = <<>>)
    /\ posting.unsent \in 0..Len(posting.batch)
    /\ stopped \in BOOLEAN
    /\ ethNonce \in Nat /\ verified \subseteq created
    /\ faults \in 0..MaxFaults

\* The batches whose createNewTask has a receipt.
Mined == created \cup reverted

\* Inclusions first, in nonce order, errors last; each inclusion of a proof of burst r
\* in a batch of tasks; and the CLI saves all of them.
TrueResults(results, r, tasks) ==
    /\ \A j, k \in DOMAIN results : j < k /\ results[k].ok =>
         results[j].ok /\ results[j].proof.nonce < results[k].proof.nonce
    /\ \A x \in Included(results) :
         x.proof.round = r /\ x.root \in tasks /\ x.proof \in Range(x.root)
    /\ SavedResponses(results) = Included(results)

\* The results of a burst: inclusions first, errors last; the inclusions in nonce
\* order, each of a proof of this burst in a batch whose task was created, unless its
\* createNewTask reverted: the batcher does not look at the status of a receipt, so
\* that an inclusion in a batch without a task is reported as well.  And the CLI,
\* which stops at the first error, saves every inclusion it was told of.
ResultsAreTrue ==
    /\ \A r \in Rounds : TrueResults(reports[r].results, r, Mined)
    /\ round > 0 => TrueResults(client.results, round, Mined)

\* The inclusion data of the batcher always passes the client's check: its nonce
\* is one the client sent on this connection and its index leads to that proof.
NoInvalidInclusion ==
    client.pc = "receive" =>
        \A m \in Range(toClient[round]) : m.kind = "inclusion" => Answer(m).ok

\* What submit_multiple_and_wait returns without an error is verified.
WaitedForVerification ==
    \A r \in Rounds :
        LET results == reports[r].results
        IN  (reports[r].api = "submit_multiple_and_wait" /\ \A x \in Range(results) : x.ok)
                => \A x \in Range(results) : IsProofVerified(x)

Receiving(r) == client.pc = "receive" /\ round = r

\* The batcher lost a proof of burst r without a word, or never gets to the end of the
\* batch with it.
NeverAnswered(r) ==
    \/ \E e \in dropped : e.round = r
    \/ posting.pc = "stuck" /\ \E j \in 1..posting.unsent : posting.batch[j].round = r

=============================================================================
