------------------------- MODULE AggregationClient -------------------------
(***************************************************************************)
(* The client of the aggregation mode: check_proof_verification and        *)
(* is_proof_verified_on_chain of crates/sdk/src/aggregation_layer/, run    *)
(* against what ProofAggregation has published.                            *)
(***************************************************************************)
EXTENDS ProofAggregation

Systems == [SP1 |-> 1, RISC0 |-> 2]

\* The numbering of TryFrom<u8>.
ZeroBasedId(p) == IF p.system = "SP1" THEN 0 ELSE 1

\* proving_system_id, as passed to the contract.
ProvingSystemId(p) == Systems[p.system]

\* AggregationModeVerificationData::commitment
SdkCommitment(p) == Keccak(Systems[p.system], p.program, p.inputs)

\* fetch_verified_proofs_events: the logs since from_block, in an order left open.
Logs == events

LeavesOf(log) == DecodedBlob(log.blob)

PathTo(leaves, commitment) ==
    MerklePath(leaves, CHOOSE i \in DOMAIN leaves :
        leaves[i] = commitment /\ \A j \in 1..(i - 1) : leaves[j] # commitment)

\* What one log says of a proof.
Status(log, p) ==
    LET leaves == LeavesOf(log)
        commitment == SdkCommitment(p)
    IN  IF ~Contains(leaves, commitment) THEN "absent"
        ELSE IF RootFromPath(PathTo(leaves, commitment), commitment) = log.root THEN "verified"
        ELSE "invalid"

\* check_proof_verification goes through the logs up to the first one that has the
\* commitment, and fails at one whose blob is lost: what it may return.
CheckProofVerification(p, lost) ==
    LET found == {Status(log, p) : log \in Logs \ lost} \ {"absent"} IN
    found \cup (IF lost # {} THEN {"error"} ELSE IF found = {} THEN {"notFound"} ELSE {})

\* verifyProofInclusion of the contract.
AggregatedProofs == {t.root : t \in events}

VerifyProofInclusion(path, id, program, inputs) ==
    RootFromPath(path, Keccak(id, program, inputs)) \in AggregatedProofs

IsProofVerifiedOnChain(p, path) ==
    VerifyProofInclusion(path, ProvingSystemId(p), p.program, p.inputs)

-----------------------------------------------------------------------------
\* What a client can ask about: AggregationModeVerificationData has a variant for
\* each of the two zkVMs.
Statements == {p \in Proofs : p.system \in DOMAIN Systems}

SameStatement(p, q) ==
    p.system = q.system /\ p.program = q.program /\ p.inputs = q.inputs

AggregatedIn(p, log) == \E q \in log.proofs : SameStatement(p, q)

\* What check_proof_verification says is true of what was aggregated: a statement is
\* "verified" only if it is in an aggregation whose blob could be read, "not found"
\* only if it is in none, and the blobs of this service never make one "invalid".
StatusIsTrue ==
    \A p \in Statements, lost \in {{}} \cup {{log} : log \in Logs} :
        LET status == CheckProofVerification(p, lost) IN
        /\ "invalid" \notin status
        /\ "verified" \in status <=> \E log \in Logs \ lost : AggregatedIn(p, log)
        /\ "notFound" \in status => \A log \in Logs : ~AggregatedIn(p, log)

\* The Merkle path check_proof_verification returns is accepted by the contract.
PathHoldsOnChain ==
    \A p \in Statements, log \in Logs :
        Status(log, p) = "verified"
            => IsProofVerifiedOnChain(p, PathTo(LeavesOf(log), SdkCommitment(p)))
=============================================================================
