-------------------------- MODULE AggregationTree --------------------------
(***************************************************************************)
(* The data the proof aggregation mode computes: commitments, Merkle       *)
(* trees, the two aggregation programs and the blob.  aggregation_mode/,   *)
(* and the decoding side in crates/sdk/src/aggregation_layer/.             *)
(*                                                                         *)
(* A digest is HashBytes bytes instead of 32 and a field element of the    *)
(* blob is as long as a digest, as in the code; one byte of it is padding. *)
(***************************************************************************)
EXTENDS Integers, Sequences, SequencesExt

CONSTANTS
    ProofsPerChunk,     \* config.proofs_per_chunk
    FieldElements       \* FIELD_ELEMENTS_PER_BLOB

ASSUME ChunkAssumption == ProofsPerChunk \in Nat \ {0}
ASSUME BlobAssumption == FieldElements \in Nat

HashBytes == 4

ZeroHash == [i \in 1..HashBytes |-> 0]

\* Keccak256 of the bytes of a statement: injective, never the zero hash, and with
\* zero bytes inside and at its ends, which the blob must not mistake for padding.
Keccak(id, program, inputs) == <<program, inputs, 0, id>>

-----------------------------------------------------------------------------
(***************************************************************************)
(* Commitments: computed by the service, again inside the zkVM programs,   *)
(* by the SDK and by the contract.                                         *)
(***************************************************************************)
Sp1Id == 1
Risc0Id == 2

HashVkAndPubInputs(p) == Keccak(Sp1Id, p.program, p.inputs)

HashImageIdAndPublicInputs(p) == Keccak(Risc0Id, p.program, p.inputs)

Commitment(p) ==
    IF p.system = "SP1" THEN HashVkAndPubInputs(p) ELSE HashImageIdAndPublicInputs(p)

Commitments(ps) == [i \in DOMAIN ps |-> Commitment(ps[i])]

\* A commitment that does not name the proving system.
UntaggedCommitment(p) == Keccak(0, p.program, p.inputs)

\* SP1VkAndPubInputs::commitment and Risc0ImageIdAndPubInputs::commitment
Sp1GuestCommitment(p) == Keccak(1, p.program, p.inputs)

Risc0GuestCommitment(p) == Keccak(2, p.program, p.inputs)

-----------------------------------------------------------------------------
(***************************************************************************)
(* Merkle trees (lambdaworks): the leaves are completed to a power of two  *)
(* by repeating the last one.  The hash of two nodes is commutative.       *)
(***************************************************************************)
HashData(leaf) == [leaf |-> leaf, children |-> {}]

HashNewParent(l, r) == [leaf |-> <<>>, children |-> {l, r}]

Height(n) == CHOOSE h \in 0..n : 2^h >= n /\ \A k \in 0..(h - 1) : 2^k < n

\* The levels of the tree, from the leaves up.
MerkleTree(leaves) ==
    LET height == Height(Len(leaves))
        level[k \in 0..height] ==
            [j \in 1..2^(height - k) |->
                IF k = 0
                THEN HashData(IF j <= Len(leaves) THEN leaves[j] ELSE Last(leaves))
                ELSE HashNewParent(level[k - 1][2 * j - 1], level[k - 1][2 * j])]
    IN  level

MerkleRoot(leaves) == MerkleTree(leaves)[Height(Len(leaves))][1]

\* get_proof_by_pos: the sibling at every level, from the leaf up.
MerklePath(leaves, pos) ==
    [k \in 1..Height(Len(leaves)) |->
        LET index == ((pos - 1) \div 2^(k - 1)) + 1
            sibling == IF index % 2 = 1 THEN index + 1 ELSE index - 1
        IN  MerkleTree(leaves)[k - 1][sibling]]

\* Proof::verify here and processProofCalldata in the contract.
RootFromPath(path, commitment) ==
    FoldLeft(HashNewParent, HashData(commitment), path)

-----------------------------------------------------------------------------
(***************************************************************************)
(* aggregate_proofs: chunks of proofs, one program run for each chunk, and *)
(* one for the chunks.                                                     *)
(***************************************************************************)
Chunks(s) ==
    [k \in 1..((Len(s) + ProofsPerChunk - 1) \div ProofsPerChunk) |->
        SubSeq(s, (k - 1) * ProofsPerChunk + 1,
               IF k * ProofsPerChunk <= Len(s) THEN k * ProofsPerChunk ELSE Len(s))]

\* user_proofs_aggregator_main: what the program commits to for a chunk.
Sp1UserProofsProgram(chunk) ==
    MerkleRoot([i \in DOMAIN chunk |-> Sp1GuestCommitment(chunk[i])])

Risc0UserProofsProgram(chunk) ==
    MerkleRoot([i \in DOMAIN chunk |-> Risc0GuestCommitment(chunk[i])])

\* run_user_proofs_aggregator: the proof of a chunk names its program.
Sp1UserProofsAggregator(chunk) ==
    [program |-> "sp1 user proofs", root |-> Sp1UserProofsProgram(chunk)]

Risc0UserProofsAggregator(chunk) ==
    [program |-> "risc0 user proofs", root |-> Risc0UserProofsProgram(chunk)]

\* The root a program that panics ends with: none.
NoRoot == HashData(<<>>)

\* The assertions of chunk_aggregator_main.
ChunksMatch(program, chunkProofs, leaves) ==
    \A k \in DOMAIN chunkProofs :
        chunkProofs[k] = [program |-> program, root |-> MerkleRoot(leaves[k])]

Sp1ChunkProgram(chunkProofs, leaves) ==
    IF ChunksMatch("sp1 user proofs", chunkProofs, leaves)
      THEN MerkleRoot(FlattenSeq(leaves)) ELSE NoRoot

Risc0ChunkProgram(chunkProofs, leaves) ==
    IF ChunksMatch("risc0 user proofs", chunkProofs, leaves)
      THEN MerkleRoot(FlattenSeq(leaves)) ELSE NoRoot

\* run_user_proofs_aggregator for every chunk, then run_chunk_aggregator.
Sp1AggregateProofs(chunks, leaves) ==
    Sp1ChunkProgram([k \in DOMAIN chunks |-> Sp1UserProofsAggregator(chunks[k])], leaves)

Risc0AggregateProofs(chunks, leaves) ==
    Risc0ChunkProgram([k \in DOMAIN chunks |-> Risc0UserProofsAggregator(chunks[k])], leaves)

AggregateProofs(engine, proofs) ==
    LET chunks == Chunks(proofs)
        leaves == [k \in DOMAIN chunks |-> Commitments(chunks[k])]
    IN  IF engine = "SP1" THEN Sp1AggregateProofs(chunks, leaves)
                          ELSE Risc0AggregateProofs(chunks, leaves)

-----------------------------------------------------------------------------
(***************************************************************************)
(* The blob                                                                *)
(***************************************************************************)
PayloadBytes == HashBytes - 1

BlobFits(leaves) == Len(leaves) * HashBytes <= FieldElements * PayloadBytes

\* Without the padding that keeps field elements below the modulus.
UnpaddedBlob(leaves) ==
    LET data == FlattenSeq(leaves) IN
    [i \in 1..(FieldElements * HashBytes) |-> IF i <= Len(data) THEN data[i] ELSE 0]

\* construct_blob: a zero byte before every PayloadBytes bytes of the leaves.
ConstructBlob(leaves) ==
    LET data == FlattenSeq(leaves)
        element(i) == (i - 1) \div HashBytes
        offset(i) == (i - 1) % HashBytes
        at(i) == element(i) * PayloadBytes + offset(i)
    IN  [i \in 1..(FieldElements * HashBytes) |->
            IF offset(i) = 0 \/ at(i) > Len(data) THEN 0 ELSE data[at(i)]]

\* decoded_blob: the padding is skipped, and the first zero hash ends the list.
DecodedBlob(blob) ==
    LET payload == [i \in 1..(FieldElements * PayloadBytes) |->
                        blob[i + 1 + (i - 1) \div PayloadBytes]]
        hash(k) == SubSeq(payload, (k - 1) * HashBytes + 1, k * HashBytes)
        ends == {k \in 1..(Len(payload) \div HashBytes) : hash(k) = ZeroHash}
        count == IF ends = {} THEN Len(payload) \div HashBytes
                 ELSE (CHOOSE k \in ends : \A m \in ends : k <= m) - 1
    IN  [k \in 1..count |-> hash(k)]
=============================================================================
