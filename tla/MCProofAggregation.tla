------------------------- MODULE MCProofAggregation -------------------------
(* An instance of AggregationClient for TLC. *)
EXTENDS AggregationClient

Proof(system, program, inputs, form, valid) ==
    [system |-> system, program |-> program, inputs |-> inputs, form |-> form, valid |-> valid]

\* Proofs of both zkVMs and of another system, of supported and unsupported forms, an
\* invalid one of a statement that another batch proves, one statement with two proofs,
\* a statement whose digest begins with zeros, and a RISC0 proof without an image id.
MixedBatches == <<
    <<Proof("SP1", 0, 0, "compressed", TRUE),
      Proof("SP1", 1, 1, "compressed", FALSE),
      Proof("RISC0", 0, 1, "succinct", TRUE)>>,
    <<Proof("SP1", 1, 1, "compressed", TRUE),
      Proof("RISC0", 1, 0, "composite", TRUE),
      Proof("GnarkGroth16Bn254", 1, 0, "groth16", TRUE),
      Proof("SP1", 1, 0, "compressed", TRUE)>>,
    <<Proof("RISC0", 0, 1, "composite", TRUE),
      Proof("SP1", 0, 2, "groth16", TRUE),
      Proof("RISC0", 1, 2, "groth16", TRUE),
      Proof("SP1", 0, 1, "compressed", TRUE)>>,
    <<Proof("SP1", 1, 2, "compressed", TRUE),
      Proof("RISC0", NoImageId, 0, "succinct", FALSE)>> >>
=============================================================================
