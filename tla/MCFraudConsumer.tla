-------------------------- MODULE MCFraudConsumer --------------------------
(* Small instances of FraudConsumer for TLC. *)
EXTENDS FraudConsumer, TLC

CONSTANTS p1

(* One user, so one partition: the interleavings worth exploring are those *)
(* of two consumers on the same records.                                   *)
OnePartition == [e \in Events |-> p1]

(* The consumers are interchangeable. *)
ConsumerSymmetry == Permutations(Consumers)
=============================================================================
