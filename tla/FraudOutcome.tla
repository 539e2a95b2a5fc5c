---------------------------- MODULE FraudOutcome ----------------------------
(***************************************************************************)
(* What the consumer pipeline promises, whatever its processes do: the     *)
(* first decision on an event stays, dead letters are kept, and the group  *)
(* commits an offset only when every record below it has an outcome: a     *)
(* decision, a dead letter, or (the weak spot) it was given up.            *)
(***************************************************************************)
EXTENDS Naturals, Sequences

CONSTANTS Events, Partitions, PartitionOf, Decisions, Undecided

VARIABLES
    log,           \* the source topic
    committed,     \* committed offset per partition
    decision,      \* the decision on each event, or Undecided
    deadLettered,  \* records with a dead letter
    abandoned      \* records given up

vars == <<log, committed, decision, deadLettered, abandoned>>

Settled(r) ==
    \/ decision[log[r.part][r.off + 1]] # Undecided
    \/ r \in deadLettered
    \/ r \in abandoned

Init ==
    /\ log = [p \in Partitions |-> <<>>]
    /\ committed = [p \in Partitions |-> 0]
    /\ decision = [e \in Events |-> Undecided]
    /\ deadLettered = {}
    /\ abandoned = {}

Publish ==
    \E e \in Events :
        /\ log' = [log EXCEPT ![PartitionOf[e]] = Append(@, e)]
        /\ UNCHANGED <<committed, decision, deadLettered, abandoned>>

(* Decisions are final, and only published events are decided. *)
MayDecide ==
    \A e \in Events :
        \/ decision'[e] = decision[e]
        \/ /\ decision[e] = Undecided
           /\ decision'[e] \in Decisions
           /\ e \in {log[PartitionOf[e]][i] : i \in DOMAIN log[PartitionOf[e]]}

MayDeadLetter == \A r \in deadLettered' \ deadLettered : r.off < Len(log[r.part])

MayAbandon == \A r \in abandoned' \ abandoned : r.off < Len(log[r.part])

(* A commit moves forward, past settled records only. *)
MayCommit ==
    \A p \in Partitions :
        \/ committed'[p] = committed[p]
        \/ /\ committed'[p] \in committed[p] .. Len(log[p])
           /\ \A o \in 0 .. committed'[p] - 1 : Settled([part |-> p, off |-> o])

Progress ==
    /\ log' = log
    /\ MayDecide
    /\ deadLettered \subseteq deadLettered'
    /\ MayDeadLetter
    /\ abandoned \subseteq abandoned'
    /\ MayAbandon
    /\ MayCommit

Next == Publish \/ Progress

Spec == Init /\ [][Next]_vars
=============================================================================
