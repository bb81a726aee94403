------------------------------- MODULE BatchLog -------------------------------
(***************************************************************************)
(* What push ingestion promises of the batches it is sent: a batch is held *)
(* by one request at a time, its records are stored only while it is held, *)
(* it is applied when all of them are, and a batch that is applied, or was *)
(* left behind by the request that held it, is not held again until it is  *)
(* forgotten. Records expire by themselves, whatever has become of the     *)
(* batches they came in.                                                   *)
(***************************************************************************)
EXTENDS Naturals, Sequences

CONSTANTS Keys,     \* idempotency keys
          Records,  \* what batches are made of
          BatchOf   \* the records of the batch with that key

VARIABLES log,      \* what has become of each batch
          stored,   \* the records stored
          expired   \* the records nobody is to find stored

vars == <<log, stored, expired>>

RecordsOf(k) == {BatchOf[k][i] : i \in 1..Len(BatchOf[k])}

TypeOK ==
    /\ log \in [Keys -> {"free", "held", "applied", "stuck"}]
    /\ stored \subseteq Records
    /\ expired \subseteq Records

Init == /\ log = [k \in Keys |-> "free"]
        /\ stored = {}
        /\ expired = {}

Hold(k) == /\ log[k] = "free"
           /\ log' = [log EXCEPT ![k] = "held"]
           /\ UNCHANGED <<stored, expired>>

Store(k) == /\ log[k] = "held"
            /\ \E r \in RecordsOf(k) : stored' = stored \cup {r}
            /\ UNCHANGED <<log, expired>>

Apply(k) == /\ log[k] = "held"
            /\ RecordsOf(k) \subseteq stored \cup expired
            /\ log' = [log EXCEPT ![k] = "applied"]
            /\ UNCHANGED <<stored, expired>>

GiveUp(k) == /\ log[k] = "held"
             /\ log' = [log EXCEPT ![k] = "free"]
             /\ UNCHANGED <<stored, expired>>

\* The requests that hold these batches end without a word.
Abandon(S) == /\ log' = [k \in Keys |-> IF k \in S THEN "stuck" ELSE log[k]]
              /\ \A k \in S : log[k] = "held"
              /\ UNCHANGED <<stored, expired>>

\* Records expire, which leaves none of the expired stored, and batches are forgotten.
Expire(R, K) == /\ expired' = expired \cup R
                /\ stored' = stored \ expired'
                /\ \A k \in K : log[k] \in {"applied", "stuck"}
                /\ log' = [k \in Keys |-> IF k \in K THEN "free" ELSE log[k]]

Next == \/ \E k \in Keys : Hold(k) \/ Store(k) \/ Apply(k) \/ GiveUp(k)
        \/ \E S \in SUBSET Keys : Abandon(S)
        \/ \E R \in SUBSET Records, K \in SUBSET Keys : Expire(R, K)

Spec == Init /\ [][Next]_vars
=============================================================================
