------------------------------ MODULE PushIngest ------------------------------
(***************************************************************************)
(* Pushed telemetry of one source: the handlers that take its batches.     *)
(*                                                                         *)
(* A batch is admitted by reserving its idempotency key in a row of its    *)
(* own; its records are then stored one by one, and the reservation is     *)
(* released if one of them fails. Every statement runs under the context   *)
(* of the request, which a client that disconnects cancels. Requests run   *)
(* concurrently, clients retry as they please, and the process may die.    *)
(* The maintenance forgets a key some time after the server received it,   *)
(* and deletes a record some time after the time its sender gave it: the   *)
(* record of a backfill goes long before its key.                          *)
(***************************************************************************)
EXTENDS Naturals, Sequences

CONSTANTS
    Handlers,   \* requests served at once
    Keys,       \* values of the Idempotency-Key header
    Records,    \* records, up to the identity their tables have a unique index on
    BatchOf     \* what a client sends under a key

ASSUME PushAssumption ==
    /\ Keys # {}
    /\ BatchOf \in [Keys -> Seq(Records) \ {<<>>}]

VARIABLES
    batches,    \* the ingestion_batches table: reserved keys
    stored,     \* the metrics, checks and events tables
    req,        \* the batch each handler is serving
    expired,    \* history: records whose own time stamp is past the retention
    accepted,   \* history: keys answered as accepted and still remembered
    abandoned   \* history: keys reserved by requests that are gone

vars == <<batches, stored, req, expired, accepted, abandoned>>

-----------------------------------------------------------------------------
\* A request: its position in the batch, and whether its context is cancelled.
Request == [pc: {"idle", "lookup", "reserve", "insert", "effects", "release"},
            key: Keys, at: Nat \ {0}, cancelled: BOOLEAN]
Idle == [pc |-> "idle", key |-> CHOOSE k \in Keys : TRUE, at |-> 1, cancelled |-> FALSE]

RecordsOf(k) == {BatchOf[k][i] : i \in 1..Len(BatchOf[k])}

\* A handler between its reservation and its answer or release.
Holds(h) == req[h].pc \in {"insert", "effects", "release"}
Holders(k) == {h \in Handlers : Holds(h) /\ req[h].key = k}

Init ==
    /\ batches = {}
    /\ stored = {}
    /\ req = [h \in Handlers |-> Idle]
    /\ expired = {}
    /\ accepted = {}
    /\ abandoned = {}

-----------------------------------------------------------------------------
(* records                                                                  *)

\* A request whose token is the one in memory (SecretsStore); others are refused.
Authorize(h, k) ==
    /\ req[h].pc = "idle"
    /\ req' = [req EXCEPT ![h] = [Idle EXCEPT !.pc = "lookup", !.key = k]]
    /\ UNCHANGED <<batches, stored, expired, accepted, abandoned>>

\* The source is there and the batch is well formed.
Lookup(h) ==
    /\ req[h].pc = "lookup"
    /\ ~req[h].cancelled
    /\ req' = [req EXCEPT ![h].pc = "reserve"]
    /\ UNCHANGED <<batches, stored, expired, accepted, abandoned>>

\* It is not, or a statement fails before anything is reserved.
Refuse(h) ==
    /\ req[h].pc \in {"lookup", "reserve"}
    /\ req' = [req EXCEPT ![h] = Idle]
    /\ UNCHANGED <<batches, stored, expired, accepted, abandoned>>

\* Deviation: RowsAffected is not looked at.
ReserveAnyway(h) ==
    /\ req[h].pc = "reserve"
    /\ ~req[h].cancelled
    /\ batches' = batches \cup {req[h].key}
    /\ req' = [req EXCEPT ![h].pc = "insert"]
    /\ UNCHANGED <<stored, expired, accepted, abandoned>>

Reserve(h) ==
    LET k == req[h].key IN
    /\ req[h].pc = "reserve"
    /\ ~req[h].cancelled
    /\ k \notin batches
    /\ batches' = batches \cup {k}
    /\ req' = [req EXCEPT ![h].pc = "insert"]
    /\ UNCHANGED <<stored, expired, accepted, abandoned>>

\* The INSERT was ignored: the request is answered as a duplicate.
Duplicate(h) ==
    /\ req[h].pc = "reserve"
    /\ ~req[h].cancelled
    /\ req[h].key \in batches
    /\ req' = [req EXCEPT ![h] = Idle]
    /\ UNCHANGED <<batches, stored, expired, accepted, abandoned>>

\* One record is stored; one that is there already is ignored.
Insert(h) ==
    /\ req[h].pc = "insert"
    /\ ~req[h].cancelled
    /\ stored' = stored \cup {BatchOf[req[h].key][req[h].at]}
    /\ req' = [req EXCEPT ![h].pc = "effects"]
    /\ UNCHANGED <<batches, expired, accepted, abandoned>>

\* Deviation: the error of the INSERT is dropped.
IgnoreFailure(h) ==
    /\ req[h].pc = "insert"
    /\ req' = [req EXCEPT ![h].pc = "effects"]
    /\ UNCHANGED <<batches, stored, expired, accepted, abandoned>>

InsertFails(h) ==
    /\ req[h].pc = "insert"
    /\ req' = [req EXCEPT ![h].pc = "release"]
    /\ UNCHANGED <<batches, stored, expired, accepted, abandoned>>

\* Deviation: the loop runs one record too far.
OneTooMany(h) ==
    /\ req[h].pc = "effects"
    /\ req' = [req EXCEPT ![h] = [@ EXCEPT !.pc = "insert", !.at = req[h].at + 1]]
    /\ UNCHANGED <<batches, stored, expired, accepted, abandoned>>

\* Deviation: the answer does not wait for the last record.
AcceptEarly(h) ==
    LET k == req[h].key IN
    /\ req[h].pc = "effects"
    /\ IF req[h].at + 1 < Len(BatchOf[k])
       THEN /\ req' = [req EXCEPT ![h] = [@ EXCEPT !.pc = "insert",
                                                   !.at = req[h].at + 1]]
            /\ UNCHANGED accepted
       ELSE /\ req' = [req EXCEPT ![h] = Idle]
            /\ accepted' = accepted \cup {k}
    /\ UNCHANGED <<batches, stored, expired, abandoned>>

\* MarkSeen, the evaluation of rules and the fan-out have returned, whatever came
\* of them: the next record, or the answer.
Effects(h) ==
    LET k == req[h].key IN
    /\ req[h].pc = "effects"
    /\ IF req[h].at < Len(BatchOf[k])
       THEN /\ req' = [req EXCEPT ![h] = [@ EXCEPT !.pc = "insert",
                                                   !.at = req[h].at + 1]]
            /\ UNCHANGED accepted
       ELSE /\ req' = [req EXCEPT ![h] = Idle]
            /\ accepted' = accepted \cup {k}
    /\ UNCHANGED <<batches, stored, expired, abandoned>>

\* Deviation: a failed record is answered without releasing the key.
NoRelease(h) ==
    /\ req[h].pc = "release"
    /\ ~req[h].cancelled
    /\ req' = [req EXCEPT ![h] = Idle]
    /\ UNCHANGED <<batches, stored, expired, accepted, abandoned>>

Release(h) ==
    /\ req[h].pc = "release"
    /\ ~req[h].cancelled
    /\ batches' = batches \ {req[h].key}
    /\ req' = [req EXCEPT ![h] = Idle]
    /\ UNCHANGED <<stored, expired, accepted, abandoned>>

\* The error of Release is dropped: the key stays reserved.
ReleaseFails(h) ==
    /\ req[h].pc = "release"
    /\ abandoned' = abandoned \cup {req[h].key}
    /\ req' = [req EXCEPT ![h] = Idle]
    /\ UNCHANGED <<batches, stored, expired, accepted>>

\* The client goes away: the statements that follow fail.
Disconnect(h) ==
    /\ req[h].pc # "idle"
    /\ ~req[h].cancelled
    /\ req' = [req EXCEPT ![h].cancelled = TRUE]
    /\ UNCHANGED <<batches, stored, expired, accepted, abandoned>>

\* One transaction of the maintenance: it removes the records whose sender dated them
\* before its cutoff, whatever has become of their batch, and the keys received
\* before it; no request lasts that long. A record that expired earlier and was sent
\* again goes too.
Prune(K, R) ==
    /\ \A k \in K : k \in batches /\ Holders(k) = {}
    /\ expired' = expired \cup R
    /\ stored' = stored \ expired'
    /\ batches' = batches \ K
    /\ accepted' = accepted \ K
    /\ abandoned' = abandoned \ K
    /\ UNCHANGED req

-----------------------------------------------------------------------------
\* The process dies and starts again: the rows stay.
Restart ==
    /\ req' = [h \in Handlers |-> Idle]
    /\ abandoned' = abandoned \cup {k \in Keys : Holders(k) # {}}
    /\ UNCHANGED <<batches, stored, expired, accepted>>

HandlerStep(h) ==
    \/ \E k \in Keys : Authorize(h, k)
    \/ Lookup(h) \/ Refuse(h)
    \/ Reserve(h) \/ Duplicate(h)
    \/ Insert(h) \/ InsertFails(h) \/ Effects(h)
    \/ Release(h) \/ ReleaseFails(h)
    \/ Disconnect(h)

Next ==
    \/ \E h \in Handlers : HandlerStep(h)
    \/ \E K \in SUBSET Keys, R \in SUBSET Records : Prune(K, R)
    \/ Restart

Spec == Init /\ [][Next]_vars

-----------------------------------------------------------------------------
(* Properties                                                               *)

TypeOK ==
    /\ batches \subseteq Keys
    /\ stored \subseteq Records
    /\ req \in [Handlers -> Request]
    /\ \A h \in Handlers : req[h].at \in 1..Len(BatchOf[req[h].key])
    /\ expired \subseteq Records
    /\ accepted \subseteq Keys
    /\ abandoned \subseteq Keys

\* A batch is held by one request at a time and its key is reserved meanwhile, so
\* no two requests ever store it side by side (records, Reserve).
OneHolder ==
    \A k \in Keys : \A h, g \in Holders(k) : h = g /\ k \in batches

\* A batch that was answered as accepted is stored whole, but for the records that
\* are past the retention by their sender's own time stamp, and its key stays
\* reserved, so that no retry applies it again (records; Run of the maintenance).
AcceptedIsStored ==
    \A k \in accepted : k \in batches /\ RecordsOf(k) \subseteq stored \cup expired

\* A retry that is answered as a duplicate is of a batch whose records are stored or
\* past the retention, unless an attempt at it is still going on or ended without
\* releasing the key: what the client may conclude from the answer (records, Release).
DuplicateIsStored ==
    [][\A h \in Handlers :
          Duplicate(h) => LET k == req[h].key IN
                          \/ RecordsOf(k) \subseteq stored \cup expired
                          \/ Holders(k) # {}
                          \/ k \in abandoned]_vars

\* What has become of the batch with a key.
Fate(k) == CASE Holders(k) # {} -> "held"
             [] k \in accepted /\ Holders(k) = {} -> "applied"
             [] k \in batches \ accepted /\ Holders(k) = {} -> "stuck"
             [] OTHER -> "free"

Log == INSTANCE BatchLog WITH log <- [k \in Keys |-> Fate(k)]

\* Push ingestion implements the log of batches that are held by one request at a
\* time and applied whole or not at all, and whose records may expire before they do.
LogSpec == Log!Spec
=============================================================================
