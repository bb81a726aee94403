----------------------------- MODULE LoopSchedule -----------------------------
(***************************************************************************)
(* What a Source's row, its operations and the Scheduler promise together, *)
(* without callers, pulls, contexts or loops' identities.                  *)
(*                                                                         *)
(* A row is written by an operation that then owes the schedule one call,  *)
(* or by a MarkSeen, which owes nothing and writes a row it has read       *)
(* before. The loop of a Source, and the config it pulls with, change when *)
(* such a call is made and at no other time. Calls of different operations *)
(* are made in any order.                                                  *)
(***************************************************************************)
CONSTANTS
    Sources,         \* identifiers that sources may be created with
    PullSources,     \* those whose adapter is pulled
    Configs,         \* values of config_json
    ReconcileMaySkip \* a call may leave the schedule as it is

VARIABLES
    life,   \* is the row of a source not created yet, stored, or deleted
    rows,   \* the sources table
    held,   \* the rows that operations without a call have read and will write
    asked,  \* the calls still owed: the config to pull with, if any
    loop    \* the config the source's loop pulls with, if it has one

vars == <<life, rows, held, asked, loop>>

Row == [config: Configs, enabled: BOOLEAN]

\* At most one config: what the loop of a source with this row pulls with.
Wants(s, row) == IF row.enabled /\ s \in PullSources THEN {row.config} ELSE {}

TypeOK ==
    /\ life \in [Sources -> {"fresh", "stored", "deleted"}]
    /\ rows \in [Sources -> Row]
    /\ held \in [Sources -> SUBSET Row]
    /\ asked \in [Sources -> SUBSET ({{}} \cup {{c} : c \in Configs})]
    /\ loop \in [Sources -> {{}} \cup {{c} : c \in Configs}]

Init ==
    /\ life = [s \in Sources |-> "fresh"]
    /\ rows \in [Sources -> Row]
    /\ held = [s \in Sources |-> {}]
    /\ asked = [s \in Sources |-> {}]
    /\ loop = [s \in Sources |-> {}]

-----------------------------------------------------------------------------
(* Rows                                                                     *)

Owe(s, w) == asked' = [asked EXCEPT ![s] = @ \cup {w}]

Create(s, row) ==
    /\ life[s] = "fresh"
    /\ life' = [life EXCEPT ![s] = "stored"]
    /\ rows' = [rows EXCEPT ![s] = row]
    /\ Owe(s, Wants(s, row))
    /\ UNCHANGED <<held, loop>>

Update(s, row) ==
    /\ life[s] = "stored"
    /\ rows' = [rows EXCEPT ![s] = row]
    /\ Owe(s, Wants(s, row))
    /\ UNCHANGED <<life, held, loop>>

Delete(s) ==
    /\ life[s] = "stored"
    /\ life' = [life EXCEPT ![s] = "deleted"]
    /\ Owe(s, {})
    /\ UNCHANGED <<rows, held, loop>>

\* A row that was held by one operation, or by several.
LetGo(s, row) == held' \in {held, [held EXCEPT ![s] = @ \ {row}]}

Read(s) ==
    /\ life[s] = "stored"
    /\ held' = [held EXCEPT ![s] = @ \cup {rows[s]}]
    /\ UNCHANGED <<life, rows, asked, loop>>

Mark(s, row) ==
    /\ row \in held[s]
    /\ life[s] = "stored"
    /\ rows' = [rows EXCEPT ![s] = row]
    /\ UNCHANGED <<life, asked, loop>>
    /\ LetGo(s, row)

GiveUp(s, row) ==
    /\ LetGo(s, row)
    /\ UNCHANGED <<life, rows, asked, loop>>

-----------------------------------------------------------------------------
(* The schedule                                                             *)

\* A call that one operation owed, or several.
Pay(s, w) ==
    /\ w \in asked[s]
    /\ asked' \in {asked, [asked EXCEPT ![s] = @ \ {w}]}
    /\ UNCHANGED <<life, rows, held>>

Reconcile(s, w) == Pay(s, w) /\ loop' = [loop EXCEPT ![s] = w]

\* A call that should have started a loop leaves the old one, or none.
Skip(s, w) == ReconcileMaySkip /\ w # {} /\ Pay(s, w) /\ UNCHANGED loop

\* Every operation is lost; every source that is there gets the loop its row wants.
Restart ==
    /\ held' = [s \in Sources |-> {}]
    /\ asked' = [s \in Sources |-> {}]
    /\ loop' \in [Sources -> {{}} \cup {{c} : c \in Configs}]
    /\ \A s \in Sources :
          LET w == IF life[s] = "stored" THEN Wants(s, rows[s]) ELSE {} IN
          loop'[s] = w \/ (ReconcileMaySkip /\ loop'[s] = {})
    /\ UNCHANGED <<life, rows>>

Next ==
    \/ \E s \in Sources :
          \/ \E row \in Row : Create(s, row) \/ Update(s, row)
          \/ Delete(s) \/ Read(s)
          \/ \E row \in held[s] : Mark(s, row) \/ GiveUp(s, row)
          \/ \E w \in asked[s] : Reconcile(s, w) \/ Skip(s, w)
    \/ Restart

Spec == Init /\ [][Next]_vars
=============================================================================
