------------------------------ MODULE AlertRules ------------------------------
(***************************************************************************)
(* The alert rules on one target of one source: their rows, the debounce   *)
(* state the alert router keeps in memory, and the alerts it opens and     *)
(* resolves.                                                               *)
(*                                                                         *)
(* Pull loops and push requests evaluate rules concurrently. An evaluation *)
(* lists the enabled rules once and then takes them in the order of their  *)
(* ids; the router's mutex covers the debounce state only, so looking for  *)
(* an open alert, opening or resolving one and telling the channel are     *)
(* steps of their own. Administrators change rules meanwhile.              *)
(***************************************************************************)
EXTENDS Integers, FiniteSets

CONSTANTS
    Rules,       \* identifiers of rules; List orders by them
    Evaluators,  \* goroutines that ingest telemetry of the target
    Admins,      \* concurrent HTTP handlers of rule CRUD
    AlertIds,    \* bound: alerts ever opened
    Values,      \* what is observed of the target
    Conditions,  \* sets of values a rule's condition and threshold hold of
    Malformed,   \* a threshold that is not a number
    Debounces,   \* values of debounce_seconds
    MaxTime      \* bound: the clock stops here

ASSUME RulesAssumption ==
    /\ Rules \subseteq Nat
    /\ Rules # {} /\ AlertIds # {} /\ Values # {}
    /\ Evaluators \cap Admins = {}
    /\ Conditions \subseteq SUBSET Values
    /\ Malformed \notin Conditions
    /\ Debounces \subseteq Nat /\ Debounces # {}
    /\ MaxTime \in Nat

VARIABLES
    rules,       \* the alert_rules table
    pending,     \* Service.pendingRules: firstTrueAt of each rule, or Unset
    alerts,      \* the alerts table
    eval,        \* the evaluation each evaluator is inside
    edit,        \* the rule operation each administrator is inside
    clock,
    overlapped,  \* history: rules two evaluations have been at, at once
    unsure,      \* history: rules whose debounce may be running since before lastBad
    lastBad      \* history: when an evaluation last told a rule of a value that contradicts
                 \* it, passed the rule over with one or ended before it got to the rule

vars == <<rules, pending, alerts, eval, edit, clock, overlapped, unsure, lastBad>>

-----------------------------------------------------------------------------
Times == 0..MaxTime
Unset == -1
Conds == Conditions \cup {Malformed}

Settings == [enabled: BOOLEAN, cond: Conds, debounce: Debounces]
Rule     == [life: {"fresh", "stored", "deleted"}, set: Settings]
Alert    == [state: {"unused", "open", "resolved"}, rule: Rules, created: Times]

\* A rule as List returned it, and an evaluation.
Item == [id: Rules, cond: Conds, debounce: Debounces]
Eval == [pc: {"idle", "next", "true", "false", "look", "open", "seek",
              "resolve", "tell fired", "tell resolved"},
         todo: SUBSET Item, value: Values, cur: Item, now: Times, alert: AlertIds]

\* Get has returned: an update holds the settings it will write.
Edit == [stage: {"idle", "write", "drop"}, rule: Rules, set: Settings]

Default  == [enabled |-> FALSE, cond |-> Malformed,
             debounce |-> CHOOSE d \in Debounces : TRUE]
NoItem   == [id |-> CHOOSE r \in Rules : TRUE, cond |-> Malformed,
             debounce |-> Default.debounce]
IdleEval == [pc |-> "idle", todo |-> {}, value |-> CHOOSE v \in Values : TRUE,
             cur |-> NoItem, now |-> 0, alert |-> CHOOSE a \in AlertIds : TRUE]
IdleEdit == [stage |-> "idle", rule |-> CHOOSE r \in Rules : TRUE, set |-> Default]

Contradicts(v, cond) == cond # Malformed /\ v \notin cond

\* An evaluation is at the rule it has taken up and not finished with.
At(e, r) == eval[e].pc \notin {"idle", "next"} /\ eval[e].cur.id = r

Open(r) == {a \in AlertIds : alerts[a].state = "open" /\ alerts[a].rule = r}

\* The rules an evaluation's value contradicts that it has not got to yet, or has not
\* undone the debounce of.
Missed(e) ==
    {i.id : i \in {j \in eval[e].todo \cup (IF eval[e].pc = "false" THEN {eval[e].cur} ELSE {}) :
                      Contradicts(eval[e].value, j.cond)}}

\* A value contradicts the rules of S and they are not told: where a debounce is running,
\* it runs on.
Overlook(S) ==
    /\ lastBad' = [r \in Rules |-> IF r \in S THEN clock ELSE lastBad[r]]
    /\ unsure' = unsure \cup {r \in S : \/ pending[r] # Unset
                                       \/ \E e \in Evaluators : At(e, r)}

\* A copy of a rule agrees with its row.
Current(i) == i.cond = rules[i.id].set.cond /\ i.debounce = rules[i.id].set.debounce

\* No other evaluation is at the rule that e is at, and all copies of it agree with the
\* row: what is told now is told for good.
Alone(e) ==
    \A f \in Evaluators :
        /\ f # e => ~At(f, eval[e].cur.id)
        /\ \A i \in eval[f].todo \cup {eval[e].cur} : i.id = eval[e].cur.id => Current(i)

\* FindOpenByRule returns the newest open alert; which of several, if they were
\* created at the same time, is not determined.
Newest(r) == {a \in Open(r) : \A b \in Open(r) : alerts[b].created <= alerts[a].created}

\* An evaluation that is done with its rule goes to the next one, or returns.
Onward(x) == IF x.todo = {} THEN IdleEval
             ELSE [IdleEval EXCEPT !.pc = "next", !.todo = x.todo, !.value = x.value]

Init ==
    /\ rules = [r \in Rules |-> [life |-> "fresh", set |-> Default]]
    /\ pending = [r \in Rules |-> Unset]
    /\ alerts = [a \in AlertIds |-> [state |-> "unused", rule |-> NoItem.id,
                                     created |-> 0]]
    /\ eval = [e \in Evaluators |-> IdleEval]
    /\ edit = [a \in Admins |-> IdleEdit]
    /\ clock = 0
    /\ overlapped = {}
    /\ unsure = {}
    /\ lastBad = [r \in Rules |-> 0]

-----------------------------------------------------------------------------
(* EvaluateMetric and EvaluateCheck                                         *)

Enabled == {r \in Rules : rules[r].life = "stored" /\ rules[r].set.enabled}

\* The rules a value contradicts.
Against(v) == {r \in Rules : rules[r].life = "stored" /\ Contradicts(v, rules[r].set.cond)}

\* A value arrives: the enabled rules are listed. The value also says something
\* of the disabled ones, which the evaluation passes over.
Begin(e, v) ==
    /\ eval[e].pc = "idle"
    /\ LET todo == {[id |-> r, cond |-> rules[r].set.cond,
                     debounce |-> rules[r].set.debounce] : r \in Enabled}
       IN  eval' = [eval EXCEPT ![e] = Onward([todo |-> todo, value |-> v])]
    /\ Overlook(Against(v) \ Enabled)
    /\ UNCHANGED <<rules, pending, alerts, edit, clock, overlapped>>

\* A value arrives and the rules cannot be listed: none of them is told.
ListFails(e, v) ==
    /\ eval[e].pc = "idle"
    /\ Overlook(Against(v))
    /\ UNCHANGED <<rules, pending, alerts, eval, edit, clock, overlapped>>

\* The next rule in the order of ids. A threshold that does not parse ends the
\* whole evaluation with an error: the rules after it are not told.
Take(e, item) ==
    /\ eval[e].pc = "next"
    /\ \A k \in eval[e].todo : item.id <= k.id
    /\ IF item.cond = Malformed
       THEN /\ eval' = [eval EXCEPT ![e] = IdleEval]
            /\ Overlook(Missed(e))
            /\ UNCHANGED overlapped
       ELSE /\ eval' = [eval EXCEPT ![e] = [@ EXCEPT
                  !.pc = IF eval[e].value \in item.cond THEN "true" ELSE "false",
                  !.cur = item, !.now = clock, !.todo = eval[e].todo \ {item}]]
            /\ LET met == {r \in {item.id} : \E f \in Evaluators \ {e} : At(f, r)}
               IN  overlapped' = overlapped \cup met /\ unsure' = unsure \cup met
            /\ UNCHANGED lastBad
    /\ UNCHANGED <<rules, pending, alerts, edit, clock>>

-----------------------------------------------------------------------------
(* applyRuleResult for a value that matches                                 *)

\* Deviation: the map keeps the time the debounce ends at.
DebounceUntil(e) ==
    LET r == eval[e].cur.id
        until == IF pending[r] = Unset THEN eval[e].now + eval[e].cur.debounce
                 ELSE pending[r]
    IN
    /\ eval[e].pc = "true"
    /\ pending' = [pending EXCEPT ![r] = until]
    /\ eval' = [eval EXCEPT ![e] = IF eval[e].now < until
                                   THEN Onward(@) ELSE [@ EXCEPT !.pc = "look"]]
    /\ UNCHANGED <<rules, alerts, edit, clock, overlapped, unsure, lastBad>>

\* Under the mutex: the debounce starts, goes on, or has passed.
Debounce(e) ==
    LET r == eval[e].cur.id
        first == IF pending[r] = Unset THEN eval[e].now ELSE pending[r]
    IN
    /\ eval[e].pc = "true"
    /\ pending' = [pending EXCEPT ![r] = first]
    /\ eval' = [eval EXCEPT ![e] = IF eval[e].now - first < eval[e].cur.debounce
                                   THEN Onward(@) ELSE [@ EXCEPT !.pc = "look"]]
    /\ UNCHANGED <<rules, alerts, edit, clock, overlapped, unsure, lastBad>>

\* Deviation: an alert is opened without looking for one.
LookAway(e) ==
    /\ eval[e].pc = "look"
    /\ eval' = [eval EXCEPT ![e].pc = "open"]
    /\ UNCHANGED <<rules, pending, alerts, edit, clock, overlapped, unsure, lastBad>>

\* FindOpenByRule.
LookOpen(e) ==
    /\ eval[e].pc = "look"
    /\ eval' = [eval EXCEPT ![e] = IF Open(@.cur.id) = {}
                                   THEN [@ EXCEPT !.pc = "open"] ELSE Onward(@)]
    /\ UNCHANGED <<rules, pending, alerts, edit, clock, overlapped, unsure, lastBad>>

\* fire: the alert is inserted under a new id.
Fire(e, a) ==
    /\ eval[e].pc = "open"
    /\ alerts[a].state = "unused"
    /\ alerts' = [alerts EXCEPT ![a] = [state |-> "open", rule |-> eval[e].cur.id,
                                        created |-> eval[e].now]]
    /\ eval' = [eval EXCEPT ![e] = [@ EXCEPT !.pc = "tell fired", !.alert = a]]
    /\ UNCHANGED <<rules, pending, edit, clock, overlapped, unsure, lastBad>>

-----------------------------------------------------------------------------
(* applyRuleResult for a value that does not match                          *)

\* Deviation: the debounce goes on through values that contradict the rule.
UndoNothing(e) ==
    /\ eval[e].pc = "false"
    /\ lastBad' = [lastBad EXCEPT ![eval[e].cur.id] = clock]
    /\ unsure' = IF Alone(e) THEN unsure \ {eval[e].cur.id} ELSE unsure
    /\ eval' = [eval EXCEPT ![e].pc = "seek"]
    /\ UNCHANGED <<rules, pending, alerts, edit, clock, overlapped>>

\* Under the mutex: the debounce is over.
Undo(e) ==
    LET r == eval[e].cur.id IN
    /\ eval[e].pc = "false"
    /\ pending' = [pending EXCEPT ![r] = Unset]
    /\ lastBad' = [lastBad EXCEPT ![r] = clock]
    /\ unsure' = IF Alone(e) THEN unsure \ {r} ELSE unsure
    /\ eval' = [eval EXCEPT ![e].pc = "seek"]
    /\ UNCHANGED <<rules, alerts, edit, clock, overlapped>>

\* resolveByRule: FindOpenByRule. Where there is none and nobody else is at the rule,
\* an encounter at it has left nothing behind.
SeekOpen(e) ==
    LET r == eval[e].cur.id IN
    /\ eval[e].pc = "seek"
    /\ \/ /\ Open(r) = {}
          /\ eval' = [eval EXCEPT ![e] = Onward(@)]
          /\ overlapped' = IF \E f \in Evaluators \ {e} : At(f, r)
                           THEN overlapped ELSE overlapped \ {r}
       \/ /\ \E a \in Newest(r) :
                eval' = [eval EXCEPT ![e] = [@ EXCEPT !.pc = "resolve", !.alert = a]]
          /\ UNCHANGED overlapped
    /\ UNCHANGED <<rules, pending, alerts, edit, clock, unsure, lastBad>>

\* Deviation: the error of the UPDATE is dropped.
ResolveUnchecked(e) ==
    /\ eval[e].pc = "resolve"
    /\ \/ alerts' = [alerts EXCEPT ![eval[e].alert].state = "resolved"]
       \/ UNCHANGED alerts
    /\ eval' = [eval EXCEPT ![e].pc = "tell resolved"]
    /\ UNCHANGED <<rules, pending, edit, clock, overlapped, unsure, lastBad>>

\* The UPDATE stamps the alert, resolved already or not.
Resolve(e) ==
    /\ eval[e].pc = "resolve"
    /\ alerts' = [alerts EXCEPT ![eval[e].alert].state = "resolved"]
    /\ eval' = [eval EXCEPT ![e].pc = "tell resolved"]
    /\ UNCHANGED <<rules, pending, edit, clock, overlapped, unsure, lastBad>>

-----------------------------------------------------------------------------
\* publish and notify return, whatever became of the message.
Tell(e) ==
    /\ eval[e].pc \in {"tell fired", "tell resolved"}
    /\ eval' = [eval EXCEPT ![e] = Onward(@)]
    /\ UNCHANGED <<rules, pending, alerts, edit, clock, overlapped, unsure, lastBad>>

\* A statement fails (a cancelled context, a database error): the error ends
\* the evaluation, the rules after this one are not told, and the ingest drops it.
Fail(e) ==
    /\ eval[e].pc \in {"look", "open", "seek", "resolve"}
    /\ eval' = [eval EXCEPT ![e] = IdleEval]
    /\ Overlook(Missed(e))
    /\ UNCHANGED <<rules, pending, alerts, edit, clock, overlapped>>

-----------------------------------------------------------------------------
(* CreateRule, UpdateRule, DeleteRule                                       *)

CreateRule(a, r, cond, d) ==
    /\ edit[a].stage = "idle"
    /\ rules[r].life = "fresh"
    /\ rules' = [rules EXCEPT ![r] =
                   [life |-> "stored",
                    set |-> [enabled |-> TRUE, cond |-> cond, debounce |-> d]]]
    /\ UNCHANGED <<pending, alerts, eval, edit, clock, overlapped, unsure, lastBad>>

\* The row is read and patched (one field here; several are several patches).
BeginUpdate(a, r) ==
    LET old == rules[r].set IN
    /\ edit[a].stage = "idle"
    /\ rules[r].life = "stored"
    /\ \E new \in {[old EXCEPT !.enabled = b] : b \in BOOLEAN}
                  \cup {[old EXCEPT !.cond = c] : c \in Conds}
                  \cup {[old EXCEPT !.debounce = d] : d \in Debounces} :
          edit' = [edit EXCEPT ![a] = [stage |-> "write", rule |-> r, set |-> new]]
    /\ UNCHANGED <<rules, pending, alerts, eval, clock, overlapped, unsure, lastBad>>

\* The whole row is written back, if it is still there; the debounce state is left as
\* it is, whatever it was that held of the target so far.
WriteUpdate(a) ==
    LET r == edit[a].rule IN
    /\ edit[a].stage = "write"
    /\ IF rules[r].life = "stored"
       THEN /\ rules' = [rules EXCEPT ![r].set = edit[a].set]
            /\ unsure' = IF /\ edit[a].set.cond = rules[r].set.cond
                            /\ edit[a].set.debounce = rules[r].set.debounce
                         THEN unsure ELSE unsure \cup {r}
       ELSE UNCHANGED <<rules, unsure>>
    /\ edit' = [edit EXCEPT ![a] = IdleEdit]
    /\ UNCHANGED <<pending, alerts, eval, clock, overlapped, lastBad>>

UpdateFails(a) ==
    /\ edit[a].stage = "write"
    /\ edit' = [edit EXCEPT ![a] = IdleEdit]
    /\ UNCHANGED <<rules, pending, alerts, eval, clock, overlapped, unsure, lastBad>>

DeleteRow(a, r) ==
    /\ edit[a].stage = "idle"
    /\ rules[r].life = "stored"
    /\ rules' = [rules EXCEPT ![r].life = "deleted"]
    /\ edit' = [edit EXCEPT ![a] = [IdleEdit EXCEPT !.stage = "drop", !.rule = r]]
    /\ UNCHANGED <<pending, alerts, eval, clock, overlapped, unsure, lastBad>>

DropDebounce(a) ==
    /\ edit[a].stage = "drop"
    /\ pending' = [pending EXCEPT ![edit[a].rule] = Unset]
    /\ edit' = [edit EXCEPT ![a] = IdleEdit]
    /\ UNCHANGED <<rules, alerts, eval, clock, overlapped, unsure, lastBad>>

-----------------------------------------------------------------------------
Tick ==
    /\ clock < MaxTime
    /\ clock' = clock + 1
    /\ UNCHANGED <<rules, pending, alerts, eval, edit, overlapped, unsure, lastBad>>

\* The process dies and starts again: memory is lost, the tables stay. The debounces
\* start anew.
Restart ==
    /\ pending' = [r \in Rules |-> Unset]
    /\ eval' = [e \in Evaluators |-> IdleEval]
    /\ edit' = [a \in Admins |-> IdleEdit]
    /\ unsure' = {}
    /\ lastBad' = [r \in Rules |-> IF \E e \in Evaluators : r \in Missed(e)
                                   THEN clock ELSE lastBad[r]]
    /\ UNCHANGED <<rules, alerts, clock, overlapped>>

Work(e) ==
    \/ \E item \in eval[e].todo : Take(e, item)
    \/ Debounce(e)
    \/ LookOpen(e)
    \/ \E a \in AlertIds : Fire(e, a)
    \/ Undo(e)
    \/ SeekOpen(e)
    \/ Resolve(e)
    \/ Tell(e)
    \/ Fail(e)

AdminStep(a) ==
    \/ \E r \in Rules :
          \/ \E cond \in Conds, d \in Debounces : CreateRule(a, r, cond, d)
          \/ BeginUpdate(a, r)
          \/ DeleteRow(a, r)
    \/ WriteUpdate(a)
    \/ UpdateFails(a)
    \/ DropDebounce(a)

Next ==
    \/ \E e \in Evaluators : \/ \E v \in Values : Begin(e, v) \/ ListFails(e, v)
                             \/ Work(e)
    \/ \E a \in Admins : AdminStep(a)
    \/ Tick
    \/ Restart

Spec == Init /\ [][Next]_vars

-----------------------------------------------------------------------------
(* Properties                                                               *)

TypeOK ==
    /\ rules \in [Rules -> Rule]
    /\ pending \in [Rules -> Times \cup {Unset}]
    /\ alerts \in [AlertIds -> Alert]
    /\ eval \in [Evaluators -> Eval]
    /\ edit \in [Admins -> Edit]
    /\ clock \in Times
    /\ overlapped \subseteq Rules
    /\ unsure \subseteq Rules
    /\ lastBad \in [Rules -> Times]

\* A rule has at most one open alert unless two evaluations were at it at the same time
\* and it has not been found without one since: neither restarts, failed statements, rule
\* updates nor deletions make a duplicate (applyRuleResult).
OneOpenUnlessOverlap ==
    \A r \in Rules \ overlapped :
        \A a, b \in Open(r) : a = b

\* What the channel is about to be told is so: the alert said to fire is open, and
\* when a rule is said to be resolved none of its alerts is open (fire, resolve).
TellsTheTruth ==
    \A e \in Evaluators :
        eval[e].cur.id \notin overlapped =>
            /\ eval[e].pc = "tell fired" => eval[e].alert \in Open(eval[e].cur.id)
            /\ eval[e].pc = "tell resolved" => Open(eval[e].cur.id) = {}

\* An alert that opens in this step, and the rule it is for.
Opens(a, r) == /\ alerts[a].state = "unused" /\ alerts'[a].state = "open"
               /\ alerts'[a].rule = r

\* The alert of a rule opens only debounce_seconds after the last value that contradicted
\* the rule, across restarts, and also where the rule was off or the evaluation did not get
\* to it. Excepted is a rule whose debounce was running when such a value went past it,
\* which was updated to another condition or debounce, or at which two evaluations met,
\* until a contradicting value gets to it or the process restarts (applyRuleResult,
\* pendingRule).
FiresAfterDebounce ==
    [][\A a \in AlertIds, r \in Rules \ unsure :
          Opens(a, r) => alerts'[a].created >= lastBad[r] + rules[r].set.debounce]_vars
=============================================================================
