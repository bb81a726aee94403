-------------------------- MODULE AlertRules_proofs --------------------------
(* Proofs of the safety properties of AlertRules, for every set of rules,   *)
(* evaluators, administrators, alerts, conditions and debounces.            *)
EXTENDS AlertRules, TLAPS

-----------------------------------------------------------------------------
(* Typing                                                                   *)

\* The reset values have their types.
LEMMA Constants ==
    /\ Default \in Settings
    /\ NoItem \in Item
    /\ IdleEval \in Eval
    /\ IdleEdit \in Edit
    /\ 0 \in Times
<1>1. Default \in Settings
    BY RulesAssumption DEF Default, Settings, Conds
<1>2. NoItem \in Item
    BY <1>1, RulesAssumption DEF NoItem, Item, Settings, Conds
<1>3. 0 \in Times
    BY RulesAssumption DEF Times
<1>4. IdleEval \in Eval
    BY <1>2, <1>3, RulesAssumption DEF IdleEval, Eval
<1>5. IdleEdit \in Edit
    BY <1>1, RulesAssumption DEF IdleEdit, Edit
<1> QED
    BY <1>1, <1>2, <1>3, <1>4, <1>5

\* Where an evaluation goes on when it is done with a rule.
LEMMA OnwardType ==
    ASSUME NEW todo \in SUBSET Item, NEW x, x.todo = todo, x.value \in Values
    PROVE  /\ Onward(x) \in Eval
           /\ Onward(x).pc \in {"idle", "next"}
           /\ Onward(x).todo \subseteq x.todo
BY Constants DEF Onward, IdleEval, Eval

\* What goes past rules untold.
LEMMA OverlookType ==
    ASSUME TypeOK, NEW S \in SUBSET Rules, Overlook(S)
    PROVE  unsure' \subseteq Rules /\ lastBad' \in [Rules -> Times]
BY DEF Overlook, TypeOK

LEMMA MissedType ==
    ASSUME TypeOK, NEW e \in Evaluators
    PROVE  Missed(e) \in SUBSET Rules
<1>1. eval[e].todo \cup {eval[e].cur} \subseteq Item
    BY DEF TypeOK, Eval
<1> QED
    BY <1>1 DEF Missed, Item

LEMMA TypeInit == Init => TypeOK
BY Constants, RulesAssumption DEF Init, TypeOK, Rule, Alert, NoItem, Item

LEMMA TypeStep == TypeOK /\ [Next]_vars => TypeOK'
<1> SUFFICES ASSUME TypeOK, [Next]_vars PROVE TypeOK'
    OBVIOUS
<1> USE Constants
<1>1. ASSUME NEW e \in Evaluators, NEW v \in Values, Begin(e, v) PROVE TypeOK'
    <2> DEFINE todo == {[id |-> r, cond |-> rules[r].set.cond,
                         debounce |-> rules[r].set.debounce] : r \in Enabled}
    <2>1. todo \subseteq Item
        BY DEF TypeOK, Enabled, Rule, Settings, Item
    <2>2. Onward([todo |-> todo, value |-> v]) \in Eval
        BY <2>1, OnwardType
    <2> HIDE DEF todo
    <2>3. eval' \in [Evaluators -> Eval]
        BY <1>1, <2>2 DEF Begin, TypeOK, todo
    <2>4. unsure' \subseteq Rules /\ lastBad' \in [Rules -> Times]
        BY <1>1, OverlookType DEF Begin, Against
    <2> QED
        BY <1>1, <2>3, <2>4 DEF Begin, TypeOK
<1>7. ASSUME NEW e \in Evaluators, NEW v \in Values, ListFails(e, v) PROVE TypeOK'
    <2>1. unsure' \subseteq Rules /\ lastBad' \in [Rules -> Times]
        BY <1>7, OverlookType DEF ListFails, Against
    <2> QED
        BY <1>7, <2>1 DEF ListFails, TypeOK
<1>2. ASSUME NEW e \in Evaluators, Work(e) PROVE TypeOK'
    <2>0. /\ eval[e] \in Eval /\ eval[e].cur \in Item
          /\ eval[e].cur.id \in Rules /\ clock \in Times
          /\ Onward(eval[e]) \in Eval
        BY OnwardType DEF TypeOK, Eval, Item
    <2>1. ASSUME NEW item \in eval[e].todo, Take(e, item) PROVE TypeOK'
        <3>1. item \in Item /\ item.id \in Rules
            BY <2>0 DEF Eval, Item
        <3>2. PICK pc \in {"true", "false"} :
                  pc = IF eval[e].value \in item.cond THEN "true" ELSE "false"
            OBVIOUS
        <3>3. [eval[e] EXCEPT !.pc = pc, !.cur = item, !.now = clock,
                              !.todo = eval[e].todo \ {item}] \in Eval
            <4>1. eval[e].todo \ {item} \in SUBSET Item
                BY <2>0 DEF Eval
            <4> QED
                BY <2>0, <3>1, <4>1 DEF Eval
        <3>4. eval' \in [Evaluators -> Eval]
            BY <2>1, <3>2, <3>3 DEF Take, TypeOK
        <3>5. overlapped' \subseteq Rules /\ unsure' \subseteq Rules
              /\ lastBad' \in [Rules -> Times]
            <4>1. CASE item.cond = Malformed
                BY <2>1, <4>1, OverlookType, MissedType DEF Take, TypeOK
            <4>2. CASE item.cond # Malformed
                BY <2>1, <3>1, <4>2 DEF Take, TypeOK
            <4> QED
                BY <4>1, <4>2
        <3> QED
            BY <2>1, <3>4, <3>5 DEF Take, TypeOK
    <2>2. CASE Debounce(e)
        <3>1. [eval[e] EXCEPT !.pc = "look"] \in Eval
            BY <2>0 DEF Eval
        <3>2. eval' \in [Evaluators -> Eval]
            BY <2>0, <2>2, <3>1 DEF Debounce, TypeOK
        <3>3. eval[e].now \in Times
            BY <2>0 DEF Eval
        <3>4. pending' \in [Rules -> Times \cup {Unset}]
            BY <2>0, <2>2, <3>3 DEF Debounce, TypeOK
        <3> QED
            BY <2>2, <3>2, <3>4 DEF Debounce, TypeOK
    <2>3. CASE LookOpen(e)
        <3>1. [eval[e] EXCEPT !.pc = "open"] \in Eval
            BY <2>0 DEF Eval
        <3> QED
            BY <2>0, <2>3, <3>1 DEF LookOpen, TypeOK
    <2>4. ASSUME NEW a \in AlertIds, Fire(e, a) PROVE TypeOK'
        <3>1. [eval[e] EXCEPT !.pc = "tell fired", !.alert = a] \in Eval
            BY <2>0 DEF Eval
        <3>2. eval' \in [Evaluators -> Eval]
            BY <2>4, <3>1 DEF Fire, TypeOK
        <3>3. alerts' \in [AlertIds -> Alert]
            BY <2>0, <2>4 DEF Fire, TypeOK, Alert, Eval
        <3> QED
            BY <2>4, <3>2, <3>3 DEF Fire, TypeOK
    <2>5. CASE Undo(e)
        <3>1. [eval[e] EXCEPT !.pc = "seek"] \in Eval
            BY <2>0 DEF Eval
        <3>2. eval' \in [Evaluators -> Eval]
            BY <2>5, <3>1 DEF Undo, TypeOK
        <3> QED
            BY <2>0, <2>5, <3>2 DEF Undo, TypeOK
    <2>6. CASE SeekOpen(e)
        <3>1. \A a \in AlertIds :
                  [eval[e] EXCEPT !.pc = "resolve", !.alert = a] \in Eval
            BY <2>0 DEF Eval
        <3>2. Newest(eval[e].cur.id) \subseteq AlertIds
            BY DEF Newest, Open
        <3>3. eval' \in [Evaluators -> Eval]
            <4>1. PICK y \in Eval : eval' = [eval EXCEPT ![e] = y]
                BY <2>0, <2>6, <3>1, <3>2 DEF SeekOpen
            <4> QED
                BY <4>1 DEF TypeOK
        <3> QED
            BY <2>6, <3>3 DEF SeekOpen, TypeOK
    <2>7. CASE Resolve(e)
        <3>1. [eval[e] EXCEPT !.pc = "tell resolved"] \in Eval
            BY <2>0 DEF Eval
        <3>2. eval' \in [Evaluators -> Eval]
            BY <2>7, <3>1 DEF Resolve, TypeOK
        <3>3. \A a \in AlertIds : [alerts[a] EXCEPT !.state = "resolved"] \in Alert
            BY DEF TypeOK, Alert
        <3>4. alerts' \in [AlertIds -> Alert]
            BY <2>7, <3>3 DEF Resolve, TypeOK
        <3> QED
            BY <2>7, <3>2, <3>4 DEF Resolve, TypeOK
    <2>8. CASE Tell(e)
        BY <2>0, <2>8 DEF Tell, TypeOK
    <2>9. CASE Fail(e)
        <3>1. unsure' \subseteq Rules /\ lastBad' \in [Rules -> Times]
            BY <2>9, OverlookType, MissedType DEF Fail
        <3> QED
            BY <2>9, <3>1 DEF Fail, TypeOK
    <2> QED
        BY <1>2, <2>1, <2>2, <2>3, <2>4, <2>5, <2>6, <2>7, <2>8, <2>9
        DEF Work
<1>3. ASSUME NEW a \in Admins, AdminStep(a) PROVE TypeOK'
    <2>1. ASSUME NEW r \in Rules, NEW cond \in Conds, NEW d \in Debounces,
                 CreateRule(a, r, cond, d)
          PROVE TypeOK'
        BY <2>1 DEF CreateRule, TypeOK, Rule, Settings
    <2>2. ASSUME NEW r \in Rules, BeginUpdate(a, r) PROVE TypeOK'
        <3>1. rules[r].set \in Settings
            BY DEF TypeOK, Rule
        <3>2. /\ \A b \in BOOLEAN : [rules[r].set EXCEPT !.enabled = b] \in Settings
              /\ \A c \in Conds : [rules[r].set EXCEPT !.cond = c] \in Settings
              /\ \A d \in Debounces : [rules[r].set EXCEPT !.debounce = d] \in Settings
            BY <3>1 DEF Settings
        <3>3. PICK new \in Settings :
                  edit' = [edit EXCEPT ![a] = [stage |-> "write", rule |-> r,
                                               set |-> new]]
            BY <2>2, <3>2 DEF BeginUpdate
        <3> QED
            BY <2>2, <3>3 DEF BeginUpdate, TypeOK, Edit
    <2>3. ASSUME NEW r \in Rules, DeleteRow(a, r) PROVE TypeOK'
        BY <2>3 DEF DeleteRow, TypeOK, Rule, Edit
    <2>4. CASE WriteUpdate(a)
        <3>1. edit[a].rule \in Rules /\ edit[a].set \in Settings
            BY DEF TypeOK, Edit
        <3>2. unsure' \subseteq Rules /\ edit' \in [Admins -> Edit]
            BY <2>4, <3>1 DEF WriteUpdate, TypeOK
        <3>3. \A r \in Rules : [rules[r] EXCEPT !.set = edit[a].set] \in Rule
            BY <3>1 DEF TypeOK, Rule
        <3>4. rules' \in [Rules -> Rule]
            BY <2>4, <3>3 DEF WriteUpdate, TypeOK
        <3> QED
            BY <2>4, <3>2, <3>4 DEF WriteUpdate, TypeOK
    <2>5. CASE UpdateFails(a)
        BY <2>5 DEF UpdateFails, TypeOK
    <2>6. CASE DropDebounce(a)
        BY <2>6 DEF DropDebounce, TypeOK
    <2> QED
        BY <1>3, <2>1, <2>2, <2>3, <2>4, <2>5, <2>6 DEF AdminStep
<1>4. CASE Tick
    BY <1>4, RulesAssumption DEF Tick, TypeOK, Times
<1>5. CASE Restart
    BY <1>5 DEF Restart, TypeOK
<1>6. CASE UNCHANGED vars
    BY <1>6 DEF vars, TypeOK
<1> QED
    BY <1>1, <1>2, <1>3, <1>4, <1>5, <1>6, <1>7 DEF Next

\* Every reachable state is well typed.
THEOREM TypeCorrect == Spec => []TypeOK
BY TypeInit, TypeStep, PTL DEF Spec
-----------------------------------------------------------------------------
(* The inductive invariant                                                  *)

\* The rules an evaluation still has before it: its copies, and the one it is at.
Held(e) == eval[e].todo \cup
           (IF eval[e].pc \in {"idle", "next"} THEN {} ELSE {eval[e].cur})

\* A copy is of a rule that was created, and still agrees with its row unless that was
\* updated.
Copies ==
    \A e \in Evaluators : \A i \in Held(e) :
        /\ rules[i.id].life # "fresh"
        /\ i.id \notin unsure => Current(i)

\* The history variables record every encounter.
Exclusive ==
    \A r \in Rules, e, f \in Evaluators :
        At(e, r) /\ At(f, r) /\ e # f => r \in overlapped /\ r \in unsure

\* The alert to be resolved is one of the rule's.
Chosen ==
    \A e \in Evaluators :
        eval[e].pc = "resolve" =>
            /\ alerts[eval[e].alert].state # "unused"
            /\ alerts[eval[e].alert].rule = eval[e].cur.id

\* What FindOpenByRule returned still holds.
LooksHold ==
    \A e \in Evaluators :
        eval[e].cur.id \notin overlapped =>
            /\ eval[e].pc = "open" => Open(eval[e].cur.id) = {}
            /\ eval[e].pc = "resolve" => Open(eval[e].cur.id) \subseteq {eval[e].alert}

\* The debounce started after the last contradicting value, and has passed where
\* an alert is about to open.
Debounced ==
    \A r \in Rules :
        /\ lastBad[r] <= clock
        /\ r \notin unsure =>
              /\ pending[r] # Unset => pending[r] >= lastBad[r]
              /\ \A e \in Evaluators : At(e, r) =>
                    /\ eval[e].pc = "true" => eval[e].now >= lastBad[r]
                    /\ eval[e].pc \in {"look", "open"} =>
                          eval[e].now >= lastBad[r] + eval[e].cur.debounce

IInv == /\ TypeOK /\ Copies /\ Exclusive /\ Chosen
        /\ LooksHold /\ OneOpenUnlessOverlap /\ TellsTheTruth /\ Debounced

LEMMA IInit == Init => IInv
<1> SUFFICES ASSUME Init PROVE IInv
    OBVIOUS
<1>1. \A e \in Evaluators : eval[e].pc = "idle" /\ Held(e) = {}
    BY DEF Init, Held, IdleEval
<1>2. \A r \in Rules : Open(r) = {}
    BY DEF Init, Open
<1>3. TypeOK
    BY TypeInit
<1>4. Copies /\ Exclusive /\ Chosen /\ LooksHold /\ TellsTheTruth
    BY <1>1 DEF Copies, Exclusive, At, Chosen, LooksHold, TellsTheTruth
<1>5. OneOpenUnlessOverlap
    BY <1>2 DEF OneOpenUnlessOverlap
<1>6. Debounced
    BY <1>1, RulesAssumption DEF Init, Debounced, At, Unset
<1> QED
    BY <1>3, <1>4, <1>5, <1>6 DEF IInv

\* A step that gives no evaluation a copy and changes no settings keeps Copies.
LEMMA CopiesStep ==
    ASSUME Copies, UNCHANGED rules, unsure \subseteq unsure',
           \A e \in Evaluators : Held(e)' \subseteq Held(e)
    PROVE  Copies'
BY DEF Copies, Current

\* A step that brings no evaluation to a rule, and forgets no encounter that goes on,
\* keeps Exclusive.
LEMMA ExclusiveStep ==
    ASSUME Exclusive,
           \A e \in Evaluators, r \in Rules : At(e, r)' => At(e, r),
           \A r \in Rules, e, f \in Evaluators : At(e, r)' /\ At(f, r)' /\ e # f =>
              /\ r \in overlapped => r \in overlapped'
              /\ r \in unsure => r \in unsure'
    PROVE  Exclusive'
BY DEF Exclusive

\* An encounter is forgotten where it has left nothing behind.
Settled == \A r \in overlapped \ overlapped' :
              Open(r) = {} /\ \A e \in Evaluators : ~At(e, r)'

\* A step that leaves the alerts alone, and the evaluations that wait on them.
LEMMA AlertsStep ==
    ASSUME IInv, UNCHANGED alerts, Settled,
           \A e \in Evaluators :
              \/ eval'[e] = eval[e]
              \/ eval'[e].pc \notin {"open", "resolve", "tell fired", "tell resolved"}
    PROVE  Chosen' /\ LooksHold' /\ OneOpenUnlessOverlap' /\ TellsTheTruth'
<1>1. \A r : Open(r)' = Open(r)
    BY DEF Open
<1>2. Chosen'
    BY DEF IInv, Chosen
<1>3. LooksHold'
    BY <1>1 DEF IInv, LooksHold, Settled, At
<1>4. OneOpenUnlessOverlap'
    BY <1>1 DEF IInv, OneOpenUnlessOverlap, Settled
<1>5. TellsTheTruth'
    BY <1>1 DEF IInv, TellsTheTruth, Settled, At
<1> QED
    BY <1>2, <1>3, <1>4, <1>5

LEMMA NothingSettled == UNCHANGED overlapped \/ overlapped \subseteq overlapped' => Settled
BY DEF Settled

\* What a step that starts or goes on with no debounce before lastBad leaves behind.
Dated ==
    /\ unsure \subseteq unsure'
    /\ \A r \in Rules :
          /\ lastBad'[r] <= clock
          /\ r \notin unsure' =>
                /\ pending'[r] # Unset => pending'[r] >= lastBad'[r]
                /\ lastBad'[r] = lastBad[r] \/ \A e \in Evaluators : ~At(e, r)

LEMMA DatedStays ==
    ASSUME IInv, UNCHANGED <<unsure, lastBad>>,
           \A r \in Rules \ unsure : pending'[r] # Unset => pending'[r] >= lastBad[r]
    PROVE  Dated
BY DEF IInv, Debounced, Dated

\* A value that goes past rules untold leaves those whose debounce is running unsure.
LEMMA OverlookDates ==
    ASSUME IInv, NEW S \in SUBSET Rules, Overlook(S), UNCHANGED pending
    PROVE  Dated
<1>1. clock \in Int /\ clock <= clock
    BY DEF IInv, TypeOK, Times
<1> QED
    BY <1>1 DEF IInv, Debounced, Dated, Overlook

\* An evaluation that is done with its rule holds no more than it did, and is at
\* no rule.
LEMMA OnwardHolds ==
    ASSUME TypeOK, NEW e \in Evaluators, NEW todo \in SUBSET eval[e].todo,
           NEW x, x.todo = todo, eval' = [eval EXCEPT ![e] = Onward(x)]
    PROVE  /\ \A f \in Evaluators : Held(f)' \subseteq Held(f)
           /\ eval'[e].pc \in {"idle", "next"}
           /\ \A f \in Evaluators \ {e} : eval'[f] = eval[f]
<1>1. Onward(x).pc \in {"idle", "next"} /\ Onward(x).todo \subseteq todo
    BY DEF Onward, IdleEval
<1>2. eval'[e] = Onward(x) /\ \A f \in Evaluators \ {e} : eval'[f] = eval[f]
    BY DEF TypeOK
<1> QED
    BY <1>1, <1>2 DEF Held

\* A step that only sends an evaluation on.
LEMMA OnwardStep ==
    ASSUME IInv, TypeOK', NEW e \in Evaluators, NEW todo \in SUBSET eval[e].todo,
           NEW x, x.todo = todo, eval' = [eval EXCEPT ![e] = Onward(x)],
           UNCHANGED <<rules, alerts, clock>>, Dated, Settled
    PROVE  IInv'
<1>1. /\ \A f \in Evaluators : Held(f)' \subseteq Held(f)
      /\ eval'[e].pc \in {"idle", "next"}
      /\ \A f \in Evaluators \ {e} : eval'[f] = eval[f]
    BY OnwardHolds DEF IInv
<1>2. Copies'
    BY <1>1, CopiesStep DEF IInv, Dated
<1>3. \A f \in Evaluators, r \in Rules : At(f, r)' => At(f, r) /\ eval'[f] = eval[f]
    BY <1>1 DEF At
<1>4. Exclusive'
    BY <1>3, ExclusiveStep DEF IInv, Dated, Settled
<1>5. Chosen' /\ LooksHold' /\ OneOpenUnlessOverlap' /\ TellsTheTruth'
    BY <1>1, AlertsStep
<1>6. Debounced'
    BY <1>3 DEF IInv, Debounced, Dated
<1> QED
    BY <1>2, <1>4, <1>5, <1>6 DEF IInv

\* An evaluation that moves on within its rule.
LEMMA MoveHolds ==
    ASSUME TypeOK, NEW e \in Evaluators, eval[e].pc \notin {"idle", "next"},
           NEW y, eval' = [eval EXCEPT ![e] = y],
           y.pc \notin {"idle", "next"}, y.cur = eval[e].cur, y.todo = eval[e].todo
    PROVE  /\ \A f \in Evaluators : Held(f)' \subseteq Held(f)
           /\ \A f \in Evaluators, r \in Rules : At(f, r)' <=> At(f, r)
           /\ eval'[e] = y
           /\ \A f \in Evaluators \ {e} : eval'[f] = eval[f]
BY DEF TypeOK, Held, At

LEMMA EvalType ==
    ASSUME TypeOK, NEW e \in Evaluators
    PROVE  /\ eval[e] \in Eval
           /\ eval[e].cur \in Item /\ eval[e].cur.id \in Rules
           /\ eval[e].alert \in AlertIds
           /\ eval[e].todo \in SUBSET Item
           /\ eval[e].now \in Times /\ eval[e].now \in Int
           /\ eval[e].cur.debounce \in Nat
<1>1. eval[e] \in Eval
    BY DEF TypeOK
<1>2. /\ eval[e].cur \in Item /\ eval[e].alert \in AlertIds
      /\ eval[e].todo \in SUBSET Item /\ eval[e].now \in Times
    BY <1>1 DEF Eval
<1>3. eval[e].cur.id \in Rules /\ eval[e].cur.debounce \in Nat
    BY <1>2, RulesAssumption DEF Item
<1> QED
    BY <1>1, <1>2, <1>3 DEF Times

\* A step that ends an evaluation early.
LEMMA IdleStep ==
    ASSUME IInv, TypeOK', NEW e \in Evaluators,
           eval' = [eval EXCEPT ![e] = IdleEval], Overlook(Missed(e)),
           UNCHANGED <<rules, pending, alerts, clock, overlapped>>
    PROVE  IInv'
<1> DEFINE x == [todo |-> {}, value |-> eval[e].value]
<1>1. IdleEval = Onward(x) /\ x.todo = {}
    BY DEF Onward
<1>2. Dated
    BY OverlookDates, MissedType DEF IInv
<1> QED
    BY <1>1, <1>2, OnwardStep, NothingSettled

LEMMA BeginStep ==
    ASSUME IInv, TypeOK', NEW e \in Evaluators, NEW v \in Values, Begin(e, v)
    PROVE  IInv'
<1> DEFINE todo == {[id |-> r, cond |-> rules[r].set.cond,
                     debounce |-> rules[r].set.debounce] : r \in Enabled}
           x == [todo |-> todo, value |-> v]
<1>1. /\ Onward(x).pc \in {"idle", "next"}
      /\ Onward(x).todo \subseteq todo
    BY DEF Onward, IdleEval
<1>2. eval'[e] = Onward(x) /\ \A f \in Evaluators \ {e} : eval'[f] = eval[f]
    BY DEF Begin, IInv, TypeOK
<1>3. \A i \in todo : i.id \in Enabled /\ Current(i)
    BY DEF Current
<1>9. Dated
    BY OverlookDates DEF Begin, Against
<1> HIDE DEF todo, x
<1>4. Copies'
    <2>1. UNCHANGED rules /\ unsure \subseteq unsure'
        BY <1>9 DEF Begin, Dated
    <2>2. \A i \in todo : rules[i.id].life # "fresh"
        BY <1>3 DEF Enabled
    <2>3. \A f \in Evaluators \ {e} : Held(f)' = Held(f)
        BY <1>2 DEF Held
    <2>4. Held(e)' \subseteq todo
        BY <1>1, <1>2 DEF Held
    <2>5. Copies
        BY DEF IInv
    <2> QED
        BY <1>3, <2>1, <2>2, <2>3, <2>4, <2>5 DEF Copies, Current
<1>5. \A f \in Evaluators, r \in Rules : At(f, r)' => At(f, r) /\ eval'[f] = eval[f]
    BY <1>1, <1>2 DEF At
<1>6. Exclusive'
    BY <1>5, <1>9, ExclusiveStep DEF IInv, Begin, Dated
<1>7. Chosen' /\ LooksHold' /\ OneOpenUnlessOverlap' /\ TellsTheTruth'
    BY <1>1, <1>2, AlertsStep, NothingSettled DEF Begin
<1>10. Debounced'
    BY <1>5, <1>9 DEF IInv, Debounced, Dated, Begin
<1> QED
    BY <1>4, <1>6, <1>7, <1>10 DEF IInv

LEMMA ListFailsStep ==
    ASSUME IInv, TypeOK', NEW e \in Evaluators, NEW v \in Values, ListFails(e, v)
    PROVE  IInv'
<1>1. Dated
    BY OverlookDates DEF ListFails, Against
<1>2. UNCHANGED <<rules, pending, alerts, eval, clock, overlapped>>
    BY DEF ListFails
<1>3. Copies' /\ Exclusive'
    BY <1>1, <1>2, CopiesStep, ExclusiveStep DEF IInv, Dated, Held, At
<1>4. Chosen' /\ LooksHold' /\ OneOpenUnlessOverlap' /\ TellsTheTruth'
    BY <1>2, AlertsStep, NothingSettled
<1>5. Debounced'
    BY <1>1, <1>2 DEF IInv, Debounced, Dated, At
<1> QED
    BY <1>3, <1>4, <1>5 DEF IInv

LEMMA TakeStep ==
    ASSUME IInv, TypeOK', NEW e \in Evaluators, NEW item \in eval[e].todo,
           Take(e, item)
    PROVE  IInv'
<1>1. CASE item.cond = Malformed
    <2>1. /\ eval' = [eval EXCEPT ![e] = IdleEval]
          /\ UNCHANGED <<rules, pending, alerts, clock, overlapped>>
          /\ Overlook(Missed(e))
        BY <1>1 DEF Take
    <2> QED
        BY <2>1, IdleStep
<1>2. CASE item.cond # Malformed
    <2>1. /\ eval'[e].pc \in {"true", "false"} /\ eval'[e].cur = item
          /\ eval'[e].now = clock /\ eval'[e].todo = eval[e].todo \ {item}
          /\ \A f \in Evaluators \ {e} : eval'[f] = eval[f]
        <3>1. PICK pc \in {"true", "false"} :
                  pc = IF eval[e].value \in item.cond THEN "true" ELSE "false"
            OBVIOUS
        <3>2. eval' = [eval EXCEPT ![e] =
                         [eval[e] EXCEPT !.pc = pc, !.cur = item, !.now = clock,
                                         !.todo = eval[e].todo \ {item}]]
            BY <1>2, <3>1 DEF Take
        <3>3. eval \in [Evaluators -> Eval]
            BY DEF IInv, TypeOK
        <3> QED
            BY <3>2, <3>3 DEF Eval
    <2>2. /\ item.id \in Rules
          /\ overlapped \subseteq overlapped' /\ unsure \subseteq unsure'
          /\ \A f \in Evaluators \ {e} : At(f, item.id) =>
                item.id \in overlapped' /\ item.id \in unsure'
          /\ UNCHANGED <<rules, pending, alerts, clock, lastBad>>
        BY <1>2, EvalType DEF Take, IInv, Item
    <2>3. \A f \in Evaluators : Held(f)' \subseteq Held(f)
        BY <2>1 DEF Held, Take
    <2>4. Copies'
        BY <2>2, <2>3, CopiesStep DEF IInv
    <2>5. \A f \in Evaluators \ {e}, r \in Rules : At(f, r)' <=> At(f, r)
        BY <2>1 DEF At
    <2>6. \A r \in Rules : At(e, r)' => r = item.id
        BY <2>1 DEF At
    <2>7. Exclusive'
        BY <2>2, <2>5, <2>6 DEF IInv, Exclusive
    <2>8. Chosen' /\ LooksHold' /\ OneOpenUnlessOverlap' /\ TellsTheTruth'
        BY <2>1, <2>2, AlertsStep, NothingSettled
    <2>10. Debounced'
        BY <2>1, <2>2, <2>5, <2>6 DEF IInv, Debounced
    <2> QED
        BY <2>4, <2>7, <2>8, <2>10 DEF IInv
<1> QED
    BY <1>1, <1>2

\* The steps that leave the alerts alone and keep an evaluation at its rule.
LEMMA DebounceStep ==
    ASSUME IInv, TypeOK', NEW e \in Evaluators, Debounce(e)
    PROVE  IInv'
<1> DEFINE r == eval[e].cur.id
           first == IF pending[r] = Unset THEN eval[e].now ELSE pending[r]
<1>1. /\ r \in Rules /\ eval[e].now \in Int /\ eval[e].cur.debounce \in Nat
      /\ pending[r] \in Int /\ \A q \in Rules : lastBad[q] \in Int
    BY EvalType DEF IInv, TypeOK, Times, Unset
<1>2. At(e, r)
    BY DEF Debounce, At
<1>3. pending' = [pending EXCEPT ![r] = first]
    BY DEF Debounce
<1>4. r \notin unsure => first >= lastBad[r]
    BY <1>1, <1>2 DEF IInv, Debounced, Debounce
<1>5. \A q \in Rules \ unsure :
          pending'[q] # Unset => pending'[q] >= lastBad[q]
    BY <1>1, <1>3, <1>4 DEF IInv, Debounced, TypeOK
<1>6. CASE eval[e].now - first < eval[e].cur.debounce
    <2>1. eval' = [eval EXCEPT ![e] = Onward(eval[e])]
        BY <1>6 DEF Debounce
    <2> QED
        BY <1>5, <2>1, OnwardStep, DatedStays, NothingSettled DEF Debounce
<1>7. CASE ~(eval[e].now - first < eval[e].cur.debounce)
    <2>1. eval' = [eval EXCEPT ![e] = [eval[e] EXCEPT !.pc = "look"]]
        BY <1>7 DEF Debounce
    <2>2. /\ eval[e] \in Eval
          /\ [eval[e] EXCEPT !.pc = "look"].pc = "look"
          /\ [eval[e] EXCEPT !.pc = "look"].cur = eval[e].cur
          /\ [eval[e] EXCEPT !.pc = "look"].todo = eval[e].todo
          /\ [eval[e] EXCEPT !.pc = "look"].now = eval[e].now
        BY EvalType DEF IInv, Eval
    <2>3. /\ \A f \in Evaluators : Held(f)' \subseteq Held(f)
          /\ \A f \in Evaluators, q \in Rules : At(f, q)' <=> At(f, q)
          /\ eval'[e] = [eval[e] EXCEPT !.pc = "look"]
          /\ \A f \in Evaluators \ {e} : eval'[f] = eval[f]
        BY <2>1, <2>2, MoveHolds DEF IInv, Debounce
    <2>4. Copies' /\ Exclusive'
        BY <2>3, CopiesStep, ExclusiveStep DEF IInv, Debounce
    <2>5. Chosen' /\ LooksHold' /\ OneOpenUnlessOverlap' /\ TellsTheTruth'
        BY <2>2, <2>3, AlertsStep, NothingSettled DEF Debounce
    <2>7. r \notin unsure =>
              eval'[e].now >= lastBad[r] + eval'[e].cur.debounce
        BY <1>1, <1>4, <1>7, <2>2, <2>3
    <2>8. Debounced'
        <3>1. Debounced /\ UNCHANGED <<clock, overlapped, unsure, lastBad>>
            BY DEF IInv, Debounce
        <3>2. \A q \in Rules : At(e, q) => q = r
            BY DEF At
        <3>3. \A q \in Rules \ unsure : At(e, q) =>
                  /\ eval'[e].pc = "look"
                  /\ eval'[e].now >= lastBad[q] + eval'[e].cur.debounce
            BY <2>2, <2>3, <2>7, <3>2
        <3>4. \A q \in Rules \ unsure :
                  \A f \in Evaluators \ {e} : At(f, q)' =>
                      /\ eval'[f].pc = "true" => eval'[f].now >= lastBad'[q]
                      /\ eval'[f].pc \in {"look", "open"} =>
                            eval'[f].now >= lastBad'[q] + eval'[f].cur.debounce
            BY <2>3, <3>1 DEF Debounced
        <3>5. \A q \in Rules \ unsure : At(e, q)' =>
                      /\ eval'[e].pc = "true" => eval'[e].now >= lastBad'[q]
                      /\ eval'[e].pc \in {"look", "open"} =>
                            eval'[e].now >= lastBad'[q] + eval'[e].cur.debounce
            BY <2>3, <3>1, <3>3
        <3> QED
            BY <1>5, <3>1, <3>4, <3>5 DEF Debounced
    <2> QED
        BY <2>4, <2>5, <2>8 DEF IInv
<1> QED
    BY <1>6, <1>7

LEMMA LookStep ==
    ASSUME IInv, TypeOK', NEW e \in Evaluators, LookOpen(e)
    PROVE  IInv'
<1>1. CASE Open(eval[e].cur.id) # {}
    <2>1. eval' = [eval EXCEPT ![e] = Onward(eval[e])]
        BY <1>1 DEF LookOpen
    <2>2. \A r \in Rules \ unsure :
              pending'[r] # Unset => pending'[r] >= lastBad[r]
        BY DEF IInv, Debounced, LookOpen
    <2>3. UNCHANGED <<rules, alerts, clock, overlapped, unsure, lastBad>>
        BY DEF LookOpen
    <2> QED
        BY <2>1, <2>2, <2>3, OnwardStep, DatedStays, NothingSettled
<1>2. CASE Open(eval[e].cur.id) = {}
    <2> DEFINE y == [eval[e] EXCEPT !.pc = "open"]
    <2>1. eval' = [eval EXCEPT ![e] = y]
        BY <1>2 DEF LookOpen
    <2>2. /\ y.pc = "open" /\ y.cur = eval[e].cur /\ y.todo = eval[e].todo
          /\ y.now = eval[e].now
        BY EvalType DEF IInv, Eval
    <2> HIDE DEF y
    <2>3. /\ \A f \in Evaluators : Held(f)' \subseteq Held(f)
          /\ \A f \in Evaluators, q \in Rules : At(f, q)' <=> At(f, q)
          /\ eval'[e] = y
          /\ \A f \in Evaluators \ {e} : eval'[f] = eval[f]
        BY <2>1, <2>2, MoveHolds DEF IInv, LookOpen
    <2>4. Copies' /\ Exclusive'
        BY <2>3, CopiesStep, ExclusiveStep DEF IInv, LookOpen
    <2>5. \A q : Open(q)' = Open(q)
        BY DEF LookOpen, Open
    <2>0. UNCHANGED <<alerts, overlapped>>
        BY DEF LookOpen
    <2>6. Chosen'
        BY <2>0, <2>2, <2>3 DEF IInv, Chosen
    <2>7. LooksHold'
        BY <1>2, <2>0, <2>2, <2>3, <2>5 DEF IInv, LooksHold
    <2>10. OneOpenUnlessOverlap'
        BY <2>0, <2>5 DEF IInv, OneOpenUnlessOverlap
    <2>11. TellsTheTruth'
        BY <2>0, <2>2, <2>3, <2>5 DEF IInv, TellsTheTruth
    <2>9. Debounced'
        BY <2>2, <2>3 DEF IInv, Debounced, LookOpen
    <2> QED
        BY <2>4, <2>6, <2>7, <2>9, <2>10, <2>11 DEF IInv
<1> QED
    BY <1>1, <1>2

LEMMA UndoStep ==
    ASSUME IInv, TypeOK', NEW e \in Evaluators, Undo(e)
    PROVE  IInv'
<1> DEFINE r == eval[e].cur.id
           y == [eval[e] EXCEPT !.pc = "seek"]
<1>1. r \in Rules /\ clock \in Int
    BY EvalType DEF IInv, TypeOK, Times
<1>2. /\ y.pc = "seek" /\ y.cur = eval[e].cur /\ y.todo = eval[e].todo
    BY EvalType DEF IInv, Eval
<1>3. eval' = [eval EXCEPT ![e] = y]
    BY DEF Undo
<1> HIDE DEF y
<1>4. /\ \A f \in Evaluators : Held(f)' \subseteq Held(f)
      /\ \A f \in Evaluators, q \in Rules : At(f, q)' <=> At(f, q)
      /\ eval'[e] = y
      /\ \A f \in Evaluators \ {e} : eval'[f] = eval[f]
    BY <1>2, <1>3, MoveHolds DEF IInv, Undo
<1>5. At(e, r) /\ UNCHANGED <<rules, alerts, clock, overlapped>>
    BY DEF Undo, At
<1>6. Chosen' /\ LooksHold' /\ OneOpenUnlessOverlap' /\ TellsTheTruth'
    BY <1>2, <1>4, <1>5, AlertsStep, NothingSettled
<1>7. /\ pending'[r] = Unset /\ lastBad'[r] = clock
      /\ \A q \in Rules \ {r} : pending'[q] = pending[q] /\ lastBad'[q] = lastBad[q]
    BY <1>1 DEF Undo, IInv, TypeOK
<1>8. \/ Alone(e) /\ unsure' = unsure \ {r}
      \/ unsure' = unsure
    BY DEF Undo
\* What is taken back holds: the copies agree, and nobody else is at the rule.
<1>9. Copies'
    <2>1. CASE unsure' = unsure
        BY <1>4, <1>5, <2>1, CopiesStep DEF IInv
    <2>2. CASE Alone(e) /\ unsure' = unsure \ {r}
        <3>1. \A f \in Evaluators : \A i \in Held(f) : i.id = r => Current(i)
            BY <2>2 DEF Alone, Held, At
        <3>2. \A f \in Evaluators : \A i \in Held(f) : i.id \notin unsure' => Current(i)
            BY <2>2, <3>1 DEF IInv, Copies
        <3> QED
            BY <1>4, <1>5, <3>2 DEF IInv, Copies, Current
    <2> QED
        BY <1>8, <2>1, <2>2
<1>10. Exclusive'
    BY <1>1, <1>4, <1>5, <1>8 DEF IInv, Exclusive, Alone
<1>11. Debounced'
    <2>1. r \notin unsure' => \A f \in Evaluators \ {e} : ~At(f, r)
        BY <1>1, <1>5, <1>8 DEF IInv, Exclusive, Alone
    <2> QED
        BY <1>1, <1>2, <1>4, <1>5, <1>7, <1>8, <2>1 DEF IInv, Debounced
<1> QED
    BY <1>6, <1>9, <1>10, <1>11 DEF IInv

\* What LooksHold and TellsTheTruth say of one evaluation.
Finding(f) ==
    /\ eval[f].pc = "open" => Open(eval[f].cur.id) = {}
    /\ eval[f].pc = "resolve" => Open(eval[f].cur.id) \subseteq {eval[f].alert}
    /\ eval[f].pc = "tell fired" => eval[f].alert \in Open(eval[f].cur.id)
    /\ eval[f].pc = "tell resolved" => Open(eval[f].cur.id) = {}

\* What the other evaluations found holds on when one changes the alerts of the
\* rule it is at.
LEMMA OthersHold ==
    ASSUME IInv, NEW e \in Evaluators, eval[e].pc \notin {"idle", "next"},
           \A f \in Evaluators \ {e} : eval'[f] = eval[f],
           UNCHANGED overlapped,
           \A q \in Rules \ {eval[e].cur.id} : Open(q)' = Open(q),
           NEW f \in Evaluators \ {e}, eval[f].cur.id \notin overlapped
    PROVE  Finding(f)'
<1>1. PICK q \in Rules : q = eval[f].cur.id
    BY EvalType DEF IInv
<1>4. eval'[f] = eval[f]
    OBVIOUS
<1>2. CASE eval[f].pc \notin {"idle", "next"}
    <2>1. q # eval[e].cur.id
        BY <1>1, <1>2 DEF At, IInv, Exclusive
    <2>2. Open(q)' = Open(q)
        BY <2>1
    <2>3. Finding(f)
        BY DEF IInv, LooksHold, TellsTheTruth, Finding
    <2> QED
        BY <1>1, <1>4, <2>2, <2>3 DEF Finding
<1>3. CASE eval[f].pc \in {"idle", "next"}
    BY <1>3, <1>4 DEF Finding
<1> QED
    BY <1>2, <1>3

LEMMA FireStep ==
    ASSUME IInv, TypeOK', NEW e \in Evaluators, NEW a \in AlertIds, Fire(e, a)
    PROVE  IInv'
<1> DEFINE y == [eval[e] EXCEPT !.pc = "tell fired", !.alert = a]
<1>1. PICK r \in Rules : r = eval[e].cur.id
    BY EvalType DEF IInv
<1>2. /\ y.pc = "tell fired" /\ y.cur = eval[e].cur /\ y.todo = eval[e].todo
      /\ y.alert = a
    BY EvalType DEF IInv, Eval
<1>3. eval' = [eval EXCEPT ![e] = y]
    BY DEF Fire
<1> HIDE DEF y
<1>4. /\ \A f \in Evaluators : Held(f)' \subseteq Held(f)
      /\ \A f \in Evaluators, q \in Rules : At(f, q)' <=> At(f, q)
      /\ eval'[e] = y
      /\ \A f \in Evaluators \ {e} : eval'[f] = eval[f]
    BY <1>2, <1>3, MoveHolds DEF IInv, Fire
<1>5. Copies' /\ Exclusive'
    BY <1>4, CopiesStep, ExclusiveStep DEF IInv, Fire
<1>6. /\ alerts[a].state = "unused"
      /\ alerts'[a].state = "open" /\ alerts'[a].rule = r
      /\ \A b \in AlertIds \ {a} : alerts'[b] = alerts[b]
    BY <1>1 DEF Fire, IInv, TypeOK
<1>7. /\ \A q \in Rules \ {r} : Open(q)' = Open(q)
      /\ Open(r)' = Open(r) \cup {a}
    BY <1>6 DEF Open
<1>8. r \notin overlapped => Open(r)' = {a}
    BY <1>1, <1>7 DEF IInv, LooksHold, Fire
<1>9. UNCHANGED overlapped /\ eval[e].pc \notin {"idle", "next"}
    BY DEF Fire
<1>10. \A f \in Evaluators \ {e} : eval[f].cur.id \notin overlapped =>
           Finding(f)'
    BY <1>1, <1>4, <1>7, <1>9, OthersHold
<1>11. Chosen'
    <2>1. \A f \in Evaluators : eval'[f].pc = "resolve" =>
              eval'[f] = eval[f] /\ eval[f].alert \in AlertIds \ {a}
        BY <1>2, <1>4, <1>6, EvalType DEF IInv, Chosen
    <2> QED
        BY <1>6, <2>1 DEF IInv, Chosen
<1>12. LooksHold'
    BY <1>2, <1>4, <1>9, <1>10 DEF LooksHold, Finding
<1>13. TellsTheTruth'
    BY <1>1, <1>2, <1>4, <1>8, <1>9, <1>10 DEF TellsTheTruth, Finding
<1>14. OneOpenUnlessOverlap'
    BY <1>7, <1>8, <1>9 DEF IInv, OneOpenUnlessOverlap
<1>16. Debounced'
    <2>1. Debounced /\ UNCHANGED <<pending, clock, overlapped, unsure, lastBad>>
        BY DEF IInv, Fire
    <2>2. \A f \in Evaluators :
              eval'[f] = eval[f] \/ eval'[f].pc \notin {"true", "look", "open"}
        BY <1>2, <1>4
    <2> QED
        BY <1>4, <2>1, <2>2 DEF Debounced
<1> QED
    BY <1>5, <1>11, <1>12, <1>13, <1>14, <1>16 DEF IInv

LEMMA SeekStep ==
    ASSUME IInv, TypeOK', NEW e \in Evaluators, SeekOpen(e)
    PROVE  IInv'
<1> PICK r \in Rules : r = eval[e].cur.id
    BY EvalType DEF IInv
<1>0. UNCHANGED <<rules, pending, alerts, clock, unsure, lastBad>>
    BY DEF SeekOpen
<1>1. CASE /\ Open(r) = {} /\ eval' = [eval EXCEPT ![e] = Onward(eval[e])]
           /\ overlapped' = IF \E f \in Evaluators \ {e} : At(f, r)
                            THEN overlapped ELSE overlapped \ {r}
    <2>1. /\ eval'[e].pc \in {"idle", "next"}
          /\ \A f \in Evaluators \ {e} : eval'[f] = eval[f]
        BY <1>1, OnwardHolds DEF IInv
    <2>2. Settled
        BY <1>1, <2>1 DEF Settled, At
    <2>3. Dated
        BY <1>0, DatedStays DEF IInv, Debounced
    <2> QED
        BY <1>0, <1>1, <2>2, <2>3, OnwardStep
<1>2. ASSUME NEW a \in Newest(r), UNCHANGED overlapped,
             eval' = [eval EXCEPT ![e] = [eval[e] EXCEPT !.pc = "resolve", !.alert = a]]
      PROVE  IInv'
    <2> DEFINE y == [eval[e] EXCEPT !.pc = "resolve", !.alert = a]
    <2>1. /\ y.pc = "resolve" /\ y.cur = eval[e].cur /\ y.todo = eval[e].todo
          /\ y.alert = a
        BY EvalType DEF IInv, Eval
    <2>2. eval' = [eval EXCEPT ![e] = y]
        BY <1>2
    <2>0. overlapped' = overlapped
        BY <1>2
    <2> HIDE DEF y
    <2>3. /\ \A f \in Evaluators : Held(f)' \subseteq Held(f)
          /\ \A f \in Evaluators, q \in Rules : At(f, q)' <=> At(f, q)
          /\ eval'[e] = y
          /\ \A f \in Evaluators \ {e} : eval'[f] = eval[f]
        BY <2>1, <2>2, MoveHolds DEF IInv, SeekOpen
    <2>4. Copies' /\ Exclusive'
        BY <1>0, <2>0, <2>3, CopiesStep, ExclusiveStep DEF IInv
    <2>5. \A q : Open(q)' = Open(q)
        BY <1>0 DEF Open
    <2>6. a \in Open(r)
        BY DEF Newest
    <2>7. r \notin overlapped => Open(r) \subseteq {a}
        BY <2>6 DEF IInv, OneOpenUnlessOverlap
    <2>8. Chosen'
        BY <1>0, <2>1, <2>3, <2>6 DEF IInv, Chosen, Open
    <2>9. LooksHold'
        BY <1>0, <2>0, <2>1, <2>3, <2>5, <2>7 DEF IInv, LooksHold
    <2>10. TellsTheTruth'
        BY <1>0, <2>0, <2>1, <2>3, <2>5 DEF IInv, TellsTheTruth
    <2>11. OneOpenUnlessOverlap'
        BY <2>0, <2>5 DEF IInv, OneOpenUnlessOverlap
    <2>12. Debounced'
        BY <1>0, <2>1, <2>3 DEF IInv, Debounced
    <2> QED
        BY <2>4, <2>8, <2>9, <2>10, <2>11, <2>12 DEF IInv
<1> QED
    BY <1>1, <1>2 DEF SeekOpen

LEMMA ResolveStep ==
    ASSUME IInv, TypeOK', NEW e \in Evaluators, Resolve(e)
    PROVE  IInv'
<1> DEFINE y == [eval[e] EXCEPT !.pc = "tell resolved"]
<1>1. PICK r \in Rules, b \in AlertIds : r = eval[e].cur.id /\ b = eval[e].alert
    BY EvalType DEF IInv
<1>2. /\ y.pc = "tell resolved" /\ y.cur = eval[e].cur /\ y.todo = eval[e].todo
    BY EvalType DEF IInv, Eval
<1>3. eval' = [eval EXCEPT ![e] = y]
    BY DEF Resolve
<1> HIDE DEF y
<1>4. /\ \A f \in Evaluators : Held(f)' \subseteq Held(f)
      /\ \A f \in Evaluators, q \in Rules : At(f, q)' <=> At(f, q)
      /\ eval'[e] = y
      /\ \A f \in Evaluators \ {e} : eval'[f] = eval[f]
    BY <1>2, <1>3, MoveHolds DEF IInv, Resolve
<1>5. Copies' /\ Exclusive'
    BY <1>4, CopiesStep, ExclusiveStep DEF IInv, Resolve
<1>6. /\ alerts'[b].state = "resolved" /\ alerts'[b].rule = alerts[b].rule
      /\ \A a \in AlertIds \ {b} : alerts'[a] = alerts[a]
    BY <1>1 DEF Resolve, IInv, TypeOK, Alert
<1>7. alerts[b].rule = r
    BY <1>1 DEF IInv, Chosen, Resolve
<1>8. /\ \A q \in Rules \ {r} : Open(q)' = Open(q)
      /\ Open(r)' = Open(r) \ {b}
    BY <1>1, <1>6, <1>7 DEF Open
<1>9. r \notin overlapped => Open(r)' = {}
    BY <1>1, <1>8 DEF IInv, LooksHold, Resolve
<1>10. UNCHANGED overlapped /\ eval[e].pc \notin {"idle", "next"}
    BY DEF Resolve
<1>11. \A f \in Evaluators \ {e} : eval[f].cur.id \notin overlapped =>
           Finding(f)'
    BY <1>1, <1>4, <1>8, <1>10, OthersHold
<1>12. Chosen'
    <2>1. \A f \in Evaluators : eval'[f].pc = "resolve" => eval'[f] = eval[f]
        BY <1>2, <1>4
    <2>2. \A a \in AlertIds : /\ alerts'[a].rule = alerts[a].rule
                              /\ alerts[a].state # "unused" =>
                                     alerts'[a].state # "unused"
        BY <1>6
    <2> QED
        BY <2>1, <2>2, EvalType DEF IInv, Chosen
<1>13. LooksHold'
    BY <1>2, <1>4, <1>10, <1>11 DEF LooksHold, Finding
<1>14. TellsTheTruth'
    BY <1>1, <1>2, <1>4, <1>9, <1>10, <1>11 DEF TellsTheTruth, Finding
<1>15. OneOpenUnlessOverlap'
    BY <1>8, <1>10 DEF IInv, OneOpenUnlessOverlap
<1>17. Debounced'
    <2>1. Debounced /\ UNCHANGED <<pending, clock, overlapped, unsure, lastBad>>
        BY DEF IInv, Resolve
    <2>2. \A f \in Evaluators :
              eval'[f] = eval[f] \/ eval'[f].pc \notin {"true", "look", "open"}
        BY <1>2, <1>4
    <2> QED
        BY <1>4, <2>1, <2>2 DEF Debounced
<1> QED
    BY <1>5, <1>12, <1>13, <1>14, <1>15, <1>17 DEF IInv

LEMMA TellStep ==
    ASSUME IInv, TypeOK', NEW e \in Evaluators, Tell(e)
    PROVE  IInv'
<1>1. eval' = [eval EXCEPT ![e] = Onward(eval[e])]
    BY DEF Tell
<1>2. UNCHANGED <<rules, pending, alerts, clock, overlapped, unsure, lastBad>>
    BY DEF Tell
<1>3. Dated
    BY <1>2, DatedStays DEF IInv, Debounced
<1> QED
    BY <1>1, <1>2, <1>3, OnwardStep, NothingSettled

\* A step of an administrator leaves evaluations and alerts alone.
LEMMA AdminKeeps ==
    ASSUME IInv, TypeOK', UNCHANGED <<alerts, eval, clock, overlapped, lastBad>>,
           unsure \subseteq unsure',
           \A r \in Rules : pending'[r] = pending[r] \/ pending'[r] = Unset,
           Copies'
    PROVE  IInv'
<1>1. Exclusive'
    BY ExclusiveStep DEF IInv, At
<1>2. Chosen' /\ LooksHold' /\ OneOpenUnlessOverlap' /\ TellsTheTruth'
    BY AlertsStep, NothingSettled
<1>3. Debounced'
    BY DEF IInv, Debounced, At
<1> QED
    BY <1>1, <1>2, <1>3 DEF IInv

LEMMA AdminSteps ==
    ASSUME IInv, TypeOK', NEW a \in Admins, AdminStep(a)
    PROVE  IInv'
<1>0. /\ \A e \in Evaluators : \A i \in Held(e) : i.id \in Rules
      /\ UNCHANGED eval => \A e \in Evaluators : Held(e)' = Held(e)
      /\ rules \in [Rules -> Rule] /\ unsure \subseteq Rules
    <2>1. \A e \in Evaluators : Held(e) \subseteq Item
        BY EvalType DEF IInv, Held
    <2> QED
        BY <2>1 DEF IInv, TypeOK, Item, Held
<1>1. ASSUME NEW r \in Rules, NEW cond \in Conds, NEW d \in Debounces,
             CreateRule(a, r, cond, d)
      PROVE IInv'
    <2>1. Copies'
        BY <1>0, <1>1 DEF IInv, Copies, Current, CreateRule
    <2> QED
        BY <1>1, <2>1, AdminKeeps DEF CreateRule
<1>2. ASSUME NEW r \in Rules, BeginUpdate(a, r) PROVE IInv'
    <2>1. UNCHANGED <<rules, pending, alerts, eval, clock, overlapped, unsure, lastBad>>
        BY <1>2 DEF BeginUpdate
    <2>2. Copies'
        BY <1>0, <2>1 DEF IInv, Copies, Current
    <2> QED
        BY <2>1, <2>2, AdminKeeps
<1>3. ASSUME NEW r \in Rules, DeleteRow(a, r) PROVE IInv'
    <2>1. \A q \in Rules : /\ rules'[q].set = rules[q].set
                           /\ rules'[q].life \in {rules[q].life, "deleted"}
        BY <1>0, <1>3 DEF DeleteRow, Rule
    <2>2. Copies'
        BY <1>0, <1>3, <2>1 DEF IInv, Copies, Current, DeleteRow
    <2> QED
        BY <1>3, <2>2, AdminKeeps DEF DeleteRow
<1>4. CASE WriteUpdate(a)
    <2>1. CASE UNCHANGED <<rules, unsure>>
        <3>1. Copies'
            BY <1>0, <1>4, <2>1 DEF IInv, Copies, Current, WriteUpdate
        <3> QED
            BY <1>4, <2>1, <3>1, AdminKeeps DEF WriteUpdate
    <2>2. CASE ~UNCHANGED <<rules, unsure>>
        <3> PICK r \in Rules : r = edit[a].rule
            BY DEF IInv, TypeOK, Edit
        <3>1. /\ unsure \subseteq unsure'
              /\ r \notin unsure' => /\ edit[a].set.cond = rules[r].set.cond
                                     /\ edit[a].set.debounce = rules[r].set.debounce
              /\ rules' = [rules EXCEPT ![r].set = edit[a].set]
              /\ UNCHANGED <<pending, alerts, eval, clock, overlapped, lastBad>>
            BY <1>4, <2>2 DEF WriteUpdate
        <3>2. /\ \A q \in Rules : rules'[q].life = rules[q].life
              /\ \A q \in Rules \ {r} : rules'[q] = rules[q]
              /\ rules'[r].set = edit[a].set
            BY <1>0, <3>1 DEF Rule
        <3>3. Copies'
            BY <1>0, <3>1, <3>2 DEF IInv, Copies, Current
        <3> QED
            BY <3>1, <3>3, AdminKeeps
    <2> QED
        BY <2>1, <2>2
<1>5. CASE UpdateFails(a)
    <2>1. Copies'
        BY <1>0, <1>5 DEF IInv, Copies, Current, UpdateFails
    <2> QED
        BY <1>5, <2>1, AdminKeeps DEF UpdateFails
<1>6. CASE DropDebounce(a)
    <2>1. Copies'
        BY <1>0, <1>6 DEF IInv, Copies, Current, DropDebounce
    <2>2. \A r \in Rules : pending'[r] = pending[r] \/ pending'[r] = Unset
        BY <1>6 DEF IInv, TypeOK, DropDebounce
    <2> QED
        BY <1>6, <2>1, <2>2, AdminKeeps DEF DropDebounce
<1> QED
    BY <1>1, <1>2, <1>3, <1>4, <1>5, <1>6 DEF AdminStep

LEMMA RestartStep ==
    ASSUME IInv, TypeOK', Restart
    PROVE  IInv'
<1>0. IdleEval.pc = "idle" /\ IdleEval.todo = {}
    BY DEF IdleEval
<1>1. \A e \in Evaluators : eval'[e].pc = "idle" /\ eval'[e].todo = {}
    BY <1>0 DEF Restart
<1>2. Copies'
    <2>1. \A e \in Evaluators : Held(e)' = {}
        BY <1>1 DEF Held
    <2> QED
        BY <2>1 DEF Copies
<1>3. Exclusive'
    BY <1>1 DEF Exclusive, At
<1>4. Chosen' /\ LooksHold' /\ OneOpenUnlessOverlap' /\ TellsTheTruth'
    BY <1>1, AlertsStep, NothingSettled DEF Restart
<1>5. Debounced'
    <2>1. \A r \in Rules : lastBad'[r] <= clock' /\ pending'[r] = Unset
        <3>1. clock \in Int
            BY DEF IInv, TypeOK, Times
        <3> QED
            BY <3>1 DEF IInv, Debounced, Restart
    <2> QED
        BY <1>1, <2>1 DEF Debounced, At
<1> QED
    BY <1>2, <1>3, <1>4, <1>5 DEF IInv

LEMMA IStep == IInv /\ [Next]_vars => IInv'
<1> SUFFICES ASSUME IInv, [Next]_vars PROVE IInv'
    OBVIOUS
<1>0. TypeOK'
    BY TypeStep DEF IInv
<1>1. ASSUME NEW e \in Evaluators, NEW v \in Values, Begin(e, v) PROVE IInv'
    BY <1>0, <1>1, BeginStep
<1>7. ASSUME NEW e \in Evaluators, NEW v \in Values, ListFails(e, v) PROVE IInv'
    BY <1>0, <1>7, ListFailsStep
<1>2. ASSUME NEW e \in Evaluators, Work(e) PROVE IInv'
    <2>1. CASE Fail(e)
        BY <1>0, <2>1, IdleStep DEF Fail
    <2> QED
        BY <1>0, <1>2, <2>1, TakeStep, DebounceStep, LookStep, FireStep, UndoStep,
           SeekStep, ResolveStep, TellStep DEF Work
<1>3. ASSUME NEW a \in Admins, AdminStep(a) PROVE IInv'
    BY <1>0, <1>3, AdminSteps
<1>4. CASE Tick
    <2>1. clock' = clock + 1 /\ clock \in Int
        BY <1>4 DEF Tick, IInv, TypeOK, Times
    <2>2. UNCHANGED <<rules, pending, alerts, eval, overlapped, unsure, lastBad>>
        BY <1>4 DEF Tick
    <2>3. Copies'
        BY <2>2 DEF IInv, Copies, Current, Held
    <2>4. Exclusive'
        BY <2>2, ExclusiveStep DEF IInv, At
    <2>5. Chosen' /\ LooksHold' /\ OneOpenUnlessOverlap' /\ TellsTheTruth'
        BY <2>2, AlertsStep, NothingSettled
    <2>6. \A r \in Rules : lastBad[r] \in Int
        BY DEF IInv, TypeOK, Times
    <2>7. Debounced'
        BY <2>1, <2>2, <2>6 DEF IInv, Debounced, At
    <2> QED
        BY <1>0, <2>3, <2>4, <2>5, <2>7 DEF IInv
<1>5. CASE Restart
    BY <1>0, <1>5, RestartStep
<1>6. CASE UNCHANGED vars
    <2>1. UNCHANGED <<rules, pending, alerts, eval, clock, overlapped, unsure, lastBad>>
        BY <1>6 DEF vars
    <2>2. Copies'
        BY <2>1 DEF IInv, Copies, Current, Held
    <2> QED
        BY <1>0, <2>1, <2>2, AdminKeeps
<1> QED
    BY <1>1, <1>2, <1>3, <1>4, <1>5, <1>6, <1>7 DEF Next

\* An alert is opened by Fire only.
LEMMA OnlyFireOpens ==
    ASSUME TypeOK, [Next]_vars, NEW a \in AlertIds,
           alerts[a].state = "unused", alerts'[a].state = "open"
    PROVE  \E e \in Evaluators : \E b \in AlertIds : Fire(e, b)
<1>1. alerts' # alerts
    OBVIOUS
<1>2. ASSUME NEW e \in Evaluators, Work(e)
      PROVE  \E b \in AlertIds : Fire(e, b)
    <2>1. ~Resolve(e)
        <3>1. SUFFICES ASSUME Resolve(e) PROVE FALSE
            OBVIOUS
        <3>2. alerts' = [alerts EXCEPT ![eval[e].alert].state = "resolved"]
            BY <3>1 DEF Resolve
        <3>3. alerts \in [AlertIds -> Alert]
            BY DEF TypeOK
        <3> QED
            BY <3>2, <3>3 DEF Alert
    <2> QED
        BY <1>1, <1>2, <2>1
        DEF Work, Take, Debounce, LookOpen, Undo, SeekOpen, Tell, Fail
<1>3. \A e \in Evaluators, v \in Values : ~Begin(e, v) /\ ~ListFails(e, v)
    BY <1>1 DEF Begin, ListFails
<1>4. \A b \in Admins : ~AdminStep(b)
    BY <1>1 DEF AdminStep, CreateRule, BeginUpdate, WriteUpdate, UpdateFails,
                DeleteRow, DropDebounce
<1> QED
    BY <1>1, <1>2, <1>3, <1>4 DEF Next, vars, Tick, Restart

-----------------------------------------------------------------------------
(* The theorems                                                             *)

\* IInv holds in every reachable state.
THEOREM Inductive == Spec => []IInv
BY IInit, IStep, PTL DEF Spec

\* A rule has at most one open alert unless two evaluations met at it and it has not
\* been found without one since, across restarts, failed statements and administrators'
\* changes (applyRuleResult).
THEOREM OneOpenAlert == Spec => []OneOpenUnlessOverlap
<1>1. IInv => OneOpenUnlessOverlap
    BY DEF IInv
<1> QED
    BY <1>1, Inductive, PTL

\* A channel is told that an alert fired only while it is open, and that a rule is
\* resolved only when none of its alerts is open (fire, resolve).
THEOREM TellsTruly == Spec => []TellsTheTruth
<1>1. IInv => TellsTheTruth
    BY DEF IInv
<1> QED
    BY <1>1, Inductive, PTL

\* The alert of a rule opens only debounce_seconds after the last value that contradicted
\* it, told or not, across restarts, except where FiresAfterDebounce says the debounce
\* may have run on (applyRuleResult, pendingRule).
THEOREM DebounceIsKept == Spec => FiresAfterDebounce
<1>1. ASSUME IInv, [Next]_vars
      PROVE  [\A a \in AlertIds, r \in Rules \ unsure :
                 Opens(a, r) =>
                    alerts'[a].created >= lastBad[r] + rules[r].set.debounce]_vars
    <2> SUFFICES ASSUME NEW a \in AlertIds, NEW r \in Rules \ unsure,
                        Opens(a, r)
                 PROVE  alerts'[a].created >= lastBad[r] + rules[r].set.debounce
        OBVIOUS
    <2>1. \E e \in Evaluators : \E b \in AlertIds : Fire(e, b)
        BY <1>1, OnlyFireOpens DEF IInv, Opens
    <2> PICK e \in Evaluators, b \in AlertIds : Fire(e, b)
        BY <2>1
    <2>2. /\ a = b /\ eval[e].cur.id = r /\ eval[e].pc = "open"
          /\ alerts'[a].created = eval[e].now
        BY <1>1 DEF Opens, Fire, IInv, TypeOK
    <2>3. At(e, r) /\ eval[e].cur \in Held(e)
        BY <2>2 DEF At, Held
    <2>4. eval[e].now >= lastBad[r] + eval[e].cur.debounce
        BY <1>1, <2>2, <2>3 DEF IInv, Debounced
    <2>5. eval[e].cur.debounce = rules[r].set.debounce
        BY <1>1, <2>2, <2>3 DEF IInv, Copies, Current
    <2> QED
        BY <2>2, <2>4, <2>5
<1> QED
    BY <1>1, Inductive, PTL DEF Spec, FiresAfterDebounce
=============================================================================
