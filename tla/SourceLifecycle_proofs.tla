----------------------- MODULE SourceLifecycle_proofs -----------------------
(* Proofs of the safety properties of SourceLifecycle, for every number of  *)
(* sources, callers, pull loops and configs.                                *)
EXTENDS SourceLifecycle, TLAPS

-----------------------------------------------------------------------------
(* Typing                                                                   *)

\* The constants the model builds its initial and reset values from.
LEMMA Constants ==
    /\ NoConfig \in Configs
    /\ NoSource \in Sources
    /\ IdleCall \in Call
    /\ NoRun \in Job
    /\ FreshRun("off") \in Run /\ FreshRun("spawn") \in Run
    /\ FreshRun("read") \in Run /\ FreshRun("sleep") \in Run
    /\ NoJob \notin Jobs
<1>1. NoConfig \in Configs /\ NoSource \in Sources
    BY SourcesAssumption DEF NoConfig, NoSource
<1>2. \A c \in Configs : NewRow(c) \in Row
    BY DEF NewRow, Row
<1>3. IdleCall \in Call
    BY <1>1, <1>2 DEF IdleCall, Call
<1>4. NoRun \in Job
    BY <1>1 DEF NoRun, Job
<1>5. FreshRun("off") \in Run /\ FreshRun("spawn") \in Run
      /\ FreshRun("read") \in Run /\ FreshRun("sleep") \in Run
    BY SourcesAssumption DEF FreshRun, AtPc, Run, Results
<1> QED
    BY <1>1, <1>3, <1>4, <1>5, SourcesAssumption

\* A patched row is a row.
LEMMA PatchedType ==
    ASSUME NEW row \in Row, NEW p \in Patch
    PROVE  Patched(row, p) \in Row
BY DEF Patched, Row, Patch, Or

\* Where a job goes on after a service call.
LEMMA AfterCallType ==
    ASSUME NEW r \in Run
    PROVE  AfterCall(r) \in Run
BY SourcesAssumption DEF AfterCall, Run, AtPc, FreshRun, Results

\* Resumed moves only the loop whose call returned.
LEMMA ResumedType ==
    ASSUME run \in [Jobs -> Run], NEW p \in Procs
    PROVE  Resumed(p) \in [Jobs -> Run]
BY AfterCallType DEF Resumed

\* Entering an operation keeps the types of the variables it assigns.
LEMMA EnterType ==
    ASSUME TypeOK, NEW p \in Procs, NEW s \in Sources, NEW row \in Row,
           NEW kind \in {"create", "update", "seen", "delete"},
           NEW stage \in {"idle", "write", "notify"},
           Enter(p, kind, stage, s, row)
    PROVE  call' \in [Procs -> Call] /\ suspect' \subseteq Sources
<1>1. \A q \in Procs : [call[q] EXCEPT !.alone = FALSE] \in Call
    BY DEF TypeOK, Call
<1>2. \A b \in BOOLEAN : [kind |-> kind, stage |-> stage, src |-> s, row |-> row,
                          alone |-> b] \in Call
    BY DEF Call
<1>3. call' \in [Procs -> Call]
    BY <1>1, <1>2 DEF Enter, TypeOK
<1>4. suspect' \subseteq Sources
    BY DEF Enter, TypeOK
<1> QED
    BY <1>3, <1>4

LEMMA TypeInit == Init => TypeOK
<1> SUFFICES ASSUME Init PROVE TypeOK
    OBVIOUS
<1>1. NewRow(NoConfig) \in Row
    BY Constants DEF NewRow, Row
<1> QED
    BY <1>1, Constants DEF Init, TypeOK

LEMMA TypeStep == TypeOK /\ [Next]_vars => TypeOK'
<1> SUFFICES ASSUME TypeOK, [Next]_vars PROVE TypeOK'
    OBVIOUS
<1> USE Constants
<1>1. ASSUME NEW c \in Callers, CallerStep(c) PROVE TypeOK'
    <2> PICK s \in Sources :
            \/ \E cfg \in Configs : Create(c, s, cfg)
            \/ \E p \in Patch : BeginUpdate(c, s, p)
            \/ BeginDelete(c, s)
            \/ BeginSeen(c, s)
        BY <1>1 DEF CallerStep
    <2>0. c \in Procs /\ rows[s] \in Row
        BY DEF Procs, TypeOK
    <2>1. ASSUME NEW cfg \in Configs, Create(c, s, cfg) PROVE TypeOK'
        <3>1. NewRow(cfg) \in Row
            BY DEF NewRow, Row
        <3>2. call' \in [Procs -> Call] /\ suspect' \subseteq Sources
            BY <2>0, <2>1, <3>1, EnterType DEF Create
        <3> QED
            BY <2>1, <3>1, <3>2 DEF Create, TypeOK
    <2>2. ASSUME NEW p \in Patch, BeginUpdate(c, s, p) PROVE TypeOK'
        <3>1. call' \in [Procs -> Call] /\ suspect' \subseteq Sources
            BY <2>0, <2>2, EnterType, PatchedType DEF BeginUpdate
        <3> QED
            BY <2>2, <3>1 DEF BeginUpdate, TypeOK
    <2>3. ASSUME BeginDelete(c, s) PROVE TypeOK'
        <3>1. call' \in [Procs -> Call] /\ suspect' \subseteq Sources
            BY <2>0, <2>3, EnterType DEF BeginDelete
        <3> QED
            BY <2>3, <3>1 DEF BeginDelete, TypeOK
    <2>4. ASSUME BeginSeen(c, s) PROVE TypeOK'
        <3>1. call' \in [Procs -> Call] /\ suspect' \subseteq Sources
            BY <2>0, <2>4, EnterType DEF BeginSeen
        <3> QED
            BY <2>4, <3>1 DEF BeginSeen, TypeOK
    <2> QED
        BY <2>1, <2>2, <2>3, <2>4
<1>2. ASSUME NEW p \in Procs, CallStep(p) PROVE TypeOK'
    <2>0. /\ call[p] \in Call /\ call[p].src \in Sources /\ call[p].row \in Row
          /\ Resumed(p) \in [Jobs -> Run]
          /\ [call EXCEPT ![p] = IdleCall] \in [Procs -> Call]
          /\ [call EXCEPT ![p].stage = "notify"] \in [Procs -> Call]
        BY ResumedType DEF TypeOK, Call
    <2>1. CASE WriteFails(p)
        BY <2>0, <2>1 DEF WriteFails, TypeOK
    <2>2. CASE WriteRow(p)
        BY <2>0, <2>2 DEF WriteRow, TypeOK
    <2>3. CASE DeleteRow(p)
        BY <2>0, <2>3 DEF DeleteRow, TypeOK
    <2>4. CASE NotifyCancel(p)
        <3>1. jobs' \in [Jobs -> Job]
            BY <2>4 DEF NotifyCancel, TypeOK, Job
        <3>2. call' \in [Procs -> Call] /\ suspect' \subseteq Sources
            BY <2>0, <2>4 DEF NotifyCancel, Settle, TypeOK
        <3> QED
            BY <2>0, <2>4, <3>1, <3>2 DEF NotifyCancel, TypeOK
    <2>5. ASSUME NEW j \in Jobs, NotifySchedule(p, j) PROVE TypeOK'
        <3>1. jobs' \in [Jobs -> Job]
            BY <2>0, <2>5 DEF NotifySchedule, TypeOK, Job, Row
        <3>2. call' \in [Procs -> Call] /\ suspect' \subseteq Sources
            BY <2>0, <2>5 DEF NotifySchedule, Settle, TypeOK
        <3>3. run' \in [Jobs -> Run]
            BY <2>0, <2>5 DEF NotifySchedule
        <3> QED
            BY <2>0, <2>5, <3>1, <3>2, <3>3 DEF NotifySchedule, TypeOK
    <2>6. CASE NotifyPassive(p)
        BY <2>0, <2>6 DEF NotifyPassive, Settle, TypeOK
    <2>7. CASE NotifySkip(p)
        BY <2>0, <2>7 DEF NotifySkip, TypeOK
    <2> QED
        BY <1>2, <2>1, <2>2, <2>3, <2>4, <2>5, <2>6, <2>7 DEF CallStep
<1>3. ASSUME NEW j \in Jobs, PullStep(j) PROVE TypeOK'
    <2>0. /\ jobs[j].src \in Sources /\ j \in Procs
          /\ run[j] \in Run /\ rows[jobs[j].src] \in Row
        BY DEF TypeOK, Job, Procs
    <2>a. \A r \in Results, pc \in {"read", "finish", "ingest", "disable"} :
              AtPc(pc, r) \in Run
        BY SourcesAssumption DEF AtPc, Run
    <2>b. \A r \in Results : EmittedTo(r) \in Results /\ FailedTo(r) \in Results
        BY DEF EmittedTo, FailedTo, Results
    <2>c. /\ run[j].result \in Results
          /\ "failed" \in Results /\ "auto" \in Results
        BY <2>0 DEF Run, Results
    <2>1. CASE Spawn(j)
        BY <2>1, <2>a, <2>c DEF Spawn, TypeOK
    <2>2. CASE ReadValid(j)
        <3>1. call' \in [Procs -> Call] /\ suspect' \subseteq Sources
            BY <2>0, <2>2, EnterType DEF ReadValid, TypeOK
        <3> QED
            BY <2>a, <2>b, <2>c, <2>2, <3>1 DEF ReadValid, TypeOK
    <2>3. CASE IngestFails(j)
        BY <2>a, <2>b, <2>c, <2>3 DEF IngestFails, TypeOK
    <2>4. CASE ReadAlert(j)
        BY <2>a, <2>b, <2>c, <2>4 DEF ReadAlert, TypeOK
    <2>5. CASE ReadInvalid(j)
        <3>0. run[j].bad \in 0..MaxInvalid /\ run[j].bad + 1 \in 0..MaxInvalid
            <4>1. run[j].bad \in 0..MaxInvalid
                BY <2>0 DEF Run
            <4>2. run[j].bad + 1 < MaxInvalid
                BY <2>5 DEF ReadInvalid
            <4> QED
                BY <4>1, <4>2, SourcesAssumption
        <3>1. [run[j] EXCEPT !.bad = run[j].bad + 1, !.result = "invalid"] \in Run
            BY <2>0, <3>0 DEF Run, Results
        <3>2. run' = [run EXCEPT ![j] =
                        [run[j] EXCEPT !.bad = run[j].bad + 1, !.result = "invalid"]]
            BY <2>5 DEF ReadInvalid, TypeOK
        <3> QED
            BY <2>5, <3>1, <3>2 DEF ReadInvalid, TypeOK
    <2>6. CASE AutoDisable(j)
        <3>0. Disabling \in Patch
            BY DEF Disabling, Patch
        <3>1. call' \in [Procs -> Call] /\ suspect' \subseteq Sources
            BY <2>0, <2>6, <3>0, EnterType, PatchedType DEF AutoDisable, TypeOK
        <3> QED
            BY <2>a, <2>c, <2>6, <3>1 DEF AutoDisable, TypeOK
    <2>7. CASE Exit(j)
        BY <2>a, <2>b, <2>c, <2>7 DEF Exit, TypeOK
    <2>8. CASE Hang(j)
        <3>1. [run[j] EXCEPT !.pc = "hung"] \in Run
            BY <2>0 DEF Run
        <3> QED
            BY <2>8, <3>1 DEF Hang, TypeOK
    <2>9. CASE Killed(j)
        BY <2>a, <2>b, <2>c, <2>9 DEF Killed, TypeOK
    <2>10. CASE Report(j)
        <3>1. call' \in [Procs -> Call] /\ suspect' \subseteq Sources
            BY <2>0, <2>10, EnterType DEF Report, TypeOK
        <3>2. [run[j] EXCEPT !.pc = "report"] \in Run
            BY <2>0 DEF Run
        <3> QED
            BY <2>10, <3>1, <3>2 DEF Report, TypeOK
    <2>11. CASE StaySilent(j)
        BY <2>11 DEF StaySilent, TypeOK
    <2>12. CASE EndLoop(j)
        BY <2>12 DEF EndLoop, TypeOK
    <2> QED
        BY <1>3, <2>1, <2>2, <2>3, <2>4, <2>5, <2>6, <2>7, <2>8, <2>9, <2>10,
           <2>11, <2>12 DEF PullStep
<1>4. ASSUME Restart PROVE TypeOK'
    <2> PICK start \in [Sources -> Jobs \cup {NoJob}] : Restart!(start)
        BY <1>4 DEF Restart
    <2> DEFINE due == {s \in PullSources : life[s] = "stored" /\ rows[s].enabled}
               got == {s \in Sources : start[s] # NoJob}
    <2>1. jobs' \in [Jobs -> Job]
        <3>1. ASSUME NEW j \in Jobs, \E s \in got : start[s] = j
              PROVE  [src |-> (CHOOSE s \in got : start[s] = j),
                      config |-> rows[CHOOSE s \in got : start[s] = j].config,
                      cancelled |-> FALSE] \in Job
            BY <3>1 DEF TypeOK, Row, Job
        <3> QED
            BY <3>1
    <2>2. run' \in [Jobs -> Run]
        OBVIOUS
    <2>3. suspect' \subseteq Sources
        BY SourcesAssumption
    <2> QED
        BY <2>1, <2>2, <2>3 DEF TypeOK
<1>5. CASE UNCHANGED vars
    BY <1>5 DEF vars, TypeOK
<1> QED
    BY <1>1, <1>2, <1>3, <1>4, <1>5 DEF Next

\* Every reachable state is well typed: TypeOK holds throughout, whatever the
\* sources, callers and pull loops.
THEOREM TypeCorrect == Spec => []TypeOK
<1> QED
    BY TypeInit, TypeStep, PTL DEF Spec
-----------------------------------------------------------------------------
(* The invariant that makes InSyncUnlessSuspect inductive                   *)

\* A loop is inside a service call only where it waits for one, only an
\* operation with a hook gets to it, and operations are on created sources.
Waiting == {"ingest", "disable", "report"}
CallShape ==
    /\ \A j \in Jobs : run[j].pc \notin Waiting => call[j].stage = "idle"
    /\ \A p \in Procs : /\ call[p].stage = "notify" => call[p].kind # "seen"
                        /\ call[p].stage = "write" => call[p].kind # "create"
                        /\ call[p].stage # "idle" => life[call[p].src] # "fresh"

\* Operations that overlap know it, and their source is suspect.
Overlaps ==
    /\ \A p \in Procs : call[p].stage # "idle" /\ ~call[p].alone =>
                           call[p].src \in suspect
    /\ \A p, q \in Procs :
          /\ p # q
          /\ call[p].stage # "idle" /\ call[q].stage # "idle"
          /\ call[p].src = call[q].src
          /\ ~(call[p].kind = "seen" /\ call[q].kind = "seen")
          => ~call[p].alone

\* The copy a MarkSeen carries is current, and so is the one a hook is called
\* with, unless the source is suspect or the operation met another.
Copies ==
    \A p \in Procs :
        LET s == call[p].src IN
        /\ call[p].stage = "write" /\ call[p].kind = "seen" /\ s \notin suspect
           /\ life[s] = "stored" => call[p].row = rows[s]
        /\ call[p].stage = "notify" /\ call[p].alone =>
              IF call[p].kind = "delete" THEN life[s] = "deleted"
              ELSE life[s] = "stored" /\ call[p].row = rows[s]

\* Between a write and its hook the schedule may lag; otherwise it does not.
Lagging(s) == \E p \in Procs : call[p].stage = "notify" /\ call[p].src = s
Synced ==
    /\ \A s \in Sources \ suspect : ~Lagging(s) => InSync(s)
    /\ \A s \in Sources \ PullSources : cancels[s] = NoJob

IInv == TypeOK /\ OneLiveLoop /\ CallShape /\ Overlaps /\ Copies /\ Synced

-----------------------------------------------------------------------------
(* Live loops                                                               *)

\* No step but the end of a loop takes a loop to "off".
LEMMA StaysOn ==
    ASSUME TypeOK, NEW p \in Procs, NEW j \in Jobs
    PROVE  /\ Resumed(p) \in [Jobs -> Run]
           /\ Resumed(p)[j].pc = "off" <=> run[j].pc = "off"
<1>1. Resumed(p) \in [Jobs -> Run]
    BY ResumedType DEF TypeOK
<1>2. \A r \in Run : AfterCall(r).pc = "off" <=> r.pc = "off"
    BY DEF AfterCall, AtPc, FreshRun, Run
<1> QED
    BY <1>1, <1>2 DEF Resumed, TypeOK

LEMMA LoopStep == TypeOK /\ OneLiveLoop /\ [Next]_vars => OneLiveLoop'
<1> SUFFICES ASSUME TypeOK, OneLiveLoop, [Next]_vars PROVE OneLiveLoop'
    OBVIOUS
<1>0. \A j \in Jobs : jobs[j] \in Job /\ run[j] \in Run
    BY DEF TypeOK
<1>a. ASSUME jobs' = jobs, cancels' = cancels,
             \A j \in Jobs : run[j].pc # "off" => run'[j].pc # "off"
      PROVE  OneLiveLoop'
    BY <1>a DEF OneLiveLoop, TypeOK
<1>1. ASSUME NEW c \in Callers, CallerStep(c) PROVE OneLiveLoop'
    BY <1>1, <1>a DEF CallerStep, Create, BeginUpdate, BeginDelete, BeginSeen
<1>2. ASSUME NEW p \in Procs, CallStep(p) PROVE OneLiveLoop'
    <2>0. call[p].src \in Sources
        BY DEF TypeOK, Call
    <2>1. CASE WriteFails(p) \/ NotifyPassive(p) \/ NotifySkip(p)
        BY <2>1, <1>a, StaysOn DEF WriteFails, NotifyPassive, NotifySkip
    <2>2. CASE WriteRow(p) \/ DeleteRow(p)
        BY <2>2, <1>a, StaysOn DEF WriteRow, DeleteRow
    <2>3. CASE NotifyCancel(p)
        <3> DEFINE s == call[p].src
        <3>1. \A j \in Jobs : /\ jobs'[j].src = jobs[j].src
                              /\ j = cancels[s] => jobs'[j].cancelled
                              /\ j # cancels[s] => jobs'[j] = jobs[j]
            BY <1>0, <2>3 DEF NotifyCancel, Job
        <3>2. cancels' = [cancels EXCEPT ![s] = NoJob]
            BY <2>3 DEF NotifyCancel
        <3>3. \A j \in Jobs : run[j].pc # "off" => run'[j].pc # "off"
            BY <2>3, StaysOn DEF NotifyCancel
        <3> QED
            BY <2>0, <3>1, <3>2, <3>3, SourcesAssumption DEF OneLiveLoop, TypeOK
    <2>4. ASSUME NEW j \in Jobs, NotifySchedule(p, j) PROVE OneLiveLoop'
        <3> DEFINE s == call[p].src
        <3>1. /\ jobs'[j].src = s /\ ~jobs'[j].cancelled
              /\ \A k \in Jobs \ {j} :
                    /\ jobs'[k].src = jobs[k].src
                    /\ k = cancels[s] => jobs'[k].cancelled
                    /\ k # cancels[s] => jobs'[k] = jobs[k]
            BY <1>0, <2>4 DEF NotifySchedule, Job
        <3>2. cancels' = [cancels EXCEPT ![s] = j]
            BY <2>4 DEF NotifySchedule
        <3>3. /\ run'[j].pc = "spawn" /\ run[j].pc = "off"
              /\ \A k \in Jobs \ {j} : run[k].pc # "off" => run'[k].pc # "off"
            BY <2>4, StaysOn DEF NotifySchedule, FreshRun, AtPc
        <3> QED
            BY <2>0, <3>1, <3>2, <3>3, SourcesAssumption DEF OneLiveLoop, TypeOK
    <2> QED
        BY <1>2, <2>1, <2>2, <2>3, <2>4 DEF CallStep
<1>3. ASSUME NEW j \in Jobs, PullStep(j) PROVE OneLiveLoop'
    <2>1. CASE EndLoop(j)
        <3>1. \A k \in Jobs \ {j} : jobs'[k] = jobs[k] /\ run'[k] = run[k]
            BY <2>1 DEF EndLoop, TypeOK
        <3>2. jobs[j].cancelled /\ jobs'[j].cancelled /\ cancels' = cancels
            BY <2>1 DEF EndLoop, NoRun, TypeOK
        <3> QED
            BY <3>1, <3>2, SourcesAssumption DEF OneLiveLoop, TypeOK
    <2>2. CASE ~EndLoop(j)
        <3>1. jobs' = jobs /\ cancels' = cancels
            BY <1>3, <2>2 DEF PullStep, Spawn, ReadValid, IngestFails, ReadAlert,
               ReadInvalid, AutoDisable, Exit, Hang, Killed, Report, StaySilent
        <3>2. \A k \in Jobs : run[k].pc # "off" => run'[k].pc # "off"
            <4>1. CASE Spawn(j) \/ StaySilent(j)
                BY <4>1 DEF Spawn, StaySilent, AtPc, FreshRun, TypeOK
            <4>2. CASE IngestFails(j) \/ ReadAlert(j) \/ Exit(j) \/ Killed(j)
                BY <4>2 DEF IngestFails, ReadAlert, Exit, Killed, AtPc, TypeOK
            <4>3. CASE ReadInvalid(j) \/ Hang(j)
                <5>1. run \in [Jobs -> Run]
                    BY DEF TypeOK
                <5>2. run[j].pc = "read"
                    BY <4>3 DEF ReadInvalid, Hang
                <5>3. CASE ReadInvalid(j)
                    BY <5>1, <5>2, <5>3 DEF ReadInvalid, Run
                <5>4. CASE Hang(j)
                    BY <5>1, <5>4 DEF Hang, Run
                <5> QED
                    BY <4>3, <5>3, <5>4
            <4>4. CASE ReadValid(j) \/ AutoDisable(j)
                BY <4>4 DEF ReadValid, AutoDisable, AtPc, TypeOK
            <4>5. CASE Report(j)
                BY <1>0, <4>5 DEF Report, Run, AtPc, FreshRun, TypeOK
            <4> QED
                BY <1>3, <2>2, <4>1, <4>2, <4>3, <4>4, <4>5 DEF PullStep
        <3> QED
            BY <3>1, <3>2, <1>a
    <2> QED
        BY <2>1, <2>2
<1>4. ASSUME Restart PROVE OneLiveLoop'
    <2> PICK start \in [Sources -> Jobs \cup {NoJob}] : Restart!(start)
        BY <1>4 DEF Restart
    <2> DEFINE due == {s \in PullSources : life[s] = "stored" /\ rows[s].enabled}
               got == {s \in Sources : start[s] # NoJob}
               owned(j) == \E s \in got : start[s] = j
    <2>1. \A j \in Jobs : /\ owned(j) => /\ jobs'[j].src \in got
                                         /\ start[jobs'[j].src] = j
                                         /\ ~jobs'[j].cancelled
                                         /\ run'[j].pc # "off"
                          /\ ~owned(j) => jobs'[j].cancelled
        BY DEF FreshRun, AtPc, NoRun
    <2>2. cancels' = start
        OBVIOUS
    <2>3. \A s, t \in got : start[s] = start[t] => s = t
        OBVIOUS
    <2> QED
        BY <2>1, <2>2, <2>3 DEF OneLiveLoop
<1>5. CASE UNCHANGED vars
    BY <1>5, <1>a DEF vars
<1> QED
    BY <1>1, <1>2, <1>3, <1>4, <1>5 DEF Next

LEMMA LoopInit == Init => OneLiveLoop
BY DEF Init, OneLiveLoop, NoRun

\* At most one live pull loop per source, and every live loop is reachable by
\* Cancel, for any number of concurrent operations.
THEOREM LiveLoops == Spec => []OneLiveLoop
<1> QED
    BY TypeInit, TypeStep, LoopInit, LoopStep, PTL DEF Spec

-----------------------------------------------------------------------------
(* The forms a step takes, as far as rows, calls and the schedule go        *)

\* An idle process enters an operation; only a create touches the tables.
EnterForm(p, kind, stage, s, row) ==
    /\ call[p].stage = "idle"
    /\ Enter(p, kind, stage, s, row)
    /\ jobs' = jobs /\ cancels' = cancels
    /\ \/ /\ kind = "create" /\ stage = "notify" /\ life[s] = "fresh"
          /\ life' = [life EXCEPT ![s] = "stored"]
          /\ rows' = [rows EXCEPT ![s] = row]
       \/ /\ kind # "create" /\ stage = "write" /\ life[s] = "stored"
          /\ kind = "seen" => row = rows[s]
          /\ UNCHANGED <<life, rows>>

\* A pull goes on by itself: at most a cancelled loop ends.
QuietForm ==
    /\ UNCHANGED <<life, rows, call, cancels, suspect>>
    /\ \A j \in Jobs : ~jobs[j].cancelled => jobs'[j] = jobs[j]

LEMMA NextForms ==
    ASSUME TypeOK, CallShape, [Next]_vars
    PROVE  \/ \E p \in Procs, s \in Sources, row \in Row,
                 kind \in {"create", "update", "seen", "delete"},
                 stage \in {"write", "notify"} : EnterForm(p, kind, stage, s, row)
           \/ QuietForm
           \/ \E p \in Procs : CallStep(p)
           \/ Restart
<1> DEFINE Entered == \E p \in Procs, s \in Sources, row \in Row,
                 kind \in {"create", "update", "seen", "delete"},
                 stage \in {"write", "notify"} : EnterForm(p, kind, stage, s, row)
<1>1. ASSUME NEW c \in Callers, CallerStep(c) PROVE Entered
    <2> PICK s \in Sources :
            \/ \E cfg \in Configs : Create(c, s, cfg)
            \/ \E p \in Patch : BeginUpdate(c, s, p)
            \/ BeginDelete(c, s)
            \/ BeginSeen(c, s)
        BY <1>1 DEF CallerStep
    <2>0. c \in Procs /\ rows[s] \in Row
        BY DEF Procs, TypeOK
    <2>1. ASSUME NEW cfg \in Configs, Create(c, s, cfg) PROVE Entered
        <3>1. NewRow(cfg) \in Row
            BY DEF NewRow, Row
        <3>2. EnterForm(c, "create", "notify", s, NewRow(cfg))
            BY <2>1 DEF Create, EnterForm
        <3> QED
            BY <2>0, <3>1, <3>2
    <2>2. ASSUME NEW p \in Patch, BeginUpdate(c, s, p) PROVE Entered
        <3>1. EnterForm(c, "update", "write", s, Patched(rows[s], p))
            BY <2>2 DEF BeginUpdate, EnterForm
        <3>2. Patched(rows[s], p) \in Row
            BY <2>0, PatchedType
        <3> QED
            BY <2>0, <3>1, <3>2
    <2>3. CASE BeginDelete(c, s)
        <3>1. EnterForm(c, "delete", "write", s, rows[s])
            BY <2>3 DEF BeginDelete, EnterForm
        <3> QED
            BY <2>0, <3>1
    <2>4. CASE BeginSeen(c, s)
        <3>1. EnterForm(c, "seen", "write", s, rows[s])
            BY <2>4 DEF BeginSeen, EnterForm
        <3> QED
            BY <2>0, <3>1
    <2> QED
        BY <2>1, <2>2, <2>3, <2>4
<1>2. ASSUME NEW j \in Jobs, PullStep(j) PROVE Entered \/ QuietForm
    <2> DEFINE s == jobs[j].src
    <2>0. j \in Procs /\ s \in Sources /\ rows[s] \in Row
        BY DEF Procs, TypeOK, Job
    <2>1. CASE ReadValid(j)
        <3>1. CASE life[s] = "stored"
            <4>1. call[j].stage = "idle"
                BY <2>1 DEF CallShape, Waiting, ReadValid
            <4>2. EnterForm(j, "seen", "write", s, rows[s])
                BY <2>1, <3>1, <4>1 DEF ReadValid, EnterForm
            <4> QED
                BY <2>0, <4>2
        <3>2. CASE life[s] # "stored"
            BY <2>1, <3>2 DEF ReadValid, QuietForm
        <3> QED
            BY <3>1, <3>2
    <2>2. CASE AutoDisable(j)
        <3>1. CASE ~jobs[j].cancelled /\ life[s] = "stored"
            <4>1. call[j].stage = "idle"
                BY <2>2 DEF CallShape, Waiting, AutoDisable
            <4>2. EnterForm(j, "update", "write", s, Patched(rows[s], Disabling))
                BY <2>2, <3>1, <4>1 DEF AutoDisable, EnterForm
            <4>3. Patched(rows[s], Disabling) \in Row
                BY <2>0, PatchedType DEF Disabling, Patch
            <4> QED
                BY <2>0, <4>2, <4>3
        <3>2. CASE ~(~jobs[j].cancelled /\ life[s] = "stored")
            BY <2>2, <3>2 DEF AutoDisable, QuietForm
        <3> QED
            BY <3>1, <3>2
    <2>3. CASE Report(j)
        <3>1. CASE run[j].result # "emitted" /\ life[s] = "stored"
            <4>1. call[j].stage = "idle"
                BY <2>3 DEF CallShape, Waiting, Report
            <4>2. EnterForm(j, "seen", "write", s, rows[s])
                BY <2>3, <3>1, <4>1 DEF Report, EnterForm
            <4> QED
                BY <2>0, <4>2
        <3>2. CASE ~(run[j].result # "emitted" /\ life[s] = "stored")
            BY <2>3, <3>2 DEF Report, QuietForm
        <3> QED
            BY <3>1, <3>2
    <2>4. CASE EndLoop(j)
        BY <2>4 DEF EndLoop, QuietForm, TypeOK
    <2>5. CASE Spawn(j) \/ IngestFails(j) \/ ReadAlert(j) \/ ReadInvalid(j)
               \/ Exit(j) \/ Hang(j) \/ Killed(j) \/ StaySilent(j)
        BY <2>5 DEF Spawn, IngestFails, ReadAlert, ReadInvalid, Exit, Hang, Killed,
           StaySilent, QuietForm
    <2> QED
        BY <1>2, <2>1, <2>2, <2>3, <2>4, <2>5 DEF PullStep
<1>3. CASE UNCHANGED vars
    BY <1>3 DEF vars, QuietForm
<1> QED
    BY <1>1, <1>2, <1>3 DEF Next

\* What entering an operation does to the calls and the suspects.
LEMMA EnterFacts ==
    ASSUME TypeOK, NEW p \in Procs, NEW s \in Sources, NEW row, NEW kind, NEW stage,
           stage # "idle", Enter(p, kind, stage, s, row)
    PROVE  /\ call'[p].kind = kind /\ call'[p].stage = stage /\ call'[p].src = s
           /\ call'[p].row = row
           /\ \A q \in Procs \ {p} :
                 /\ call'[q].kind = call[q].kind /\ call'[q].stage = call[q].stage
                 /\ call'[q].src = call[q].src /\ call'[q].row = call[q].row
                 /\ call'[q].alone => call[q].alone
                 /\ call[q].alone /\ ~call'[q].alone => call[q].src = s /\ s \in suspect'
                 /\ call[q].stage # "idle" /\ call[q].src = s
                    /\ ~(kind = "seen" /\ call[q].kind = "seen")
                    => ~call'[q].alone /\ ~call'[p].alone
           /\ ~call'[p].alone => s \in suspect'
           /\ suspect \subseteq suspect' /\ suspect' \subseteq suspect \cup {s}
<1>1. \A q \in Procs : call[q] \in Call
    BY DEF TypeOK
<1>2. /\ call'[p] = [kind |-> kind, stage |-> stage, src |-> s, row |-> row,
                     alone |-> Conflicts(kind, s) = {}]
      /\ \A q \in Procs \ {p} :
            call'[q] = IF q \in Conflicts(kind, s)
                       THEN [call[q] EXCEPT !.alone = FALSE] ELSE call[q]
    BY DEF Enter
<1>3. Conflicts(kind, s) # {} => s \in suspect'
    BY DEF Enter
<1>4. suspect \subseteq suspect' /\ suspect' \subseteq suspect \cup {s}
    BY DEF Enter
<1>5. ASSUME NEW q \in Procs \ {p}
      PROVE  /\ call'[q].kind = call[q].kind /\ call'[q].stage = call[q].stage
             /\ call'[q].src = call[q].src /\ call'[q].row = call[q].row
             /\ q \in Conflicts(kind, s) => ~call'[q].alone
             /\ q \notin Conflicts(kind, s) => call'[q].alone = call[q].alone
    BY <1>1, <1>2 DEF Call
<1>6. \A q \in Procs : q \in Conflicts(kind, s) <=>
                          /\ call[q].stage # "idle" /\ call[q].src = s
                          /\ ~(kind = "seen" /\ call[q].kind = "seen")
    BY DEF Conflicts, InFlight
<1>7. /\ call'[p].kind = kind /\ call'[p].stage = stage /\ call'[p].src = s
      /\ call'[p].row = row
      /\ call'[p].alone = (Conflicts(kind, s) = {})
    BY <1>2
<1>8. ASSUME NEW q \in Procs \ {p}
      PROVE  /\ call'[q].kind = call[q].kind /\ call'[q].stage = call[q].stage
             /\ call'[q].src = call[q].src /\ call'[q].row = call[q].row
             /\ call'[q].alone => call[q].alone
             /\ call[q].alone /\ ~call'[q].alone => call[q].src = s /\ s \in suspect'
             /\ call[q].stage # "idle" /\ call[q].src = s
                /\ ~(kind = "seen" /\ call[q].kind = "seen")
                => ~call'[q].alone /\ ~call'[p].alone
    <2>1. CASE q \in Conflicts(kind, s)
        <3>1. Conflicts(kind, s) # {}
            BY <2>1
        <3>2. call[q].src = s /\ ~call'[q].alone /\ ~call'[p].alone /\ s \in suspect'
            BY <1>3, <1>5, <1>6, <1>7, <2>1, <3>1
        <3> QED
            BY <1>5, <3>2
    <2>2. CASE q \notin Conflicts(kind, s)
        BY <1>5, <1>6, <2>2
    <2> QED
        BY <2>1, <2>2
<1> QED
    BY <1>3, <1>4, <1>7, <1>8

\* What returning from an operation does to the calls and the loops.
LEMMA ReturnFacts ==
    ASSUME TypeOK, NEW p \in Procs, call' = [call EXCEPT ![p] = IdleCall]
    PROVE  /\ call'[p].stage = "idle"
           /\ \A q \in Procs \ {p} : call'[q] = call[q]
BY DEF TypeOK, IdleCall

LEMMA NotifyFacts ==
    ASSUME TypeOK, NEW p \in Procs, call' = [call EXCEPT ![p].stage = "notify"]
    PROVE  /\ call'[p].stage = "notify"
           /\ call'[p].kind = call[p].kind /\ call'[p].src = call[p].src
           /\ call'[p].row = call[p].row /\ call'[p].alone = call[p].alone
           /\ \A q \in Procs \ {p} : call'[q] = call[q]
<1>1. call[p] \in Call
    BY DEF TypeOK
<1>2. /\ call'[p] = [call[p] EXCEPT !.stage = "notify"]
      /\ \A q \in Procs \ {p} : call'[q] = call[q]
    BY DEF TypeOK
<1> QED
    BY <1>1, <1>2 DEF Call

-----------------------------------------------------------------------------
(* Shape of the calls                                                       *)

LEMMA ShapeStep == TypeOK /\ CallShape /\ [Next]_vars => CallShape'
<1> SUFFICES ASSUME TypeOK, CallShape, [Next]_vars PROVE CallShape'
    OBVIOUS
<1> DEFINE PcShape == \A j \in Jobs : run[j].pc \notin Waiting => call[j].stage = "idle"
           KindShape == \A p \in Procs :
              /\ call[p].stage = "notify" => call[p].kind # "seen"
              /\ call[p].stage = "write" => call[p].kind # "create"
              /\ call[p].stage # "idle" => life[call[p].src] # "fresh"
<1>0. PcShape /\ KindShape /\ Jobs \subseteq Procs
    BY DEF CallShape, Procs
<1>1. PcShape'
    <2>1. ASSUME NEW c \in Callers, CallerStep(c) PROVE PcShape'
        <3>1. \A q \in Procs \ {c} : call'[q].stage = call[q].stage
            BY <2>1, EnterFacts DEF CallerStep, Create, BeginUpdate, BeginDelete,
               BeginSeen, Procs
        <3>2. run' = run /\ c \notin Jobs
            BY <2>1, SourcesAssumption DEF CallerStep, Create, BeginUpdate,
               BeginDelete, BeginSeen
        <3> QED
            BY <1>0, <3>1, <3>2
    <2>2. ASSUME NEW p \in Procs, CallStep(p) PROVE PcShape'
        <3>1. \A q \in Jobs \ {p} : Resumed(p)[q] = run[q]
            BY DEF Resumed, TypeOK
        <3>2. CASE WriteFails(p) \/ NotifyCancel(p) \/ NotifyPassive(p)
                   \/ NotifySkip(p)
            <4>1. call' = [call EXCEPT ![p] = IdleCall] /\ run' = Resumed(p)
                BY <3>2 DEF WriteFails, NotifyCancel, NotifyPassive, NotifySkip,
                   Settle
            <4>2. /\ call'[p].stage = "idle"
                  /\ \A q \in Procs \ {p} : call'[q] = call[q]
                BY <4>1, ReturnFacts
            <4> QED
                BY <1>0, <3>1, <4>1, <4>2
        <3>3. CASE WriteRow(p) \/ DeleteRow(p)
            <4>1. \/ call' = [call EXCEPT ![p] = IdleCall] /\ run' = Resumed(p)
                  \/ /\ call' = [call EXCEPT ![p].stage = "notify"] /\ run' = run
                     /\ call[p].stage = "write"
                BY <3>3 DEF WriteRow, DeleteRow
            <4>2. CASE call' = [call EXCEPT ![p] = IdleCall] /\ run' = Resumed(p)
                <5>1. /\ call'[p].stage = "idle"
                      /\ \A q \in Procs \ {p} : call'[q] = call[q]
                    BY <4>2, ReturnFacts
                <5> QED
                    BY <1>0, <3>1, <4>2, <5>1
            <4>3. CASE call' = [call EXCEPT ![p].stage = "notify"] /\ run' = run
                       /\ call[p].stage = "write"
                BY <1>0, <4>3, NotifyFacts
            <4> QED
                BY <4>1, <4>2, <4>3
        <3>4. ASSUME NEW j \in Jobs, NotifySchedule(p, j) PROVE PcShape'
            <4>1. /\ call' = [call EXCEPT ![p] = IdleCall]
                  /\ run' = [Resumed(p) EXCEPT ![j] = FreshRun("spawn")]
                  /\ run[j].pc = "off"
                BY <3>4 DEF NotifySchedule, Settle
            <4>2. call[j].stage = "idle"
                BY <1>0, <4>1 DEF Waiting
            <4>3. \A q \in Jobs \ {p, j} : run'[q] = run[q]
                BY <3>1, <4>1, StaysOn
            <4>4. /\ call'[p].stage = "idle"
                  /\ \A q \in Procs \ {p} : call'[q] = call[q]
                BY <4>1, ReturnFacts
            <4>5. ASSUME NEW k \in Jobs, run'[k].pc \notin Waiting
                  PROVE  call'[k].stage = "idle"
                BY <1>0, <4>2, <4>3, <4>4, <4>5
            <4> QED
                BY <4>5
        <3> QED
            BY <2>2, <3>2, <3>3, <3>4 DEF CallStep
    <2>3. ASSUME NEW j \in Jobs, PullStep(j) PROVE PcShape'
        <3>1. \A k \in Jobs \ {j} : run'[k] = run[k]
            BY <2>3 DEF PullStep, Spawn, ReadValid, IngestFails, ReadAlert,
               ReadInvalid, AutoDisable, Exit, Hang, Killed, Report, StaySilent,
               EndLoop, TypeOK
        <3>2. \A k \in Jobs \ {j} : call'[k].stage = call[k].stage
            BY <1>0, <2>3, EnterFacts DEF PullStep, Spawn, ReadValid, IngestFails,
               ReadAlert, ReadInvalid, AutoDisable, Exit, Hang, Killed, Report,
               StaySilent, EndLoop, TypeOK, Job
        <3>3. call' = call \/ run'[j].pc \in Waiting
            BY <2>3 DEF PullStep, Spawn, ReadValid, IngestFails, ReadAlert,
               ReadInvalid, AutoDisable, Exit, Hang, Killed, Report, StaySilent,
               EndLoop, TypeOK, AtPc, Waiting, Run
        <3>4. run[j].pc \notin Waiting
            BY <2>3 DEF PullStep, Spawn, ReadValid, IngestFails, ReadAlert,
               ReadInvalid, AutoDisable, Exit, Hang, Killed, Report, StaySilent,
               EndLoop, Waiting
        <3> QED
            BY <1>0, <3>1, <3>2, <3>3, <3>4
    <2>4. CASE Restart
        BY <1>0, <2>4 DEF Restart, IdleCall
    <2>5. CASE UNCHANGED vars
        BY <1>0, <2>5 DEF vars
    <2> QED
        BY <2>1, <2>2, <2>3, <2>4, <2>5 DEF Next
<1>2. KindShape'
    <2>1. ASSUME NEW p \in Procs, NEW s \in Sources, NEW row \in Row,
                 NEW kind \in {"create", "update", "seen", "delete"},
                 NEW stage \in {"write", "notify"}, EnterForm(p, kind, stage, s, row)
          PROVE  KindShape'
        <3>1. /\ call'[p].kind = kind /\ call'[p].stage = stage /\ call'[p].src = s
              /\ \A q \in Procs \ {p} : /\ call'[q].kind = call[q].kind
                                        /\ call'[q].stage = call[q].stage
                                        /\ call'[q].src = call[q].src
            BY <2>1, EnterFacts DEF EnterForm
        <3>2. \A t \in Sources : life[t] # "fresh" => life'[t] # "fresh"
            BY <2>1 DEF EnterForm, TypeOK
        <3>3. /\ life'[s] # "fresh"
              /\ stage = "notify" => kind # "seen"
              /\ stage = "write" => kind # "create"
            BY <2>1 DEF EnterForm, TypeOK
        <3>4. \A q \in Procs : call[q].src \in Sources
            BY DEF TypeOK, Call
        <3> QED
            BY <1>0, <3>1, <3>2, <3>3, <3>4
    <2>2. CASE QuietForm
        BY <1>0, <2>2 DEF QuietForm
    <2>3. ASSUME NEW p \in Procs, CallStep(p) PROVE KindShape'
        <3>1. \A q \in Procs : call[q].src \in Sources
            BY DEF TypeOK, Call
        <3>2. \/ call' = [call EXCEPT ![p] = IdleCall]
              \/ /\ call' = [call EXCEPT ![p].stage = "notify"]
                 /\ call[p].stage = "write" /\ call[p].kind # "seen"
            BY <2>3 DEF CallStep, WriteFails, WriteRow, DeleteRow, NotifyCancel,
               NotifySchedule, NotifyPassive, NotifySkip, Settle
        <3>3. \A t \in Sources : life[t] # "fresh" => life'[t] # "fresh"
            BY <2>3 DEF CallStep, WriteFails, WriteRow, DeleteRow, NotifyCancel,
               NotifySchedule, NotifyPassive, NotifySkip, TypeOK
        <3>4. CASE call' = [call EXCEPT ![p] = IdleCall]
            <4>1. /\ call'[p].stage = "idle"
                  /\ \A q \in Procs \ {p} : call'[q] = call[q]
                BY <3>4, ReturnFacts
            <4> QED
                BY <1>0, <3>1, <3>3, <4>1
        <3>5. CASE call' = [call EXCEPT ![p].stage = "notify"]
                   /\ call[p].stage = "write" /\ call[p].kind # "seen"
            BY <1>0, <3>1, <3>3, <3>5, NotifyFacts
        <3> QED
            BY <3>2, <3>4, <3>5
    <2>4. CASE Restart
        BY <1>0, <2>4 DEF Restart, IdleCall
    <2> QED
        BY <2>1, <2>2, <2>3, <2>4, NextForms
<1> QED
    BY <1>1, <1>2 DEF CallShape

-----------------------------------------------------------------------------
(* Overlapping operations                                                   *)

LEMMA OverlapStep ==
    TypeOK /\ CallShape /\ Overlaps /\ [Next]_vars => Overlaps'
<1> SUFFICES ASSUME TypeOK, CallShape, Overlaps, [Next]_vars PROVE Overlaps'
    OBVIOUS
<1>1. ASSUME NEW p \in Procs, NEW s \in Sources, NEW row \in Row,
             NEW kind \in {"create", "update", "seen", "delete"},
             NEW stage \in {"write", "notify"}, EnterForm(p, kind, stage, s, row)
      PROVE  Overlaps'
    <2>1. /\ call'[p].kind = kind /\ call'[p].src = s
          /\ ~call'[p].alone => s \in suspect'
          /\ suspect \subseteq suspect'
          /\ \A q \in Procs \ {p} :
                /\ call'[q].kind = call[q].kind /\ call'[q].stage = call[q].stage
                /\ call'[q].src = call[q].src
                /\ call'[q].alone => call[q].alone
                /\ call[q].alone /\ ~call'[q].alone =>
                      call[q].src = s /\ s \in suspect'
                /\ call[q].stage # "idle" /\ call[q].src = s
                   /\ ~(kind = "seen" /\ call[q].kind = "seen")
                   => ~call'[q].alone /\ ~call'[p].alone
        BY <1>1, EnterFacts DEF EnterForm
    <2>2. ASSUME NEW q \in Procs, call'[q].stage # "idle", ~call'[q].alone
          PROVE  call'[q].src \in suspect'
        <3>1. CASE q = p
            BY <2>1, <2>2, <3>1
        <3>2. CASE q # p /\ ~call[q].alone
            <4>1. call[q].src \in suspect
                BY <2>1, <2>2, <3>2 DEF Overlaps
            <4> QED
                BY <2>1, <3>2, <4>1
        <3>3. CASE q # p /\ call[q].alone
            BY <2>1, <2>2, <3>3
        <3> QED
            BY <3>1, <3>2, <3>3
    <2>3. ASSUME NEW q \in Procs, NEW r \in Procs, q # r,
                 call'[q].stage # "idle", call'[r].stage # "idle",
                 call'[q].src = call'[r].src,
                 ~(call'[q].kind = "seen" /\ call'[r].kind = "seen")
          PROVE  ~call'[q].alone
        <3>1. CASE q = p
            BY <2>1, <2>3, <3>1
        <3>2. CASE q # p /\ r = p
            BY <2>1, <2>3, <3>2
        <3>3. CASE q # p /\ r # p
            <4>1. ~call[q].alone
                BY <2>1, <2>3, <3>3 DEF Overlaps
            <4> QED
                BY <2>1, <3>3, <4>1
        <3> QED
            BY <3>1, <3>2, <3>3
    <2> QED
        BY <2>2, <2>3 DEF Overlaps
<1>2. CASE QuietForm
    BY <1>2 DEF QuietForm, Overlaps
<1>3. ASSUME NEW p \in Procs, CallStep(p) PROVE Overlaps'
    <2>1. ASSUME call' = [call EXCEPT ![p] = IdleCall],
                 \/ suspect \subseteq suspect'
                 \/ /\ call[p].alone /\ call[p].kind # "seen"
                    /\ call[p].stage # "idle"
                    /\ suspect' = suspect \ {call[p].src}
          PROVE  Overlaps'
        <3>1. /\ call'[p].stage = "idle"
              /\ \A q \in Procs \ {p} : call'[q] = call[q]
            BY <2>1, ReturnFacts
        <3>2. ASSUME NEW q \in Procs, call'[q].stage # "idle", ~call'[q].alone
              PROVE  call'[q].src \in suspect'
            <4>1. q # p /\ call[q].src \in suspect /\ call'[q] = call[q]
                  /\ call[q].stage # "idle"
                BY <3>1, <3>2 DEF Overlaps
            <4>2. CASE suspect \subseteq suspect'
                BY <4>1, <4>2
            <4>3. CASE /\ call[p].alone /\ call[p].kind # "seen"
                       /\ call[p].stage # "idle"
                       /\ suspect' = suspect \ {call[p].src}
                <5>1. call[q].src # call[p].src
                    BY <4>1, <4>3 DEF Overlaps
                <5> QED
                    BY <4>1, <4>3, <5>1
            <4> QED
                BY <2>1, <4>2, <4>3
        <3> QED
            BY <3>1, <3>2 DEF Overlaps
    <2>2. ASSUME call' = [call EXCEPT ![p].stage = "notify"],
                 call[p].stage = "write", suspect' = suspect
          PROVE  Overlaps'
        <3>1. /\ call'[p].kind = call[p].kind /\ call'[p].src = call[p].src
              /\ call'[p].alone = call[p].alone
              /\ \A q \in Procs \ {p} : call'[q] = call[q]
            BY <2>2, NotifyFacts
        <3>2. \A q \in Procs : /\ call'[q].kind = call[q].kind
                               /\ call'[q].src = call[q].src
                               /\ call'[q].alone = call[q].alone
                               /\ call'[q].stage # "idle" => call[q].stage # "idle"
            BY <2>2, <3>1
        <3> QED
            BY <2>2, <3>2 DEF Overlaps
    <2>3. CASE WriteFails(p) \/ NotifySkip(p)
        BY <2>1, <2>3 DEF WriteFails, NotifySkip
    <2>4. CASE WriteRow(p) \/ DeleteRow(p)
        BY <2>1, <2>2, <2>4 DEF WriteRow, DeleteRow
    <2>5. CASE NotifyCancel(p) \/ NotifyPassive(p) \/ \E j \in Jobs : NotifySchedule(p, j)
        <3>1. Settle(p) /\ call[p].stage = "notify"
            BY <2>5 DEF NotifyCancel, NotifyPassive, NotifySchedule
        <3>2. call[p].kind # "seen"
            BY <3>1 DEF CallShape
        <3> QED
            BY <2>1, <3>1, <3>2 DEF Settle
    <2> QED
        BY <1>3, <2>3, <2>4, <2>5 DEF CallStep
<1>4. CASE Restart
    BY <1>4 DEF Restart, IdleCall, Overlaps
<1> QED
    BY <1>1, <1>2, <1>3, <1>4, NextForms

-----------------------------------------------------------------------------
(* Copies of the row                                                        *)

LEMMA CopyStep ==
    TypeOK /\ CallShape /\ Overlaps /\ Copies /\ [Next]_vars => Copies'
<1> SUFFICES ASSUME TypeOK, CallShape, Overlaps, Copies, [Next]_vars PROVE Copies'
    OBVIOUS
<1> DEFINE Current(p) ==
        LET s == call[p].src IN
        /\ call[p].stage = "write" /\ call[p].kind = "seen" /\ s \notin suspect
           /\ life[s] = "stored" => call[p].row = rows[s]
        /\ call[p].stage = "notify" /\ call[p].alone =>
              IF call[p].kind = "delete" THEN life[s] = "deleted"
              ELSE life[s] = "stored" /\ call[p].row = rows[s]
<1>0. /\ \A p \in Procs : call[p] \in Call /\ call[p].src \in Sources
      /\ \A p \in Procs : Current(p)
    BY DEF TypeOK, Call, Copies
<1>1. ASSUME NEW p \in Procs, NEW s \in Sources, NEW row \in Row,
             NEW kind \in {"create", "update", "seen", "delete"},
             NEW stage \in {"write", "notify"}, EnterForm(p, kind, stage, s, row)
      PROVE  Copies'
    <2>1. /\ call'[p].kind = kind /\ call'[p].src = s /\ call'[p].stage = stage
          /\ call'[p].row = row
          /\ suspect \subseteq suspect'
          /\ \A q \in Procs \ {p} :
                /\ call'[q].kind = call[q].kind /\ call'[q].stage = call[q].stage
                /\ call'[q].src = call[q].src /\ call'[q].row = call[q].row
                /\ call'[q].alone => call[q].alone
        BY <1>1, EnterFacts DEF EnterForm
    <2>2. Current(p)'
        BY <1>1, <2>1 DEF EnterForm, TypeOK
    <2>3. ASSUME NEW q \in Procs \ {p} PROVE Current(q)'
        <3>1. CASE call[q].stage = "idle"
            BY <2>1, <3>1
        <3>2. CASE call[q].stage # "idle"
            <4>1. life[call[q].src] # "fresh"
                BY <3>2 DEF CallShape
            <4>2. /\ life'[call[q].src] = life[call[q].src]
                  /\ rows'[call[q].src] = rows[call[q].src]
                BY <1>0, <1>1, <4>1 DEF EnterForm, TypeOK
            <4> QED
                BY <1>0, <2>1, <4>2
        <3> QED
            BY <3>1, <3>2
    <2> QED
        BY <2>2, <2>3 DEF Copies
<1>2. CASE QuietForm
    BY <1>0, <1>2 DEF QuietForm, Copies
<1>3. ASSUME NEW p \in Procs, CallStep(p) PROVE Copies'
    \* An operation that returns without touching the tables, its source being
    \* cleared of suspicion only if nobody else is on it.
    <2>1. ASSUME call' = [call EXCEPT ![p] = IdleCall], UNCHANGED <<life, rows>>,
                 \/ suspect \subseteq suspect'
                 \/ /\ call[p].alone /\ call[p].kind # "seen"
                    /\ call[p].stage # "idle"
                    /\ suspect' = suspect \ {call[p].src}
          PROVE  Copies'
        <3>1. /\ call'[p].stage = "idle"
              /\ \A q \in Procs \ {p} : call'[q] = call[q]
            BY <2>1, ReturnFacts
        <3>2. ASSUME NEW q \in Procs \ {p}, call[q].stage # "idle"
              PROVE  call[q].src \in suspect => call[q].src \in suspect'
                     \/ (call[q].stage = "notify")
            <4>1. CASE suspect \subseteq suspect'
                BY <4>1
            <4>2. CASE /\ call[p].alone /\ call[p].kind # "seen"
                       /\ call[p].stage # "idle"
                       /\ suspect' = suspect \ {call[p].src}
                <5>1. call[q].src # call[p].src
                    BY <3>2, <4>2 DEF Overlaps
                <5> QED
                    BY <4>2, <5>1
            <4> QED
                BY <2>1, <4>1, <4>2
        <3>3. ASSUME NEW q \in Procs PROVE Current(q)'
            <4>1. CASE q = p \/ call[q].stage = "idle"
                BY <3>1, <4>1
            <4>2. CASE q # p /\ call[q].stage # "idle"
                BY <1>0, <2>1, <3>1, <3>2, <4>2
            <4> QED
                BY <4>1, <4>2
        <3> QED
            BY <3>3 DEF Copies
    <2>2. CASE WriteFails(p) \/ NotifySkip(p)
        BY <2>1, <2>2 DEF WriteFails, NotifySkip
    <2>3. CASE NotifyCancel(p) \/ NotifyPassive(p) \/ \E j \in Jobs : NotifySchedule(p, j)
        <3>1. Settle(p) /\ call[p].stage = "notify" /\ UNCHANGED <<life, rows>>
            BY <2>3 DEF NotifyCancel, NotifyPassive, NotifySchedule
        <3>2. call[p].kind # "seen"
            BY <3>1 DEF CallShape
        <3> QED
            BY <2>1, <3>1, <3>2 DEF Settle
    \* A write: whoever else is on the source is not alone.
    <2>4. CASE WriteRow(p) \/ DeleteRow(p)
        <3> DEFINE s == call[p].src
        <3>0. /\ call[p].stage = "write" /\ suspect' = suspect /\ s \in Sources
              /\ \A t \in Sources \ {s} : life'[t] = life[t] /\ rows'[t] = rows[t]
            BY <1>0, <2>4 DEF WriteRow, DeleteRow, TypeOK
        <3>1. \A q \in Procs \ {p} : call'[q] = call[q]
            BY <2>4, ReturnFacts, NotifyFacts DEF WriteRow, DeleteRow
        <3>2. Current(p)'
            <4>1. CASE call' = [call EXCEPT ![p] = IdleCall]
                BY <4>1, ReturnFacts
            <4>2. CASE WriteRow(p) /\ call' = [call EXCEPT ![p].stage = "notify"]
                <5>1. life'[s] = "stored" /\ rows'[s] = call[p].row
                    BY <3>0, <4>2 DEF WriteRow, TypeOK
                <5>2. call[p].kind # "delete"
                    BY <4>2 DEF WriteRow
                <5> QED
                    BY <4>2, <5>1, <5>2, NotifyFacts
            <4>3. CASE DeleteRow(p) /\ call' = [call EXCEPT ![p].stage = "notify"]
                <5>1. life'[s] = "deleted" /\ call[p].kind = "delete"
                    BY <3>0, <4>3 DEF DeleteRow, TypeOK
                <5> QED
                    BY <4>3, <5>1, NotifyFacts
            <4> QED
                BY <2>4, <4>1, <4>2, <4>3 DEF WriteRow, DeleteRow
        <3>3. ASSUME NEW q \in Procs \ {p} PROVE Current(q)'
            <4>1. CASE call[q].stage = "idle" \/ call[q].src # s
                BY <1>0, <3>0, <3>1, <4>1
            <4>2. CASE call[q].stage # "idle" /\ call[q].src = s
                <5>1. CASE call[q].kind = "seen" /\ call[p].kind = "seen"
                    <6>1. /\ call[q].stage # "notify"
                          /\ s \notin suspect /\ life[s] = "stored" =>
                                call[p].row = rows[s]
                        BY <1>0, <3>0, <5>1 DEF CallShape
                    <6>2. WriteRow(p) /\ life[s] = "stored"
                          /\ rows'[s] = call[p].row
                        BY <2>4, <3>0, <5>1 DEF WriteRow, DeleteRow, TypeOK
                    <6> QED
                        BY <1>0, <3>0, <3>1, <4>2, <6>1, <6>2
                <5>2. CASE ~(call[q].kind = "seen" /\ call[p].kind = "seen")
                    <6>1. ~call[q].alone
                        BY <3>0, <4>2, <5>2 DEF Overlaps
                    <6>2. s \in suspect
                        BY <4>2, <6>1 DEF Overlaps
                    <6> QED
                        BY <3>0, <3>1, <4>2, <6>1, <6>2
                <5> QED
                    BY <5>1, <5>2
            <4> QED
                BY <4>1, <4>2
        <3> QED
            BY <3>2, <3>3 DEF Copies
    <2> QED
        BY <1>3, <2>2, <2>3, <2>4 DEF CallStep
<1>4. CASE Restart
    BY <1>4 DEF Restart, IdleCall, Copies
<1> QED
    BY <1>1, <1>2, <1>3, <1>4, NextForms

-----------------------------------------------------------------------------
(* The schedule and the rows                                                *)

LEMMA SyncStep == IInv /\ [Next]_vars => Synced'
<1> SUFFICES ASSUME IInv, [Next]_vars PROVE Synced'
    OBVIOUS
<1> USE DEF IInv
<1>0. /\ \A p \in Procs : call[p] \in Call /\ call[p].src \in Sources
      /\ \A s \in Sources : cancels[s] # NoJob =>
            cancels[s] \in Jobs /\ ~jobs[cancels[s]].cancelled
      /\ NoJob \notin Jobs
    BY SourcesAssumption DEF TypeOK, Call, OneLiveLoop
<1>1. ASSUME NEW p \in Procs, NEW s \in Sources, NEW row \in Row,
             NEW kind \in {"create", "update", "seen", "delete"},
             NEW stage \in {"write", "notify"}, EnterForm(p, kind, stage, s, row)
      PROVE  Synced'
    <2>1. /\ call'[p].stage = stage /\ call'[p].src = s
          /\ suspect \subseteq suspect'
          /\ \A q \in Procs \ {p} : /\ call'[q].stage = call[q].stage
                                    /\ call'[q].src = call[q].src
        BY <1>1, EnterFacts DEF EnterForm
    <2>2. cancels' = cancels /\ jobs' = jobs /\ call[p].stage = "idle"
        BY <1>1 DEF EnterForm
    <2>3. ASSUME NEW t \in Sources \ suspect', ~Lagging(t)' PROVE InSync(t)'
        <3>1. t \notin suspect /\ ~Lagging(t)
            BY <2>1, <2>2, <2>3 DEF Lagging
        <3>2. InSync(t)
            BY <3>1 DEF Synced
        <3>3. stage = "notify" => t # s
            BY <2>1, <2>3 DEF Lagging
        <3>4. life'[t] = life[t] /\ rows'[t] = rows[t]
            BY <1>1, <3>3 DEF EnterForm, TypeOK
        <3> QED
            BY <2>2, <3>2, <3>4 DEF InSync
    <2> QED
        BY <2>2, <2>3 DEF Synced
<1>2. CASE QuietForm
    <2>1. \A s \in Sources : cancels[s] # NoJob => jobs'[cancels[s]] = jobs[cancels[s]]
        BY <1>0, <1>2 DEF QuietForm
    <2>2. UNCHANGED <<life, rows, call, cancels, suspect>>
        BY <1>2 DEF QuietForm
    <2> QED
        BY <2>1, <2>2 DEF Synced, Lagging, InSync
<1>3. ASSUME NEW p \in Procs, CallStep(p) PROVE Synced'
    <2> PICK s \in Sources : s = call[p].src
        BY <1>0
    <2>0. s \in Sources
        OBVIOUS
    \* Operations whose hook does not run.
    <2>1. CASE WriteFails(p)
        <3>1. /\ call[p].stage = "write"
              /\ UNCHANGED <<life, rows, jobs, cancels, suspect>>
              /\ call' = [call EXCEPT ![p] = IdleCall]
            BY <2>1 DEF WriteFails
        <3>2. \A t \in Sources : Lagging(t) => Lagging(t)'
            BY <3>1, ReturnFacts DEF Lagging
        <3> QED
            BY <3>1, <3>2 DEF Synced, InSync
    <2>2. CASE WriteRow(p) /\ call[p].kind = "seen"
        <3>1. /\ call[p].stage = "write" /\ life[s] = "stored"
              /\ UNCHANGED <<life, jobs, cancels, suspect>>
              /\ rows' = [rows EXCEPT ![s] = call[p].row]
              /\ call' = [call EXCEPT ![p] = IdleCall]
            BY <2>2 DEF WriteRow
        <3>2. \A t \in Sources : Lagging(t) => Lagging(t)'
            BY <3>1, ReturnFacts DEF Lagging
        <3>3. s \notin suspect => rows' = rows
            BY <2>0, <2>2, <3>1 DEF Copies, TypeOK
        <3>4. \A t \in Sources \ {s} : rows'[t] = rows[t]
            BY <3>1 DEF TypeOK
        <3>5. ASSUME NEW t \in Sources \ suspect', ~Lagging(t)' PROVE InSync(t)'
            <4>1. InSync(t) /\ rows'[t] = rows[t]
                BY <3>1, <3>2, <3>3, <3>4, <3>5 DEF Synced
            <4> QED
                BY <3>1, <4>1 DEF InSync
        <3> QED
            BY <3>1, <3>5 DEF Synced
    \* Writes with a hook still to run.
    <2>3. CASE DeleteRow(p) \/ (WriteRow(p) /\ call[p].kind # "seen")
        <3>1. /\ UNCHANGED <<jobs, cancels, suspect>>
              /\ call' = [call EXCEPT ![p].stage = "notify"]
              /\ \A t \in Sources \ {s} : life'[t] = life[t] /\ rows'[t] = rows[t]
            BY <2>3 DEF DeleteRow, WriteRow, TypeOK
        <3>2. Lagging(s)' /\ \A t \in Sources : Lagging(t) => Lagging(t)'
            BY <3>1, NotifyFacts DEF Lagging
        <3>3. ASSUME NEW t \in Sources \ suspect', ~Lagging(t)' PROVE InSync(t)'
            <4>1. InSync(t) /\ t # s
                BY <3>1, <3>2, <3>3 DEF Synced
            <4> QED
                BY <3>1, <4>1 DEF InSync
        <3> QED
            BY <3>1, <3>3 DEF Synced
    \* The hook: a source other than s keeps its schedule, and s is either
    \* suspect still or in step with the copy, which is the row.
    <2>4. ASSUME Settle(p), call[p].stage = "notify", UNCHANGED <<life, rows>>,
                 \A t \in Sources \ {s} :
                    /\ cancels'[t] = cancels[t]
                    /\ cancels[t] # NoJob =>
                          jobs'[cancels[t]].config = jobs[cancels[t]].config,
                 s \notin PullSources => cancels'[s] = NoJob,
                 IF Wanted(call[p].kind, s, call[p].row)
                 THEN cancels'[s] # NoJob
                      /\ jobs'[cancels'[s]].config = call[p].row.config
                 ELSE cancels'[s] = NoJob
          PROVE  Synced'
        <3>1. /\ call' = [call EXCEPT ![p] = IdleCall]
              /\ suspect' = IF call[p].alone THEN suspect \ {s} ELSE suspect
            BY <2>4 DEF Settle
        <3>2. /\ call'[p].stage = "idle"
              /\ \A q \in Procs \ {p} : call'[q] = call[q]
            BY <3>1, ReturnFacts
        <3>3. ASSUME NEW t \in Sources \ suspect', ~Lagging(t)', t # s
              PROVE  InSync(t)'
            <4>1. t \notin suspect /\ ~Lagging(t)
                BY <3>1, <3>2, <3>3 DEF Lagging
            <4>2. InSync(t)
                BY <4>1 DEF Synced
            <4> QED
                BY <2>4, <3>3, <4>2 DEF InSync
        <3>4. ASSUME s \notin suspect' PROVE InSync(s)'
            <4>1. call[p].alone
                <5>1. CASE s \notin suspect
                    BY <2>4, <5>1 DEF Overlaps
                <5>2. CASE s \in suspect
                    BY <3>1, <3>4, <5>2
                <5> QED
                    BY <5>1, <5>2
            <4>2. IF call[p].kind = "delete" THEN life[s] = "deleted"
                  ELSE life[s] = "stored" /\ call[p].row = rows[s]
                BY <2>4, <4>1 DEF Copies
            <4>3. Wanted(call[p].kind, s, call[p].row)
                    <=> life[s] = "stored" /\ rows[s].enabled /\ s \in PullSources
                BY <4>2 DEF Wanted
            <4>4. life'[s] = life[s] /\ rows'[s] = rows[s]
                BY <2>4
            <4>5. CASE Wanted(call[p].kind, s, call[p].row)
                <5>1. call[p].row = rows[s]
                    BY <4>2, <4>5 DEF Wanted
                <5> QED
                    BY <2>4, <4>3, <4>4, <4>5, <5>1 DEF InSync
            <4>6. CASE ~Wanted(call[p].kind, s, call[p].row)
                BY <2>4, <4>3, <4>4, <4>6 DEF InSync
            <4> QED
                BY <4>5, <4>6
        <3>5. \A t \in Sources \ PullSources : cancels'[t] = NoJob
            BY <2>4 DEF Synced
        <3>6. ASSUME NEW t \in Sources \ suspect', ~Lagging(t)' PROVE InSync(t)'
            BY <3>3, <3>4, <3>6
        <3> QED
            BY <3>5, <3>6 DEF Synced
    <2>5. CASE NotifyCancel(p)
        <3>1. /\ Settle(p) /\ call[p].stage = "notify" /\ UNCHANGED <<life, rows>>
              /\ cancels' = [cancels EXCEPT ![s] = NoJob]
              /\ ~Wanted(call[p].kind, s, call[p].row)
            BY <2>5 DEF NotifyCancel, Wanted
        <3>2. \A j \in Jobs : jobs'[j].config = jobs[j].config
            BY <2>5 DEF NotifyCancel, TypeOK, Job
        <3>3. cancels'[s] = NoJob
              /\ \A t \in Sources \ {s} : cancels'[t] = cancels[t]
            BY <2>0, <3>1 DEF TypeOK
        <3> QED
            BY <1>0, <2>4, <3>1, <3>2, <3>3
    <2>6. ASSUME NEW j \in Jobs, NotifySchedule(p, j) PROVE Synced'
        <3>1. /\ Settle(p) /\ call[p].stage = "notify" /\ UNCHANGED <<life, rows>>
              /\ cancels' = [cancels EXCEPT ![s] = j]
              /\ Wanted(call[p].kind, s, call[p].row) /\ s \in PullSources
              /\ run[j].pc = "off"
            BY <2>6 DEF NotifySchedule, Wanted
        <3>2. /\ jobs'[j].config = call[p].row.config
              /\ \A k \in Jobs \ {j} : jobs'[k].config = jobs[k].config
            BY <2>6 DEF NotifySchedule, TypeOK, Job
        <3>3. /\ cancels'[s] = j
              /\ \A t \in Sources \ {s} : cancels'[t] = cancels[t]
            BY <2>0, <3>1 DEF TypeOK
        <3>4. \A t \in Sources : cancels[t] # NoJob => cancels[t] # j
            BY <3>1 DEF OneLiveLoop
        <3> QED
            BY <1>0, <2>4, <3>1, <3>2, <3>3, <3>4
    <2>7. CASE NotifyPassive(p)
        <3>1. /\ Settle(p) /\ call[p].stage = "notify"
              /\ UNCHANGED <<life, rows, jobs, cancels>>
              /\ s \notin PullSources
            BY <2>7 DEF NotifyPassive
        <3>2. cancels[s] = NoJob /\ ~Wanted(call[p].kind, s, call[p].row)
            BY <2>0, <3>1 DEF Synced, Wanted
        <3> QED
            BY <2>4, <3>1, <3>2
    <2>8. CASE NotifySkip(p)
        <3>1. /\ suspect' = suspect \cup {s}
              /\ UNCHANGED <<life, rows, jobs, cancels>>
              /\ call' = [call EXCEPT ![p] = IdleCall]
            BY <2>8 DEF NotifySkip
        <3>2. \A q \in Procs \ {p} : call'[q] = call[q]
            BY <3>1, ReturnFacts
        <3>3. \A t \in Sources \ {s} : Lagging(t) => Lagging(t)'
            BY <3>2 DEF Lagging
        <3> QED
            BY <3>1, <3>3 DEF Synced, InSync
    <2> QED
        BY <1>3, <2>1, <2>2, <2>3, <2>5, <2>6, <2>7, <2>8 DEF CallStep, WriteRow
<1>4. ASSUME Restart PROVE Synced'
    <2> PICK start \in [Sources -> Jobs \cup {NoJob}] : Restart!(start)
        BY <1>4 DEF Restart
    <2> DEFINE due == {s \in PullSources : life[s] = "stored" /\ rows[s].enabled}
               got == {s \in Sources : start[s] # NoJob}
    <2>1. cancels' = start /\ UNCHANGED <<life, rows>> /\ suspect' = due \ got
          /\ got \subseteq due /\ due \subseteq PullSources
        OBVIOUS
    <2>2. ASSUME NEW s \in got
          PROVE  start[s] \in Jobs /\ jobs'[start[s]].config = rows[s].config
        <3>1. start[s] \in Jobs
            OBVIOUS
        <3>2. (CHOOSE t \in got : start[t] = start[s]) = s
            OBVIOUS
        <3> QED
            BY <3>1, <3>2
    <2>3. ASSUME NEW s \in Sources \ suspect' PROVE InSync(s)'
        <3>1. CASE s \in due
            <4>1. s \in got
                BY <2>1, <2>3, <3>1
            <4> QED
                BY <1>0, <2>1, <2>2, <3>1, <4>1 DEF InSync
        <3>2. CASE s \notin due
            BY <2>1, <2>3, <3>2 DEF InSync
        <3> QED
            BY <3>1, <3>2
    <2>4. \A s \in Sources \ PullSources : cancels'[s] = NoJob
        BY <2>1
    <2> QED
        BY <2>3, <2>4 DEF Synced
<1> QED
    BY <1>1, <1>2, <1>3, <1>4, NextForms

-----------------------------------------------------------------------------
(* The theorems                                                             *)

LEMMA InductiveInit == Init => IInv
<1> SUFFICES ASSUME Init PROVE IInv
    OBVIOUS
<1>1. TypeOK /\ OneLiveLoop
    BY TypeInit, LoopInit
<1>2. CallShape /\ Overlaps /\ Copies
    <2>1. \A p \in Procs : call[p].stage = "idle"
        BY DEF Init, IdleCall
    <2>2. Jobs \subseteq Procs
        BY DEF Procs
    <2> QED
        BY <2>1, <2>2 DEF CallShape, Overlaps, Copies
<1>3. Synced
    BY DEF Init, Synced, InSync
<1> QED
    BY <1>1, <1>2, <1>3 DEF IInv

LEMMA InductiveStep == IInv /\ [Next]_vars => IInv'
<1> SUFFICES ASSUME IInv, [Next]_vars PROVE IInv'
    OBVIOUS
<1>1. TypeOK' /\ OneLiveLoop'
    BY TypeStep, LoopStep DEF IInv
<1>2. CallShape' /\ Overlaps' /\ Copies'
    BY ShapeStep, OverlapStep, CopyStep DEF IInv
<1> QED
    BY <1>1, <1>2, SyncStep DEF IInv

LEMMA Inductive == Spec => []IInv
<1> QED
    BY InductiveInit, InductiveStep, PTL DEF Spec

\* While no operation with a hook is on a source, its schedule matches its row,
\* unless operations on it overlapped or a reconcile was skipped and none has had
\* it alone since.
THEOREM InSyncUnlessOverlap == Spec => []InSyncUnlessSuspect
<1>1. IInv => InSyncUnlessSuspect
    <2> SUFFICES ASSUME IInv, NEW s \in Sources \ suspect, ~Busy(s) PROVE InSync(s)
        BY DEF InSyncUnlessSuspect
    <2>1. ~Lagging(s)
        BY DEF IInv, CallShape, Lagging, Busy, InFlight
    <2> QED
        BY <2>1 DEF IInv, Synced
<1> QED
    BY <1>1, Inductive, PTL

\* No write brings a deleted source back.
THEOREM DeletionIsFinal == Spec => DeletedStaysDeleted
<1>1. TypeOK /\ [Next]_vars =>
        [\A s \in Sources : life[s] = "deleted" => life'[s] = "deleted"]_vars
    <2> SUFFICES ASSUME TypeOK, [Next]_vars, NEW s \in Sources, life[s] = "deleted"
                 PROVE  life'[s] = "deleted"
        OBVIOUS
    <2>1. ASSUME NEW c \in Callers, CallerStep(c) PROVE life'[s] = "deleted"
        BY <2>1 DEF CallerStep, Create, BeginUpdate, BeginDelete, BeginSeen, TypeOK
    <2>2. ASSUME NEW p \in Procs, CallStep(p) PROVE life'[s] = "deleted"
        BY <2>2 DEF CallStep, WriteFails, WriteRow, DeleteRow, NotifyCancel,
           NotifySchedule, NotifyPassive, NotifySkip, TypeOK
    <2>3. ASSUME NEW j \in Jobs, PullStep(j) PROVE life'[s] = "deleted"
        BY <2>3 DEF PullStep, Spawn, ReadValid, IngestFails, ReadAlert,
           ReadInvalid, AutoDisable, Exit, Hang, Killed, Report, StaySilent, EndLoop
    <2>4. CASE Restart
        BY <2>4 DEF Restart
    <2>5. CASE UNCHANGED vars
        BY <2>5 DEF vars
    <2> QED
        BY <2>1, <2>2, <2>3, <2>4, <2>5 DEF Next
<1> QED
    BY <1>1, TypeCorrect, PTL DEF Spec, DeletedStaysDeleted

\* A step that a cancelled loop takes writes nothing: a pull that outlives its
\* Disable or Delete cannot mark the source.
THEOREM CancelledLoopsAreSilent == Spec => CancelledLoopIsSilent
<1> DEFINE Silent == \A j \in Jobs :
                        /\ jobs[j].cancelled
                        /\ call'[j] # call[j] \/ run'[j] # run[j]
                        => rows' = rows /\ life' = life
<1>1. IInv /\ [Next]_vars => [Silent]_vars
    <2> SUFFICES ASSUME IInv, [Next]_vars, NEW j \in Jobs, jobs[j].cancelled,
                        call'[j] # call[j] \/ run'[j] # run[j]
                 PROVE  rows' = rows /\ life' = life
        OBVIOUS
    <2>0. /\ TypeOK /\ CallShape
          /\ \A p \in Procs : call[p] \in Call
          /\ j \in Procs
        BY DEF IInv, TypeOK, Procs
    <2>1. ASSUME NEW c \in Callers, CallerStep(c) PROVE rows' = rows /\ life' = life
        <3> PICK s \in Sources :
                \/ \E cfg \in Configs : Create(c, s, cfg)
                \/ \E p \in Patch : BeginUpdate(c, s, p)
                \/ BeginDelete(c, s)
                \/ BeginSeen(c, s)
            BY <2>1 DEF CallerStep
        \* Nobody is inside an operation on a source that is yet to be created.
        <3>1. ASSUME NEW cfg \in Configs, Create(c, s, cfg) PROVE FALSE
            <4>1. /\ life[s] = "fresh" /\ run' = run
                  /\ Enter(c, "create", "notify", s, NewRow(cfg))
                BY <3>1 DEF Create
            <4>2. Conflicts("create", s) = {}
                BY <2>0, <4>1 DEF Conflicts, InFlight, CallShape
            <4>3. c \in Procs /\ j # c
                BY SourcesAssumption DEF Procs
            <4>4. call'[j] = call[j]
                BY <2>0, <4>1, <4>2, <4>3 DEF Enter
            <4> QED
                BY <4>1, <4>4
        <3> QED
            BY <3>1 DEF BeginUpdate, BeginDelete, BeginSeen
    <2>2. ASSUME NEW p \in Procs, CallStep(p) PROVE rows' = rows /\ life' = life
        <3>1. CASE WriteRow(p) \/ DeleteRow(p)
            <4>1. p # j
                BY <3>1 DEF WriteRow, DeleteRow, Cancelled
            <4>2. /\ \/ call' = [call EXCEPT ![p].stage = "notify"]
                     \/ call' = [call EXCEPT ![p] = IdleCall]
                  /\ run' = run \/ run' = Resumed(p)
                BY <3>1 DEF WriteRow, DeleteRow
            <4>3. call'[j] = call[j]
                BY <2>0, <4>1, <4>2, ReturnFacts, NotifyFacts
            <4>4. run'[j] = run[j]
                BY <2>0, <4>1, <4>2 DEF Resumed, TypeOK
            <4> QED
                BY <4>3, <4>4
        <3>2. CASE ~(WriteRow(p) \/ DeleteRow(p))
            BY <2>2, <3>2 DEF CallStep, WriteFails, NotifyCancel, NotifySchedule,
               NotifyPassive, NotifySkip
        <3> QED
            BY <3>1, <3>2
    <2>3. ASSUME NEW k \in Jobs, PullStep(k) PROVE rows' = rows /\ life' = life
        BY <2>3 DEF PullStep, Spawn, ReadValid, IngestFails, ReadAlert,
           ReadInvalid, AutoDisable, Exit, Hang, Killed, Report, StaySilent, EndLoop
    <2>4. CASE Restart
        BY <2>4 DEF Restart
    <2>5. CASE UNCHANGED vars
        BY <2>5 DEF vars
    <2> QED
        BY <2>1, <2>2, <2>3, <2>4, <2>5 DEF Next
<1> QED
    BY <1>1, Inductive, PTL DEF Spec, CancelledLoopIsSilent

-----------------------------------------------------------------------------
(* The abstract schedule                                                    *)

\* The loop of a source is the one its entry names, so the configs of its live loops
\* are that loop's config, or none.
EntriesTell == \A s \in Sources :
    LiveConfigs(s) = IF cancels[s] = NoJob THEN {} ELSE {jobs[cancels[s]].config}

LEMMA LiveConfigsIs == TypeOK /\ OneLiveLoop => EntriesTell
<1> SUFFICES ASSUME TypeOK, OneLiveLoop, NEW s \in Sources
             PROVE  LiveConfigs(s) = IF cancels[s] = NoJob THEN {}
                                     ELSE {jobs[cancels[s]].config}
    BY DEF EntriesTell
<1>1. ASSUME NEW j \in Jobs, jobs[j].src = s, ~jobs[j].cancelled PROVE cancels[s] = j
    BY <1>1 DEF OneLiveLoop
<1>2. CASE cancels[s] = NoJob
    <2>1. {i \in Jobs : jobs[i].src = s /\ ~jobs[i].cancelled} = {}
        BY <1>1, <1>2, SourcesAssumption
    <2> QED
        BY <1>2, <2>1 DEF LiveConfigs
<1>3. CASE cancels[s] # NoJob
    <2>1. cancels[s] \in Jobs /\ jobs[cancels[s]].src = s /\ ~jobs[cancels[s]].cancelled
        BY <1>3 DEF TypeOK, OneLiveLoop
    <2>2. {i \in Jobs : jobs[i].src = s /\ ~jobs[i].cancelled} = {cancels[s]}
        BY <1>1, <2>1
    <2> QED
        BY <1>3, <2>2 DEF LiveConfigs
<1> QED
    BY <1>2, <1>3

\* A row is a row of the abstract table.
LEMMA RowIs == Sched!Row = Row
BY DEF Sched!Row, Row

LEMMA SchedInit == Init => Sched!Init
<1> SUFFICES ASSUME Init PROVE Sched!Init
    OBVIOUS
<1>1. \A s \in Sources : LiveConfigs(s) = {}
    BY DEF Init, LiveConfigs, NoRun
<1>2. \A s \in Sources : Owed(s) = {} /\ Held(s) = {}
    BY DEF Init, Owed, Held, IdleCall
<1>3. rows \in [Sources -> Sched!Row]
    BY Constants DEF Init, NewRow, Sched!Row
<1> QED
    BY <1>1, <1>2, <1>3 DEF Init, Sched!Init

\* What one process does to the calls owed for a source and to the rows held for it,
\* when the others stay as they are but for `alone`.
Stays(q) == /\ call'[q].kind = call[q].kind /\ call'[q].stage = call[q].stage
            /\ call'[q].src = call[q].src /\ call'[q].row = call[q].row
Owes(p, t) == call[p].stage = "notify" /\ call[p].src = t
Holds(p, t) == call[p].stage = "write" /\ call[p].src = t /\ call[p].kind = "seen"

LEMMA OwedFacts ==
    ASSUME NEW p \in Procs, NEW t \in Sources, \A q \in Procs \ {p} : Stays(q)
    PROVE  /\ ~Owes(p, t) /\ ~Owes(p, t)' => Owed(t)' = Owed(t)
           /\ ~Owes(p, t) /\ Owes(p, t)' => Owed(t)' = Owed(t) \cup {Asks(call'[p])}
           /\ Owes(p, t) /\ ~Owes(p, t)' =>
                 /\ Asks(call[p]) \in Owed(t)
                 /\ Owed(t)' \in {Owed(t), Owed(t) \ {Asks(call[p])}}
<1> DEFINE Rest == {Asks(call[q]) : q \in {r \in Procs \ {p} : /\ call[r].src = t
                                                             /\ call[r].stage = "notify"}}
<1>1. \A q \in Procs \ {p} : Asks(call'[q]) = Asks(call[q])
    BY DEF Stays, Asks, Wanted
<1>2. Rest' = Rest
    <2>1. {r \in Procs \ {p} : call'[r].src = t /\ call'[r].stage = "notify"}
            = {r \in Procs \ {p} : call[r].src = t /\ call[r].stage = "notify"}
        BY DEF Stays
    <2>2. \A r \in Procs : Asks(call[r])' = Asks(call'[r])
        BY DEF Asks
    <2> QED
        BY <1>1, <2>1, <2>2
<1>3. Owed(t) = Rest \cup (IF Owes(p, t) THEN {Asks(call[p])} ELSE {})
    BY DEF Owed, Owes
<1>4. Owed(t)' = Rest' \cup (IF Owes(p, t)' THEN {Asks(call'[p])} ELSE {})
    BY DEF Owed, Owes, Asks
<1> HIDE DEF Rest
<1> QED
    BY <1>2, <1>3, <1>4

LEMMA HeldFacts ==
    ASSUME NEW p \in Procs, NEW t \in Sources, \A q \in Procs \ {p} : Stays(q)
    PROVE  /\ ~Holds(p, t) /\ ~Holds(p, t)' => Held(t)' = Held(t)
           /\ ~Holds(p, t) /\ Holds(p, t)' => Held(t)' = Held(t) \cup {call'[p].row}
           /\ Holds(p, t) /\ ~Holds(p, t)' =>
                 /\ call[p].row \in Held(t)
                 /\ Held(t)' \in {Held(t), Held(t) \ {call[p].row}}
<1> DEFINE Rest == {call[q].row : q \in {r \in Procs \ {p} : /\ call[r].src = t
                                                           /\ call[r].stage = "write"
                                                           /\ call[r].kind = "seen"}}
<1>1. Rest' = Rest
    <2>1. {r \in Procs \ {p} : /\ call'[r].src = t /\ call'[r].stage = "write"
                               /\ call'[r].kind = "seen"}
            = {r \in Procs \ {p} : /\ call[r].src = t /\ call[r].stage = "write"
                                   /\ call[r].kind = "seen"}
        BY DEF Stays
    <2> QED
        BY <2>1 DEF Stays
<1>2. Held(t) = Rest \cup (IF Holds(p, t) THEN {call[p].row} ELSE {})
    BY DEF Held, Holds
<1>3. Held(t)' = Rest' \cup (IF Holds(p, t)' THEN {call'[p].row} ELSE {})
    BY DEF Held, Holds
<1> HIDE DEF Rest
<1> QED
    BY <1>1, <1>2, <1>3

LEMMA EntriesStillTell == IInv' => EntriesTell'
<1>1. TypeOK' /\ OneLiveLoop' => EntriesTell'
    BY LiveConfigsIs, PTL
<1> QED
    BY <1>1 DEF IInv

\* The loop of a source whose entry, and whose entry's config, stay is as it was.
LEMMA LoopsStay ==
    ASSUME IInv, IInv', NEW t \in Sources, cancels'[t] = cancels[t],
           cancels[t] # NoJob => jobs'[cancels[t]].config = jobs[cancels[t]].config
    PROVE  LiveConfigs(t)' = LiveConfigs(t)
<1>1. LiveConfigs(t) = IF cancels[t] = NoJob THEN {} ELSE {jobs[cancels[t]].config}
    BY LiveConfigsIs DEF IInv, EntriesTell
<1>2. LiveConfigs(t)' = IF cancels'[t] = NoJob THEN {} ELSE {jobs'[cancels'[t]].config}
    BY EntriesStillTell DEF EntriesTell
<1> QED
    BY <1>1, <1>2

\* The abstract variables are told source by source.
LEMMA SchedStutter ==
    ASSUME UNCHANGED <<life, rows>>,
           \A t \in Sources : /\ LiveConfigs(t)' = LiveConfigs(t)
                              /\ Owed(t)' = Owed(t) /\ Held(t)' = Held(t)
    PROVE  UNCHANGED Sched!vars
BY DEF Sched!vars

\* Entering an operation is a Create, a Read, or nothing the schedule knows of.
LEMMA SchedEnter ==
    ASSUME IInv, IInv', NEW p \in Procs, NEW s \in Sources, NEW row \in Row,
           NEW kind \in {"create", "update", "seen", "delete"},
           NEW stage \in {"write", "notify"}, EnterForm(p, kind, stage, s, row)
    PROVE  [Sched!Next]_(Sched!vars)
<1>0. TypeOK
    BY DEF IInv
<1>1. /\ call[p].stage = "idle"
      /\ call'[p].kind = kind /\ call'[p].stage = stage /\ call'[p].src = s
      /\ call'[p].row = row
    BY <1>0, EnterFacts DEF EnterForm
<1>2. \A q \in Procs \ {p} : Stays(q)
    BY <1>0, EnterFacts DEF EnterForm, Stays
<1>3. \A t \in Sources : LiveConfigs(t)' = LiveConfigs(t)
    BY LoopsStay DEF EnterForm
<1>4. \A t \in Sources : ~Owes(p, t) /\ ~Holds(p, t)
    BY <1>1 DEF Owes, Holds
<1>5. CASE kind = "create"
    <2>1. /\ stage = "notify" /\ life[s] = "fresh"
          /\ life' = [life EXCEPT ![s] = "stored"]
          /\ rows' = [rows EXCEPT ![s] = row]
        BY <1>5 DEF EnterForm
    <2>2. \A t \in Sources : ~Holds(p, t)' /\ (Owes(p, t)' <=> t = s)
        BY <1>1, <2>1 DEF Owes, Holds
    <2>3. \A t \in Sources : Held(t)' = Held(t)
        BY <1>2, <1>4, <2>2, HeldFacts
    <2>4. Owed(s)' = Owed(s) \cup {Asks(call'[p])}
          /\ \A t \in Sources \ {s} : Owed(t)' = Owed(t)
        BY <1>2, <1>4, <2>2, OwedFacts
    <2>5. Asks(call'[p]) = Sched!Wants(s, row)
        BY <1>1, <1>5 DEF Asks, Wanted, Sched!Wants
    <2>6. Sched!Create(s, row)
        BY <1>3, <2>1, <2>3, <2>4, <2>5 DEF Sched!Create, Sched!Owe
    <2> QED
        BY <2>6, RowIs DEF Sched!Next
<1>6. CASE kind # "create"
    <2>1. /\ stage = "write" /\ life[s] = "stored" /\ UNCHANGED <<life, rows>>
          /\ kind = "seen" => row = rows[s]
        BY <1>6 DEF EnterForm
    <2>2. \A t \in Sources : /\ ~Owes(p, t)'
                             /\ Holds(p, t)' <=> t = s /\ kind = "seen"
        BY <1>1, <2>1 DEF Owes, Holds
    <2>3. \A t \in Sources : Owed(t)' = Owed(t)
        BY <1>2, <1>4, <2>2, OwedFacts
    <2>4. CASE kind = "seen"
        <3>1. Held(s)' = Held(s) \cup {rows[s]}
              /\ \A t \in Sources \ {s} : Held(t)' = Held(t)
            BY <1>1, <1>2, <1>4, <2>1, <2>2, <2>4, HeldFacts
        <3>2. Sched!Read(s)
            BY <1>3, <2>1, <2>3, <3>1 DEF Sched!Read
        <3> QED
            BY <3>2 DEF Sched!Next
    <2>5. CASE kind # "seen"
        <3>1. \A t \in Sources : Held(t)' = Held(t)
            BY <1>2, <1>4, <2>2, <2>5, HeldFacts
        <3> QED
            BY <1>3, <2>1, <2>3, <3>1, SchedStutter
    <2> QED
        BY <2>4, <2>5
<1> QED
    BY <1>5, <1>6

\* An operation's write is an Update, a Delete or a Mark, or it gives up; its hook is a
\* Reconcile or a Skip with what that operation has written.
LEMMA SchedCall ==
    ASSUME IInv, IInv', NEW p \in Procs, CallStep(p)
    PROVE  [Sched!Next]_(Sched!vars)
<1> PICK s \in Sources : s = call[p].src
    BY DEF IInv, TypeOK, Call
<1> DEFINE row == call[p].row
<1>0. TypeOK /\ OneLiveLoop /\ Synced /\ call[p] \in Call /\ row \in Row
    BY DEF IInv, TypeOK, Call
<1>1. \A t \in Sources : /\ Owes(p, t) => t = s
                         /\ Holds(p, t) => t = s
    BY DEF Owes, Holds
<1>a. \A t \in Sources : LiveConfigs(t) = IF cancels[t] = NoJob THEN {}
                                          ELSE {jobs[cancels[t]].config}
    BY <1>0, LiveConfigsIs DEF EntriesTell
<1>b. \A t \in Sources : LiveConfigs(t)' = IF cancels'[t] = NoJob THEN {}
                                           ELSE {jobs'[cancels'[t]].config}
    BY EntriesStillTell DEF EntriesTell
\* What returning from a call, and going on to its hook, do to the abstract variables.
<1>2. ASSUME call' = [call EXCEPT ![p] = IdleCall]
      PROVE  /\ \A t \in Sources \ {s} : Owed(t)' = Owed(t) /\ Held(t)' = Held(t)
             /\ call[p].stage = "notify" =>
                   /\ Held(s)' = Held(s) /\ Asks(call[p]) \in Owed(s)
                   /\ Owed(s)' \in {Owed(s), Owed(s) \ {Asks(call[p])}}
             /\ call[p].stage = "write" => Owed(s)' = Owed(s)
             /\ call[p].stage = "write" /\ call[p].kind # "seen" => Held(s)' = Held(s)
             /\ call[p].stage = "write" /\ call[p].kind = "seen" =>
                   /\ row \in Held(s)
                   /\ Held(s)' \in {Held(s), Held(s) \ {row}}
    <2>1. \A q \in Procs \ {p} : Stays(q)
        BY <1>0, <1>2, ReturnFacts DEF Stays
    <2>2. \A t \in Sources : ~Owes(p, t)' /\ ~Holds(p, t)'
        BY <1>0, <1>2, ReturnFacts DEF Owes, Holds
    <2>3. \A t \in Sources \ {s} : Owed(t)' = Owed(t) /\ Held(t)' = Held(t)
        BY <1>1, <2>1, <2>2, OwedFacts, HeldFacts
    <2>4. /\ ~Owes(p, s) => Owed(s)' = Owed(s)
          /\ Owes(p, s) => /\ Asks(call[p]) \in Owed(s)
                           /\ Owed(s)' \in {Owed(s), Owed(s) \ {Asks(call[p])}}
        BY <2>1, <2>2, OwedFacts
    <2>5. /\ ~Holds(p, s) => Held(s)' = Held(s)
          /\ Holds(p, s) => /\ row \in Held(s)
                            /\ Held(s)' \in {Held(s), Held(s) \ {row}}
        BY <2>1, <2>2, HeldFacts
    <2> QED
        BY <2>3, <2>4, <2>5 DEF Owes, Holds
<1>3. ASSUME call' = [call EXCEPT ![p].stage = "notify"], call[p].stage = "write",
             call[p].kind # "seen"
      PROVE  /\ \A t \in Sources : Held(t)' = Held(t)
             /\ \A t \in Sources \ {s} : Owed(t)' = Owed(t)
             /\ Owed(s)' = Owed(s) \cup {Asks(call[p])}
    <2>1. \A q \in Procs \ {p} : Stays(q)
        BY <1>0, <1>3, NotifyFacts DEF Stays
    <2>2. /\ call'[p].stage = "notify" /\ call'[p].src = s
          /\ call'[p].kind = call[p].kind /\ call'[p].row = row
        BY <1>0, <1>3, NotifyFacts
    <2>3. \A t \in Sources : /\ ~Holds(p, t) /\ ~Holds(p, t)' /\ ~Owes(p, t)
                             /\ Owes(p, t)' <=> t = s
        BY <1>3, <2>2 DEF Owes, Holds
    <2>4. Asks(call'[p]) = Asks(call[p])
        BY <2>2 DEF Asks, Wanted
    <2> QED
        BY <2>1, <2>3, <2>4, OwedFacts, HeldFacts
<1>4. Asks(call[p]) = IF call[p].kind = "delete" THEN {} ELSE Sched!Wants(s, row)
    BY DEF Asks, Wanted, Sched!Wants
<1>5. CASE WriteFails(p)
    <2>1. /\ call[p].stage = "write" /\ call' = [call EXCEPT ![p] = IdleCall]
          /\ UNCHANGED <<life, rows, jobs, cancels>>
        BY <1>5 DEF WriteFails
    <2>2. \A t \in Sources : LiveConfigs(t)' = LiveConfigs(t) /\ Owed(t)' = Owed(t)
        BY <1>2, <2>1, LoopsStay
    <2>3. CASE call[p].kind = "seen"
        <3>1. Sched!GiveUp(s, row)
            BY <1>2, <2>1, <2>2, <2>3 DEF Sched!GiveUp, Sched!LetGo
        <3>2. row \in Held(s)
            BY <1>2, <2>1, <2>3
        <3> QED
            BY <3>1, <3>2 DEF Sched!Next
    <2>4. CASE call[p].kind # "seen"
        BY <1>2, <2>1, <2>2, <2>4, SchedStutter
    <2> QED
        BY <2>3, <2>4
<1>6. CASE WriteRow(p)
    <2>1. /\ call[p].stage = "write" /\ life[s] = "stored"
          /\ UNCHANGED <<life, jobs, cancels>>
          /\ rows' = [rows EXCEPT ![s] = row]
        BY <1>6 DEF WriteRow
    <2>2. \A t \in Sources : LiveConfigs(t)' = LiveConfigs(t)
        BY <2>1, LoopsStay
    <2>3. CASE call[p].kind = "seen"
        <3>1. call' = [call EXCEPT ![p] = IdleCall]
            BY <1>6, <2>3 DEF WriteRow
        <3>2. Sched!Mark(s, row) /\ row \in Held(s)
            BY <1>2, <2>1, <2>2, <2>3, <3>1 DEF Sched!Mark, Sched!LetGo
        <3> QED
            BY <3>2 DEF Sched!Next
    <2>4. CASE call[p].kind = "update"
        <3>1. call' = [call EXCEPT ![p].stage = "notify"]
            BY <1>6, <2>4 DEF WriteRow
        <3>2. Sched!Update(s, row)
            BY <1>3, <1>4, <2>1, <2>2, <2>4, <3>1 DEF Sched!Update, Sched!Owe
        <3> QED
            BY <1>0, <3>2, RowIs DEF Sched!Next
    <2> QED
        BY <1>6, <2>3, <2>4 DEF WriteRow
<1>7. CASE DeleteRow(p)
    <2>1. /\ call[p].stage = "write" /\ call[p].kind = "delete" /\ life[s] = "stored"
          /\ UNCHANGED <<rows, jobs, cancels>>
          /\ life' = [life EXCEPT ![s] = "deleted"]
          /\ call' = [call EXCEPT ![p].stage = "notify"]
        BY <1>7 DEF DeleteRow
    <2>2. \A t \in Sources : LiveConfigs(t)' = LiveConfigs(t)
        BY <2>1, LoopsStay
    <2>3. Sched!Delete(s)
        BY <1>3, <1>4, <2>1, <2>2 DEF Sched!Delete, Sched!Owe
    <2> QED
        BY <2>3 DEF Sched!Next
<1>8. CASE NotifyCancel(p)
    <2>1. /\ call[p].stage = "notify" /\ Asks(call[p]) = {}
          /\ UNCHANGED <<life, rows>>
          /\ call' = [call EXCEPT ![p] = IdleCall]
          /\ cancels' = [cancels EXCEPT ![s] = NoJob]
        BY <1>8 DEF NotifyCancel, Settle, Asks, Wanted
    <2>2. ASSUME NEW t \in Sources \ {s} PROVE LiveConfigs(t)' = LiveConfigs(t)
        <3>1. cancels'[t] = cancels[t]
            BY <1>0, <2>1 DEF TypeOK
        <3>2. cancels[t] # NoJob => cancels[t] \in Jobs /\ cancels[t] # cancels[s]
            BY <1>0 DEF TypeOK, OneLiveLoop
        <3>3. cancels[t] # NoJob => jobs'[cancels[t]] = jobs[cancels[t]]
            BY <1>8, <3>2 DEF NotifyCancel
        <3> QED
            BY <3>1, <3>3, LoopsStay
    <2>3. LiveConfigs(s)' = {}
        BY <1>0, <1>b, <2>1 DEF TypeOK
    <2>4. Sched!Reconcile(s, {}) /\ {} \in Owed(s)
        BY <1>2, <2>1, <2>2, <2>3 DEF Sched!Reconcile, Sched!Pay
    <2> QED
        BY <2>4 DEF Sched!Next
<1>9. ASSUME NEW j \in Jobs, NotifySchedule(p, j) PROVE [Sched!Next]_(Sched!vars)
    <2>1. /\ call[p].stage = "notify" /\ Asks(call[p]) = {row.config}
          /\ UNCHANGED <<life, rows>> /\ run[j].pc = "off"
          /\ call' = [call EXCEPT ![p] = IdleCall]
          /\ cancels' = [cancels EXCEPT ![s] = j]
        BY <1>9 DEF NotifySchedule, Settle, Asks
    <2>2. ASSUME NEW t \in Sources \ {s} PROVE LiveConfigs(t)' = LiveConfigs(t)
        <3>1. cancels'[t] = cancels[t]
            BY <1>0, <2>1 DEF TypeOK
        <3>2. cancels[t] # NoJob =>
                 cancels[t] \in Jobs /\ cancels[t] # cancels[s] /\ cancels[t] # j
            BY <1>0, <2>1 DEF TypeOK, OneLiveLoop
        <3>3. cancels[t] # NoJob => jobs'[cancels[t]] = jobs[cancels[t]]
            BY <1>9, <3>2 DEF NotifySchedule
        <3> QED
            BY <3>1, <3>3, LoopsStay
    <2>3. LiveConfigs(s)' = {row.config}
        <3>1. cancels'[s] = j /\ j # NoJob
            BY <1>0, <2>1, SourcesAssumption DEF TypeOK
        <3>2. jobs'[j].config = row.config
            BY <1>9 DEF NotifySchedule
        <3> QED
            BY <1>b, <3>1, <3>2
    <2>4. Sched!Reconcile(s, {row.config}) /\ {row.config} \in Owed(s)
        BY <1>2, <2>1, <2>2, <2>3 DEF Sched!Reconcile, Sched!Pay
    <2> QED
        BY <2>4 DEF Sched!Next
<1>10. CASE NotifyPassive(p)
    <2>1. /\ call[p].stage = "notify" /\ Asks(call[p]) = {}
          /\ UNCHANGED <<life, rows, jobs, cancels>> /\ s \notin PullSources
          /\ call' = [call EXCEPT ![p] = IdleCall]
        BY <1>10 DEF NotifyPassive, Settle, Asks, Wanted
    <2>2. LiveConfigs(s) = {}
        BY <1>0, <1>a, <2>1 DEF Synced
    <2>3. \A t \in Sources : LiveConfigs(t)' = LiveConfigs(t)
        BY <2>1, LoopsStay
    <2>4. Sched!Reconcile(s, {}) /\ {} \in Owed(s)
        BY <1>2, <2>1, <2>2, <2>3 DEF Sched!Reconcile, Sched!Pay
    <2> QED
        BY <2>4 DEF Sched!Next
<1>11. CASE NotifySkip(p)
    <2>1. /\ call[p].stage = "notify" /\ Asks(call[p]) # {} /\ ReconcileMaySkip
          /\ UNCHANGED <<life, rows, jobs, cancels>>
          /\ call' = [call EXCEPT ![p] = IdleCall]
        BY <1>11 DEF NotifySkip, Asks
    <2>2. \A t \in Sources : LiveConfigs(t)' = LiveConfigs(t)
        BY <2>1, LoopsStay
    <2>3. Sched!Skip(s, Asks(call[p])) /\ Asks(call[p]) \in Owed(s)
        BY <1>2, <2>1, <2>2 DEF Sched!Skip, Sched!Pay
    <2> QED
        BY <2>3 DEF Sched!Next
<1> QED
    BY <1>5, <1>6, <1>7, <1>8, <1>9, <1>10, <1>11 DEF CallStep

LEMMA SchedRestart ==
    ASSUME IInv, IInv', Restart
    PROVE  Sched!Restart
<1> PICK start \in [Sources -> Jobs \cup {NoJob}] : Restart!(start)
    BY DEF Restart
<1> DEFINE due == {s \in PullSources : life[s] = "stored" /\ rows[s].enabled}
           got == {s \in Sources : start[s] # NoJob}
<1>0. TypeOK
    BY DEF IInv
<1>1. \A p \in Procs : call'[p].stage = "idle"
    BY DEF IdleCall
<1>2. \A s \in Sources : Owed(s)' = {} /\ Held(s)' = {}
    BY <1>1 DEF Owed, Held
<1>3. ASSUME NEW s \in Sources
      PROVE  LiveConfigs(s)' = IF s \in got THEN {rows[s].config} ELSE {}
    <2>1. LiveConfigs(s)' = IF start[s] = NoJob THEN {} ELSE {jobs'[start[s]].config}
        BY EntriesStillTell DEF EntriesTell
    <2>2. CASE s \in got
        <3>1. start[s] \in Jobs /\ start[s] # NoJob
            BY <2>2
        <3>2. \A t \in got : start[t] = start[s] => t = s
            BY <2>2
        <3>3. (CHOOSE t \in got : start[t] = start[s]) = s
            BY <2>2, <3>2
        <3>4. jobs'[start[s]].config = rows[s].config
            BY <2>2, <3>1, <3>3
        <3> QED
            BY <2>1, <2>2, <3>1, <3>4
    <2>3. CASE s \notin got
        BY <2>1, <2>3
    <2> QED
        BY <2>2, <2>3
<1>4. got \subseteq due /\ (ReconcileMaySkip \/ got = due)
    OBVIOUS
<1>5. ASSUME NEW s \in Sources
      PROVE  LET w == IF life[s] = "stored" THEN Sched!Wants(s, rows[s]) ELSE {} IN
             LiveConfigs(s)' = w \/ (ReconcileMaySkip /\ LiveConfigs(s)' = {})
    <2>1. (IF life[s] = "stored" THEN Sched!Wants(s, rows[s]) ELSE {})
            = IF s \in due THEN {rows[s].config} ELSE {}
        BY DEF Sched!Wants
    <2>2. LiveConfigs(s)' = IF s \in got THEN {rows[s].config} ELSE {}
        BY <1>3
    <2> HIDE DEF due, got
    <2> QED
        BY <1>4, <2>1, <2>2
<1>6. \A s \in Sources : LiveConfigs(s)' \in {{}} \cup {{c} : c \in Configs}
    <2>1. \A s \in Sources : rows[s].config \in Configs
        BY <1>0 DEF TypeOK, Row
    <2> QED
        BY <1>3, <2>1
<1>7. UNCHANGED <<life, rows>>
    OBVIOUS
<1> QED
    BY <1>2, <1>5, <1>6, <1>7 DEF Sched!Restart

LEMMA SchedStep == IInv /\ IInv' /\ [Next]_vars => [Sched!Next]_(Sched!vars)
<1> SUFFICES ASSUME IInv, IInv', [Next]_vars PROVE [Sched!Next]_(Sched!vars)
    OBVIOUS
<1>1. CASE QuietForm
    <2>1. \A t \in Sources : Owed(t)' = Owed(t) /\ Held(t)' = Held(t)
        BY <1>1 DEF QuietForm, Owed, Held, Asks
    <2>2. ASSUME NEW t \in Sources PROVE LiveConfigs(t)' = LiveConfigs(t)
        <3>1. cancels[t] # NoJob => jobs'[cancels[t]] = jobs[cancels[t]]
            BY <1>1 DEF QuietForm, IInv, TypeOK, OneLiveLoop
        <3> QED
            BY <1>1, <3>1, LoopsStay DEF QuietForm
    <2> QED
        BY <1>1, <2>1, <2>2, SchedStutter DEF QuietForm
<1>2. CASE Restart
    BY <1>2, SchedRestart DEF Sched!Next
<1> QED
    BY <1>1, <1>2, SchedEnter, SchedCall, NextForms DEF IInv

\* The schedule the Scheduler keeps is the one LoopSchedule promises, for every number
\* of sources, callers, pull loops and configs: no interleaving of operations, pulls and
\* loops starts, replaces or stops a loop but by the hook of an operation that has just
\* written the row, with the config of that write, or by a restart.
THEOREM ImplementsSchedule == Spec => ScheduleSpec
<1> QED
    BY SchedInit, SchedStep, Inductive, PTL DEF Spec, ScheduleSpec, Sched!Spec
=============================================================================
