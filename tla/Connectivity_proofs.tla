------------------------- MODULE Connectivity_proofs -------------------------
(***************************************************************************)
(* Safety theorems about Connectivity, for any reporters, thresholds,      *)
(* windows and times.                                                      *)
(***************************************************************************)
EXTENDS Connectivity, FiniteSetTheorems, TLAPS

\* Inside EvaluateSourceStatus, past its mutex.
Settling(r) == rep[r].pc \in {"find", "fire", "resolve"}

\* A time with no meeting of evaluations has one evaluation and one alert at most.
Exclusive == ~overlapped =>
    /\ \A p, q \in Reporters : Evaluating(p) /\ Evaluating(q) => p = q
    /\ \A a, b \in open : a = b

\* What FindOpenSystemAlert returned still holds when it is acted upon.
Looked == \A r \in Reporters :
    /\ rep[r].pc = "fire" => rep[r].status # "ok" /\ (~overlapped => open = {})
    /\ rep[r].pc = "resolve" =>
          rep[r].status = "ok" /\ (~overlapped => rep[r].alert \in open)

\* An evaluation past the mutex is that of the last report counted.
Latest == ~overlapped => \A r \in Reporters : Settling(r) => verdict = rep[r].status

Clocked ==
    /\ failures.since <= clock
    /\ \A r \in Reporters : Evaluating(r) => rep[r].now <= clock

\* The count in memory never runs ahead of the reports: it is theirs, or what a
\* restart left of it.
Behind ==
    \/ memo = failures
    \/ /\ memo.count <= failures.count
       /\ memo.count > 0 => failures.since <= memo.since
       /\ \A r \in Reporters : Evaluating(r) => failures.since <= rep[r].now

\* What an unreachable source must have seen before an alert.
Enough(r) == failures.count = Threshold \/ rep[r].now >= failures.since + Window

Ready == ~overlapped => \A r \in Reporters :
            rep[r].pc \in {"find", "fire"} /\ rep[r].status = "unreachable" => Enough(r)

Agrees(table) ==
    /\ verdict = "ok" => table = {}
    /\ verdict = "error" \/ memo.count = Threshold => table # {}

Followed ==
    /\ memo.count > 0 => verdict = "unreachable"
    /\ ~overlapped /\ ~failed /\ (\A r \in Reporters : ~Settling(r)) => Agrees(open)

IInv == TypeOK /\ IsFiniteSet(open) /\ Exclusive /\ Looked /\ Latest /\ Clocked
        /\ Behind /\ Ready /\ Followed

-----------------------------------------------------------------------------
(* Reports                                                                  *)

LEMMA IdleType == Idle \in Reporter
<1>1. (CHOOSE a \in AlertIds : TRUE) \in AlertIds
  BY ConnectivityAssumption
<1> QED
  BY <1>1, ConnectivityAssumption DEF Idle, Reporter, Statuses, Times

\* A reporter returns to reading lines, or to nothing.
LEMMA ReturnType ==
    ASSUME TypeOK, NEW r \in Reporters
    PROVE  Return(r) \in Reporter /\ Return(r).pc \in {"idle", "running"}
<1>1. rep[r].emitted \in BOOLEAN
  BY DEF TypeOK, Reporter
<1>2. [Idle EXCEPT !.pc = "running", !.emitted = rep[r].emitted] \in Reporter
  BY <1>1, IdleType DEF Reporter
<1>3. [Idle EXCEPT !.pc = "running", !.emitted = rep[r].emitted].pc = "running"
  BY DEF Idle
<1>4. Idle.pc = "idle"
  BY DEF Idle
<1> QED
  BY <1>2, <1>3, <1>4, IdleType DEF Return

LEMMA CountOnType ==
    ASSUME NEW c \in Count, NEW now \in Times
    PROVE  /\ CountOn(c, now) \in Count
           /\ CountOn(c, now).count > 0
           /\ CountOn(c, now).count = IF c.count < Threshold THEN c.count + 1 ELSE Threshold
           /\ CountOn(c, now).since = IF c.count = 0 THEN now ELSE c.since
BY ConnectivityAssumption DEF CountOn, Count, Times

LEMMA NoCountType == NoCount \in Count /\ NoCount.count = 0 /\ NoCount.since = 0
BY ConnectivityAssumption DEF NoCount, Count, Times

LEMMA InitHolds == Init => IInv
<1> SUFFICES ASSUME Init PROVE IInv
  OBVIOUS
<1>1. \A r \in Reporters : rep[r].pc = "idle"
  BY DEF Init, Idle
<1>2. TypeOK
  <2>1. clock \in Times
    BY ConnectivityAssumption DEF Init, Times
  <2>2. rep \in [Reporters -> Reporter]
    BY IdleType DEF Init
  <2> QED
    BY <2>1, <2>2, NoCountType DEF Init, TypeOK, Statuses
<1>3. IsFiniteSet(open)
  BY FS_EmptySet DEF Init
<1>4. Exclusive /\ Looked /\ Latest /\ Ready
  BY <1>1 DEF Init, Exclusive, Looked, Latest, Ready, Evaluating, Settling
<1>5. Clocked /\ Behind
  BY <1>1, NoCountType DEF Init, Clocked, Behind, Evaluating
<1>6. Followed
  BY NoCountType, ConnectivityAssumption DEF Init, Followed, Agrees
<1> QED
  BY <1>2, <1>3, <1>4, <1>5, <1>6 DEF IInv

\* A step of one reporter outside EvaluateSourceStatus leaves everything as it was.
LEMMA OutsideKeeps ==
    ASSUME IInv, NEW r \in Reporters, NEW x \in Reporter,
           ~Evaluating(r), x.pc \notin {"count", "find", "fire", "resolve"},
           rep' = [rep EXCEPT ![r] = x], lastStatus' \in Statuses,
           UNCHANGED <<open, memo, clock, histories>>
    PROVE  IInv'
<1>1. rep'[r] = x /\ \A q \in Reporters \ {r} : rep'[q] = rep[q]
  BY DEF IInv, TypeOK
<1>2. /\ open' = open /\ memo' = memo /\ clock' = clock
      /\ overlapped' = overlapped /\ failed' = failed
      /\ failures' = failures /\ verdict' = verdict
  BY DEF histories
<1>3. \A q \in Reporters : \/ q # r /\ rep'[q] = rep[q]
                           \/ rep'[q].pc \notin {"count", "find", "fire", "resolve"}
  BY <1>1
<1>4. \A q \in Reporters : /\ Evaluating(q)' => Evaluating(q) /\ rep'[q] = rep[q]
                           /\ Settling(q)' <=> Settling(q)
  BY <1>1 DEF Evaluating, Settling
<1>5. TypeOK'
  BY <1>2 DEF IInv, TypeOK
<1>6. Exclusive'
  BY <1>2, <1>4 DEF IInv, Exclusive
<1>7. Looked'
  BY <1>2, <1>3 DEF IInv, Looked
<1>8. Latest'
  BY <1>2, <1>3 DEF IInv, Latest, Settling
<1>9. Clocked'
  BY <1>2, <1>4 DEF IInv, Clocked
<1>10. Behind'
  BY <1>2, <1>4 DEF IInv, Behind
<1>11. Ready'
  BY <1>2, <1>3 DEF IInv, Ready, Enough
<1>12. Followed'
  BY <1>2, <1>4 DEF IInv, Followed, Agrees
<1> QED
  BY <1>2, <1>5, <1>6, <1>7, <1>8, <1>9, <1>10, <1>11, <1>12 DEF IInv

LEMMA OutsideSteps ==
    ASSUME IInv, NEW r \in Reporters,
           \/ StartPull(r)
           \/ \E s \in Statuses, isCheck \in BOOLEAN : Ingest(r, s, isCheck)
           \/ \E s \in Statuses : Outcome(r, s)
           \/ Cancelled(r)
           \/ Mark(r)
    PROVE  IInv'
<1>t. rep[r] \in Reporter /\ rep \in [Reporters -> Reporter] /\ lastStatus \in Statuses
  BY DEF IInv, TypeOK
<1>1. CASE StartPull(r)
  <2> DEFINE x == [rep[r] EXCEPT !.pc = "running"]
  <2>1. x \in Reporter /\ x.pc = "running"
    BY <1>t DEF Reporter
  <2>2. rep' = [rep EXCEPT ![r] = x] /\ ~Evaluating(r)
    BY <1>1 DEF StartPull, Evaluating
  <2>3. lastStatus' \in Statuses /\ UNCHANGED <<open, memo, clock, histories>>
    BY <1>1, <1>t DEF StartPull, world
  <2> HIDE DEF x
  <2> QED
    BY <2>1, <2>2, <2>3, OutsideKeeps
<1>2. CASE \E s \in Statuses, isCheck \in BOOLEAN : Ingest(r, s, isCheck)
  <2>1. PICK s \in Statuses, isCheck \in BOOLEAN : Ingest(r, s, isCheck)
    BY <1>2
  <2> DEFINE x == [Idle EXCEPT !.pc = "mark", !.status = s, !.check = isCheck,
                               !.emitted = TRUE]
  <2>2. x \in Reporter /\ x.pc = "mark"
    BY IdleType DEF Reporter, Idle
  <2>3. rep' = [rep EXCEPT ![r] = x] /\ ~Evaluating(r)
    BY <2>1 DEF Ingest, Evaluating
  <2>4. lastStatus' \in Statuses /\ UNCHANGED <<open, memo, clock, histories>>
    BY <2>1, <1>t DEF Ingest, world
  <2> HIDE DEF x
  <2> QED
    BY <2>2, <2>3, <2>4, OutsideKeeps
<1>3. CASE \E s \in Statuses : Outcome(r, s)
  <2>1. PICK s \in Statuses : Outcome(r, s)
    BY <1>3
  <2> DEFINE k == IF s # "ok" \/ ~rep[r].emitted THEN "mark" ELSE "enter"
             x == [rep[r] EXCEPT !.status = s, !.outcome = TRUE, !.pc = k]
  <2>2. k \in {"mark", "enter"}
    OBVIOUS
  <2>3. rep' = [rep EXCEPT ![r] = x] /\ ~Evaluating(r)
    BY <2>1 DEF Outcome, Evaluating
  <2> HIDE DEF k
  <2>4. x \in Reporter /\ x.pc \in {"mark", "enter"}
    BY <2>2, <1>t DEF Reporter
  <2>5. lastStatus' \in Statuses /\ UNCHANGED <<open, memo, clock, histories>>
    BY <2>1, <1>t DEF Outcome, world
  <2> HIDE DEF x
  <2> QED
    BY <2>3, <2>4, <2>5, OutsideKeeps
<1>4. CASE Cancelled(r)
  <2>1. rep' = [rep EXCEPT ![r] = Idle] /\ ~Evaluating(r)
    BY <1>4 DEF Cancelled, Evaluating
  <2>2. lastStatus' \in Statuses /\ UNCHANGED <<open, memo, clock, histories>>
    BY <1>4, <1>t DEF Cancelled, world
  <2>3. Idle.pc = "idle"
    BY DEF Idle
  <2> QED
    BY <2>1, <2>2, <2>3, IdleType, OutsideKeeps
<1>5. CASE Mark(r)
  <2> DEFINE x == IF rep[r].check \/ rep[r].outcome THEN [rep[r] EXCEPT !.pc = "enter"]
                  ELSE Return(r)
  <2>1. [rep[r] EXCEPT !.pc = "enter"] \in Reporter
        /\ [rep[r] EXCEPT !.pc = "enter"].pc = "enter"
    BY <1>t DEF Reporter
  <2>2. x \in Reporter /\ x.pc \in {"enter", "idle", "running"}
    BY <2>1, ReturnType DEF IInv
  <2>3. rep' = [rep EXCEPT ![r] = x] /\ ~Evaluating(r)
    BY <1>5 DEF Mark, Evaluating
  <2>4. lastStatus' \in Statuses /\ UNCHANGED <<open, memo, clock, histories>>
    BY <1>5, <1>t DEF Mark, Reporter
  <2> HIDE DEF x
  <2> QED
    BY <2>2, <2>3, <2>4, OutsideKeeps
<1> QED
  BY <1>1, <1>2, <1>3, <1>4, <1>5

-----------------------------------------------------------------------------
(* EvaluateSourceStatus                                                     *)

LEMMA EnterKeeps ==
    ASSUME IInv, NEW r \in Reporters, Enter(r)
    PROVE  IInv'
<1> DEFINE x == [rep[r] EXCEPT !.pc = "count", !.now = clock]
<1>1. x \in Reporter /\ x.pc = "count" /\ x.now = clock
  BY DEF IInv, TypeOK, Reporter
<1>2. rep' = [rep EXCEPT ![r] = x]
  BY DEF Enter
<1> HIDE DEF x
<1>3. /\ lastStatus' = lastStatus /\ open' = open /\ memo' = memo /\ clock' = clock
      /\ failed' = failed /\ failures' = failures /\ verdict' = verdict
  BY DEF Enter, world
<1>4. rep'[r] = x /\ \A q \in Reporters \ {r} : rep'[q] = rep[q]
  BY <1>2 DEF IInv, TypeOK
<1>5. ~overlapped' => ~overlapped /\ \A q \in Reporters \ {r} : ~Evaluating(q)
  BY DEF Enter
<1>6. TypeOK'
  BY <1>1, <1>2, <1>3 DEF IInv, TypeOK, Enter
<1>7. Exclusive'
  BY <1>3, <1>4, <1>5 DEF IInv, Exclusive, Evaluating
<1>8. Looked'
  BY <1>1, <1>3, <1>4, <1>5 DEF IInv, Looked
<1>9. Latest'
  BY <1>1, <1>3, <1>4, <1>5 DEF IInv, Latest, Settling
<1>10. Clocked'
  BY <1>1, <1>3, <1>4, ConnectivityAssumption DEF IInv, TypeOK, Times, Clocked, Evaluating
<1>11. Behind'
  BY <1>1, <1>3, <1>4 DEF IInv, Behind, Clocked, Evaluating
<1>12. Ready'
  BY <1>1, <1>3, <1>4, <1>5 DEF IInv, Ready, Enough
<1>13. Followed'
  <2>1. \A q \in Reporters : Settling(q)' <=> Settling(q)
    BY <1>1, <1>4 DEF Settling, Enter
  <2> QED
    BY <1>3, <1>5, <2>1 DEF IInv, Followed, Agrees
<1> QED
  BY <1>3, <1>6, <1>7, <1>8, <1>9, <1>10, <1>11, <1>12, <1>13 DEF IInv

LEMMA CountReportKeeps ==
    ASSUME IInv, NEW r \in Reporters, CountReport(r)
    PROVE  IInv'
<1> DEFINE s == rep[r].status
           n == rep[r].now
           c == IF s = "unreachable" THEN CountOn(memo, n) ELSE NoCount
           early == s = "unreachable" /\ c.count < Threshold /\ n < c.since + Window
           x == IF early THEN Return(r) ELSE [rep[r] EXCEPT !.pc = "find"]
<1>t. /\ rep \in [Reporters -> Reporter] /\ rep[r] \in Reporter
      /\ memo \in Count /\ failures \in Count /\ s \in Statuses /\ n \in Times
  BY DEF IInv, TypeOK, Reporter
<1>1. /\ rep[r].pc = "count"
      /\ memo' = c /\ verdict' = s
      /\ failures' = IF s = "unreachable" THEN CountOn(failures, n) ELSE NoCount
      /\ rep' = [rep EXCEPT ![r] = x]
      /\ lastStatus' = lastStatus /\ open' = open /\ clock' = clock
      /\ overlapped' = overlapped /\ failed' = failed
  BY DEF CountReport
<1>2. [rep[r] EXCEPT !.pc = "find"] \in Reporter
      /\ [rep[r] EXCEPT !.pc = "find"].pc = "find"
      /\ [rep[r] EXCEPT !.pc = "find"].status = s
      /\ [rep[r] EXCEPT !.pc = "find"].now = n
  BY <1>t DEF Reporter
<1>3. /\ x \in Reporter
      /\ early => x.pc \in {"idle", "running"}
      /\ ~early => x.pc = "find" /\ x.status = s /\ x.now = n
  BY <1>2, ReturnType DEF IInv
<1> HIDE DEF x
<1>4. c \in Count /\ failures' \in Count
  BY <1>1, <1>t, CountOnType, NoCountType
<1>5. rep'[r] = x /\ \A q \in Reporters \ {r} : rep'[q] = rep[q]
  BY <1>1, <1>t
<1>6. ~overlapped => \A q \in Reporters \ {r} : ~Evaluating(q)
  BY <1>1 DEF IInv, Exclusive, Evaluating
<1>7. Evaluating(r)
  BY <1>1 DEF Evaluating
<1>8. TypeOK'
  BY <1>1, <1>3, <1>4, <1>t DEF IInv, TypeOK
<1>9. Exclusive'
  BY <1>1, <1>3, <1>5, <1>6 DEF IInv, Exclusive, Evaluating
<1>10. Looked'
  BY <1>1, <1>3, <1>5 DEF IInv, Looked
<1>11. Latest'
  <2> SUFFICES ASSUME ~overlapped, NEW q \in Reporters, Settling(q)'
               PROVE  verdict' = rep'[q].status
    BY <1>1 DEF Latest
  <2>1. q = r
    BY <1>5, <1>6 DEF Settling, Evaluating
  <2> QED
    BY <2>1, <1>1, <1>3, <1>5 DEF Settling
<1>12. Clocked'
  <2>1. \A q \in Reporters : Evaluating(q)' => Evaluating(q) /\ rep'[q].now = rep[q].now
    <3>1. ASSUME Evaluating(r)' PROVE rep'[r].now = n
      BY <3>1, <1>3, <1>5 DEF Evaluating
    <3> QED
      BY <3>1, <1>5, <1>7 DEF Evaluating
  <2>2. n <= clock /\ failures.since <= clock /\ 0 <= clock
    BY <1>7, ConnectivityAssumption DEF IInv, Clocked, TypeOK, Times
  <2>3. failures'.since \in {n, failures.since, 0}
    BY <1>1, <1>t, CountOnType, NoCountType
  <2> QED
    BY <1>1, <2>1, <2>2, <2>3 DEF IInv, Clocked
<1>13. Behind'
  <2>1. CASE s # "unreachable"
    BY <2>1, <1>1 DEF Behind
  <2>2. CASE s = "unreachable" /\ memo = failures
    BY <2>2, <1>1 DEF Behind
  <2>3. CASE s = "unreachable" /\ memo # failures
    <3>1. /\ memo.count <= failures.count
          /\ memo.count > 0 => failures.since <= memo.since
          /\ \A q \in Reporters : Evaluating(q) => failures.since <= rep[q].now
      BY <2>3 DEF IInv, Behind
    <3>2. /\ memo'.count = IF memo.count < Threshold THEN memo.count + 1 ELSE Threshold
          /\ failures'.count = IF failures.count < Threshold THEN failures.count + 1
                                                             ELSE Threshold
          /\ memo'.since = IF memo.count = 0 THEN n ELSE memo.since
          /\ failures'.since = IF failures.count = 0 THEN n ELSE failures.since
      BY <2>3, <1>1, <1>t, CountOnType
    <3>3. memo.count \in 0..Threshold /\ failures.count \in 0..Threshold
      BY <1>t DEF Count
    <3>4. CASE failures.count = 0
      <4>1. memo.count = 0
        BY <3>1, <3>3, <3>4, ConnectivityAssumption
      <4>2. memo' = failures'
        BY <3>4, <4>1, <2>3, <1>1 DEF CountOn
      <4> QED
        BY <4>2 DEF Behind
    <3>5. CASE failures.count # 0
      <4>1. failures'.since = failures.since
        BY <3>2, <3>5
      <4>2. failures.since <= n
        BY <3>1, <1>7
      <4>3. memo'.count <= failures'.count
        BY <3>1, <3>2, <3>3, ConnectivityAssumption
      <4>4. failures'.since <= memo'.since
        BY <3>1, <3>2, <3>3, <4>1, <4>2, ConnectivityAssumption
      <4>5. \A q \in Reporters : Evaluating(q)' => failures'.since <= rep'[q].now
        BY <1>3, <1>5, <1>7, <3>1, <4>1 DEF Evaluating
      <4> QED
        BY <4>3, <4>4, <4>5 DEF Behind
    <3> QED
      BY <3>4, <3>5
  <2> QED
    BY <2>1, <2>2, <2>3
<1>14. Ready'
  <2> SUFFICES ASSUME ~overlapped, NEW q \in Reporters,
                      rep'[q].pc \in {"find", "fire"}, rep'[q].status = "unreachable"
               PROVE  Enough(q)'
    BY <1>1 DEF Ready
  <2>1. q = r
    BY <1>5, <1>6 DEF Evaluating
  <2>2. ~early /\ s = "unreachable" /\ rep'[q].now = n
    BY <2>1, <1>3, <1>5
  <2>3. memo'.count > 0
    BY <2>2, <1>1, <1>t, CountOnType
  <2>4. memo'.count = Threshold \/ n >= memo'.since + Window
    <3>1. ~(memo'.count < Threshold /\ n < memo'.since + Window)
      BY <2>2, <1>1
    <3>2. memo' \in Count /\ n \in Nat
      BY <1>1, <1>4, <1>t, ConnectivityAssumption DEF Times
    <3>3. memo'.count \in 0..Threshold /\ memo'.since \in 0..MaxTime
      BY <3>2 DEF Count, Times
    <3> QED
      BY <3>1, <3>2, <3>3, ConnectivityAssumption
  <2>5. /\ memo'.count <= failures'.count
        /\ failures'.since <= memo'.since
    <3>1. CASE memo' = failures'
      BY <3>1, <1>4, ConnectivityAssumption DEF Count, Times
    <3>2. CASE memo' # failures'
      BY <3>2, <1>13, <2>3 DEF Behind
    <3> QED
      BY <3>1, <3>2
  <2>6. failures'.count \in 0..Threshold /\ failures'.since \in 0..MaxTime
        /\ memo'.count \in 0..Threshold /\ memo'.since \in 0..MaxTime /\ n \in 0..MaxTime
    BY <1>1, <1>4, <1>t DEF Count, Times
  <2>7. failures'.count = Threshold \/ n >= failures'.since + Window
    BY <2>4, <2>5, <2>6, ConnectivityAssumption
  <2> QED
    BY <2>2, <2>7 DEF Enough
<1>15. Followed'
  <2>1. memo'.count > 0 => verdict' = "unreachable"
    BY <1>1, NoCountType
  <2>2. ASSUME \A q \in Reporters : ~Settling(q)' PROVE Agrees(open)'
    <3>1. early
      BY <2>2, <1>3, <1>5 DEF Settling
    <3> QED
      BY <3>1, <1>1, <1>4, ConnectivityAssumption DEF Agrees, Count
  <2> QED
    BY <2>1, <2>2 DEF Followed
<1>16. IsFiniteSet(open)'
  BY <1>1 DEF IInv
<1> QED
  BY <1>8, <1>9, <1>10, <1>11, <1>12, <1>13, <1>14, <1>15, <1>16 DEF IInv

\* An evaluation ends with the table it leaves.
LEMMA EndKeeps ==
    ASSUME IInv, NEW r \in Reporters, Settling(r), open' \subseteq AlertIds,
           IsFiniteSet(open'),
           ~overlapped => \A a, b \in open' : a = b,
           ~overlapped => ((rep[r].status = "ok") <=> (open' = {})),
           EndsWith(r, open'),
           UNCHANGED <<lastStatus, memo, clock, failures, verdict>>
    PROVE  IInv'
<1>1. rep' = [rep EXCEPT ![r] = Return(r)]
  BY DEF EndsWith
<1>2. Return(r) \in Reporter /\ Return(r).pc \in {"idle", "running"}
  BY ReturnType DEF IInv
<1>3. rep'[r] = Return(r) /\ \A q \in Reporters \ {r} : rep'[q] = rep[q]
  BY <1>1 DEF IInv, TypeOK
<1>4. Evaluating(r)
  BY DEF Settling, Evaluating
<1>5. MakesGood(r, open') => /\ verdict = rep[r].status
                             /\ \A q \in Reporters \ {r} : ~Evaluating(q)
                             /\ (rep[r].status = "ok") <=> (open' = {})
                             /\ \A a, b \in open' : a = b
  <2>1. ASSUME MakesGood(r, open'), rep[r].status = "ok" PROVE open' = {}
    BY <2>1, FS_EmptySet DEF MakesGood
  <2>2. ASSUME MakesGood(r, open'), rep[r].status # "ok" PROVE \E a : open' = {a}
    BY <2>2, FS_Singleton DEF MakesGood
  <2> QED
    BY <2>1, <2>2 DEF MakesGood
<1>6. /\ overlapped' \in BOOLEAN /\ failed' \in BOOLEAN
      /\ ~overlapped' => ~overlapped \/ MakesGood(r, open')
      /\ ~failed' => ~failed \/ MakesGood(r, open')
      /\ ~overlapped => ~overlapped'
  BY DEF EndsWith
<1>7. ~overlapped' => /\ \A q \in Reporters \ {r} : ~Evaluating(q)
                      /\ verdict = rep[r].status
                      /\ (rep[r].status = "ok") <=> (open' = {})
                      /\ \A a, b \in open' : a = b
  <2>1. ~overlapped => /\ \A q \in Reporters \ {r} : ~Evaluating(q)
                       /\ verdict = rep[r].status
    BY <1>4 DEF IInv, Exclusive, Latest
  <2> QED
    BY <2>1, <1>5, <1>6
<1>8. ~overlapped' => \A q \in Reporters : ~Evaluating(q)' /\ ~Settling(q)'
  BY <1>2, <1>3, <1>7 DEF Evaluating, Settling
<1>9. TypeOK'
  BY <1>1, <1>2, <1>6 DEF IInv, TypeOK
<1>10. Exclusive' /\ Latest'
  BY <1>7, <1>8 DEF Exclusive, Latest
<1>11. Looked'
  <2> SUFFICES ASSUME NEW q \in Reporters, rep'[q].pc \in {"fire", "resolve"}
               PROVE  /\ rep'[q].pc = "fire" => rep'[q].status # "ok"
                      /\ rep'[q].pc = "resolve" => rep'[q].status = "ok"
                      /\ overlapped'
    BY <1>6 DEF Looked
  <2>1. q # r /\ rep'[q] = rep[q]
    BY <1>2, <1>3
  <2>2. overlapped'
    BY <1>8 DEF Settling
  <2> QED
    BY <2>1, <2>2 DEF IInv, Looked
<1>12. Clocked' /\ Behind'
  <2>1. \A q \in Reporters : Evaluating(q)' => Evaluating(q) /\ rep'[q].now = rep[q].now
    BY <1>2, <1>3 DEF Evaluating
  <2> QED
    BY <2>1 DEF IInv, Clocked, Behind
<1>13. Ready'
  BY <1>8 DEF Ready, Settling
<1>14. Followed'
  <2>1. ASSUME ~overlapped' PROVE Agrees(open)'
    <3>1. verdict' = rep[r].status /\ ((rep[r].status = "ok") <=> (open' = {}))
      BY <2>1, <1>7
    <3>2. memo'.count = Threshold => verdict' = "unreachable"
      BY ConnectivityAssumption DEF IInv, Followed
    <3> QED
      BY <3>1, <3>2 DEF Agrees
  <2> QED
    BY <2>1 DEF IInv, Followed
<1> QED
  BY <1>9, <1>10, <1>11, <1>12, <1>13, <1>14 DEF IInv

LEMMA FindWorkKeeps ==
    ASSUME IInv, NEW r \in Reporters, FindWork(r)
    PROVE  IInv'
<1>t. rep \in [Reporters -> Reporter] /\ rep[r] \in Reporter /\ open \subseteq AlertIds
  BY DEF IInv, TypeOK
<1>1. PICK x \in Reporter :
         /\ rep' = [rep EXCEPT ![r] = x]
         /\ x.status = rep[r].status /\ x.now = rep[r].now
         /\ \/ x.pc = "resolve" /\ x.status = "ok" /\ x.alert \in open
            \/ x.pc = "fire" /\ x.status # "ok" /\ open = {}
  <2>1. CASE rep[r].status = "ok"
    <3>1. PICK a \in open : rep' = [rep EXCEPT ![r] = [@ EXCEPT !.pc = "resolve", !.alert = a]]
      BY <2>1 DEF FindWork
    <3> DEFINE x == [rep[r] EXCEPT !.pc = "resolve", !.alert = a]
    <3>2. x \in Reporter
      BY <1>t DEF Reporter
    <3>3. x.status = rep[r].status /\ x.now = rep[r].now /\ x.pc = "resolve" /\ x.alert = a
      BY <1>t DEF Reporter
    <3>4. rep' = [rep EXCEPT ![r] = x]
      BY <3>1
    <3> HIDE DEF x
    <3> QED
      BY <2>1, <3>2, <3>3, <3>4
  <2>2. CASE rep[r].status # "ok"
    <3> DEFINE x == [rep[r] EXCEPT !.pc = "fire"]
    <3>1. x \in Reporter
      BY <1>t DEF Reporter
    <3>2. x.status = rep[r].status /\ x.now = rep[r].now /\ x.pc = "fire"
      BY <1>t DEF Reporter
    <3>3. rep' = [rep EXCEPT ![r] = x] /\ open = {}
      BY <2>2 DEF FindWork
    <3> HIDE DEF x
    <3> QED
      BY <2>2, <3>1, <3>2, <3>3
  <2> QED
    BY <2>1, <2>2
<1>2. rep'[r] = x /\ \A q \in Reporters \ {r} : rep'[q] = rep[q]
  BY <1>1, <1>t
<1>3. /\ lastStatus' = lastStatus /\ open' = open /\ memo' = memo /\ clock' = clock
      /\ overlapped' = overlapped /\ failed' = failed
      /\ failures' = failures /\ verdict' = verdict
  BY DEF FindWork, world, histories
<1>4. rep[r].pc = "find"
  BY DEF FindWork
<1>5. \A q \in Reporters : /\ Evaluating(q)' => Evaluating(q)
                           /\ Settling(q)' => Settling(q)
                           /\ rep'[q].status = rep[q].status /\ rep'[q].now = rep[q].now
  BY <1>1, <1>2, <1>4 DEF Evaluating, Settling
<1>6. TypeOK'
  BY <1>1, <1>3 DEF IInv, TypeOK
<1>7. Exclusive' /\ Latest'
  BY <1>3, <1>5 DEF IInv, Exclusive, Latest
<1>8. Looked'
  BY <1>1, <1>2, <1>3 DEF IInv, Looked
<1>9. Clocked' /\ Behind'
  BY <1>3, <1>5 DEF IInv, Clocked, Behind
<1>10. Ready'
  <2>1. \A q \in Reporters : rep'[q].pc \in {"find", "fire"} => rep[q].pc \in {"find", "fire"}
    BY <1>1, <1>2, <1>4
  <2> QED
    BY <1>3, <1>5, <2>1 DEF IInv, Ready, Enough
<1>11. Followed'
  <2>1. Settling(r)'
    BY <1>1, <1>2 DEF Settling
  <2> QED
    BY <1>3, <2>1 DEF IInv, Followed
<1>12. IsFiniteSet(open)'
  BY <1>3 DEF IInv
<1> QED
  BY <1>6, <1>7, <1>8, <1>9, <1>10, <1>11, <1>12 DEF IInv

LEMMA SettlingSteps ==
    ASSUME IInv, NEW r \in Reporters,
           FindInOrder(r) \/ Resolve(r) \/ \E a \in AlertIds : Fire(r, a)
    PROVE  IInv'
<1>1. CASE FindInOrder(r)
  <2>1. open' = open /\ Settling(r)
    BY <1>1 DEF FindInOrder, world, Settling
  <2>2. EndsWith(r, open') /\ ((rep[r].status = "ok") <=> (open' = {}))
    BY <1>1, <2>1 DEF FindInOrder
  <2>3. UNCHANGED <<lastStatus, memo, clock, failures, verdict>>
    BY <1>1 DEF FindInOrder, world
  <2>4. open' \subseteq AlertIds /\ IsFiniteSet(open')
        /\ (~overlapped => \A a, b \in open' : a = b)
    BY <2>1 DEF IInv, TypeOK, Exclusive
  <2> QED
    BY <2>1, <2>2, <2>3, <2>4, EndKeeps
<1>2. CASE Resolve(r)
  <2>1. open' = open \ {rep[r].alert} /\ Settling(r) /\ rep[r].pc = "resolve"
    BY <1>2 DEF Resolve, Settling
  <2>2. EndsWith(r, open')
    BY <1>2 DEF Resolve
  <2>3. UNCHANGED <<lastStatus, memo, clock, failures, verdict>>
    BY <1>2 DEF Resolve
  <2>4. open' \subseteq AlertIds /\ IsFiniteSet(open')
    BY <2>1, FS_RemoveElement DEF IInv, TypeOK
  <2>5. /\ rep[r].status = "ok"
        /\ ~overlapped => open' = {}
    BY <2>1 DEF IInv, Looked, Exclusive
  <2> QED
    BY <2>1, <2>2, <2>3, <2>4, <2>5, EndKeeps
<1>3. CASE \E a \in AlertIds : Fire(r, a)
  <2>1. PICK a \in AlertIds : Fire(r, a)
    BY <1>3
  <2>2. open' = open \cup {a} /\ Settling(r) /\ rep[r].pc = "fire"
    BY <2>1 DEF Fire, Settling
  <2>3. EndsWith(r, open')
    BY <2>1 DEF Fire
  <2>4. UNCHANGED <<lastStatus, memo, clock, failures, verdict>>
    BY <2>1 DEF Fire
  <2>5. open' \subseteq AlertIds /\ IsFiniteSet(open')
    BY <2>2, FS_AddElement DEF IInv, TypeOK
  <2>6. /\ rep[r].status # "ok"
        /\ ~overlapped => open' = {a}
    BY <2>2 DEF IInv, Looked
  <2> QED
    BY <2>2, <2>3, <2>4, <2>5, <2>6, EndKeeps
<1> QED
  BY <1>1, <1>2, <1>3

LEMMA FailKeeps ==
    ASSUME IInv, NEW r \in Reporters, Fail(r)
    PROVE  IInv'
<1>1. rep' = [rep EXCEPT ![r] = Return(r)]
  BY DEF Fail
<1>2. Return(r) \in Reporter /\ Return(r).pc \in {"idle", "running"}
  BY ReturnType DEF IInv
<1>3. rep'[r] = Return(r) /\ \A q \in Reporters \ {r} : rep'[q] = rep[q]
  BY <1>1 DEF IInv, TypeOK
<1>4. /\ lastStatus' = lastStatus /\ open' = open /\ memo' = memo /\ clock' = clock
      /\ overlapped' = overlapped /\ failed' = TRUE
      /\ failures' = failures /\ verdict' = verdict
  BY DEF Fail, world
<1>5. \A q \in Reporters : Evaluating(q)' \/ Settling(q)' => q # r /\ rep'[q] = rep[q]
  BY <1>2, <1>3 DEF Evaluating, Settling
<1>6. \A q \in Reporters : rep'[q].pc \in {"find", "fire", "resolve"} =>
                              q # r /\ rep'[q] = rep[q]
  BY <1>2, <1>3
<1>7. TypeOK'
  BY <1>1, <1>2, <1>4 DEF IInv, TypeOK
<1>8. Exclusive' /\ Latest'
  BY <1>4, <1>5 DEF IInv, Exclusive, Latest, Evaluating, Settling
<1>9. Looked'
  BY <1>4, <1>6 DEF IInv, Looked
<1>10. Clocked' /\ Behind'
  BY <1>4, <1>5 DEF IInv, Clocked, Behind, Evaluating
<1>11. Ready'
  BY <1>4, <1>6 DEF IInv, Ready, Enough
<1>12. Followed'
  BY <1>4 DEF IInv, Followed
<1> QED
  BY <1>4, <1>7, <1>8, <1>9, <1>10, <1>11, <1>12 DEF IInv

-----------------------------------------------------------------------------
LEMMA TickKeeps ==
    ASSUME IInv, Tick
    PROVE  IInv'
<1>1. /\ lastStatus' = lastStatus /\ open' = open /\ memo' = memo /\ rep' = rep
      /\ overlapped' = overlapped /\ failed' = failed
      /\ failures' = failures /\ verdict' = verdict
  BY DEF Tick, histories
<1>2. TypeOK'
  BY <1>1, ConnectivityAssumption DEF Tick, IInv, TypeOK, Times
<1>3. Exclusive' /\ Looked' /\ Latest' /\ Behind' /\ Ready' /\ Followed'
  BY <1>1 DEF IInv, Exclusive, Looked, Latest, Behind, Ready, Followed, Evaluating,
              Settling, Enough, Agrees
<1>4. Clocked'
  <2>1. clock' = clock + 1 /\ clock \in 0..MaxTime /\ failures.since \in 0..MaxTime
        /\ \A r \in Reporters : rep[r].now \in 0..MaxTime
    BY DEF Tick, IInv, TypeOK, Times, Count, Reporter
  <2> QED
    BY <1>1, <2>1, ConnectivityAssumption DEF IInv, Clocked, Evaluating
<1> QED
  BY <1>1, <1>2, <1>3, <1>4 DEF IInv

LEMMA RestartKeeps ==
    ASSUME IInv, Restart
    PROVE  IInv'
<1>1. /\ lastStatus' = lastStatus /\ open' = open /\ clock' = clock
      /\ overlapped' = overlapped /\ failures' = failures /\ verdict' = verdict
      /\ memo' = NoCount /\ failed' = (failed \/ ~Quiet)
      /\ rep' = [r \in Reporters |-> Idle]
  BY DEF Restart
<1>2. \A r \in Reporters : rep'[r] = Idle /\ Idle.pc = "idle"
  BY <1>1 DEF Idle
<1>3. TypeOK'
  <2>1. failed' \in BOOLEAN
    BY <1>1
  <2> QED
    BY <1>1, <2>1, IdleType, NoCountType DEF IInv, TypeOK
<1>4. Exclusive' /\ Looked' /\ Latest' /\ Ready'
  BY <1>1, <1>2 DEF IInv, Exclusive, Looked, Latest, Ready, Evaluating, Settling
<1>5. Clocked'
  BY <1>1, <1>2 DEF IInv, Clocked, Evaluating
<1>6. Behind'
  <2>1. failures.count \in 0..Threshold
    BY DEF IInv, TypeOK, Count
  <2> QED
    BY <1>1, <1>2, <2>1, NoCountType, ConnectivityAssumption DEF Behind, Evaluating
<1>7. Followed'
  <2>1. memo'.count = 0
    BY <1>1, NoCountType
  <2>2. ASSUME ~overlapped', ~failed' PROVE Agrees(open)'
    <3>1. ~overlapped /\ ~failed /\ Quiet
      BY <2>2, <1>1
    <3>2. \A r \in Reporters : ~Settling(r)
      BY <3>1 DEF Quiet, Settling
    <3> QED
      BY <3>1, <3>2, <2>1, <1>1, ConnectivityAssumption DEF IInv, Followed, Agrees
  <2> QED
    BY <2>1, <2>2 DEF Followed
<1> QED
  BY <1>1, <1>3, <1>4, <1>5, <1>6, <1>7 DEF IInv

LEMMA StutterKeeps ==
    ASSUME IInv, UNCHANGED vars
    PROVE  IInv'
BY DEF vars, world, histories, IInv, TypeOK, Exclusive, Looked, Latest, Clocked, Behind,
       Ready, Followed, Evaluating, Settling, Enough, Agrees

LEMMA StepKeeps == IInv /\ [Next]_vars => IInv'
<1> SUFFICES ASSUME IInv, [Next]_vars PROVE IInv'
  OBVIOUS
<1>1. ASSUME NEW r \in Reporters, Report(r) PROVE IInv'
  BY <1>1, OutsideSteps, EnterKeeps, CountReportKeeps, FindWorkKeeps, SettlingSteps,
     FailKeeps DEF Report
<1>2. CASE Tick
  BY <1>2, TickKeeps
<1>3. CASE Restart
  BY <1>3, RestartKeeps
<1>4. CASE UNCHANGED vars
  BY <1>4, StutterKeeps
<1> QED
  BY <1>1, <1>2, <1>3, <1>4 DEF Next

THEOREM Inductive == Spec => []IInv
BY InitHolds, StepKeeps, PTL DEF Spec

-----------------------------------------------------------------------------
(* The theorems                                                             *)

\* The variables keep their types.
THEOREM TypeCorrect == Spec => []TypeOK
<1>1. IInv => TypeOK
  BY DEF IInv
<1> QED
  BY <1>1, Inductive, PTL

\* However pulls, pushes, failing statements and restarts follow each other, a source
\* has one open connectivity alert unless evaluations met (fireSystemAlertIfNotOpen).
THEOREM OneAlert == Spec => []OneSystemAlert
<1>1. IInv => OneSystemAlert
  <2> SUFFICES ASSUME IInv, ~overlapped PROVE Cardinality(open) <= 1
    BY DEF OneSystemAlert
  <2>1. CASE open = {}
    BY <2>1, FS_EmptySet
  <2>2. CASE open # {}
    <3>1. PICK a : open = {a}
      BY <2>2 DEF IInv, Exclusive
    <3> QED
      BY <3>1, FS_Singleton
  <2> QED
    BY <2>1, <2>2
<1> QED
  BY <1>1, Inductive, PTL

\* Once no report is on its way the table agrees with the last one, unless evaluations
\* met or a statement failed (EvaluateSourceStatus).
THEOREM TableAgrees == Spec => []AlertFollowsReports
<1>1. IInv => AlertFollowsReports
  BY DEF IInv, Followed, Agrees, AlertFollowsReports, Quiet, Settling
<1> QED
  BY <1>1, Inductive, PTL

\* No restart and no other report makes an unreachable source alert early, unless
\* evaluations met (EvaluateSourceStatus).
THEOREM NeverEarly == Spec => UnreachableIsDebounced
<1> DEFINE Debounced == \A r \in Reporters, a \in AlertIds :
              Fire(r, a) /\ rep[r].status = "unreachable" /\ ~overlapped =>
                 \/ failures.count = Threshold
                 \/ rep[r].now >= failures.since + Window
<1>1. IInv => [Debounced]_vars
  BY DEF IInv, Ready, Enough, Fire
<1> QED
  BY <1>1, Inductive, PTL DEF UnreachableIsDebounced
=============================================================================
