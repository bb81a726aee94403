---------------------------- MODULE Telemetry_proofs ----------------------------
(***************************************************************************)
(* Theorems about PushIngest, for any handlers, keys and batches.          *)
(***************************************************************************)
EXTENDS PushIngest, Maintenance, TLAPS

\* The records a handler has stored so far.
Done(h) == {BatchOf[req[h].key][i] :
              i \in {j \in 1..Len(BatchOf[req[h].key]) :
                       j < req[h].at \/ (j = req[h].at /\ req[h].pc = "effects")}}

\* A key is reserved by the request that holds it, and by nothing else.
HoldersReserve ==
    \A h \in Handlers : Holds(h) => /\ req[h].key \in batches
                                    /\ req[h].key \notin accepted \cup abandoned
                                    /\ Done(h) \subseteq stored \cup expired

Alone == \A h, g \in Handlers :
            Holds(h) /\ Holds(g) /\ req[h].key = req[g].key => h = g

\* Every reservation has a reason.
Classified ==
    \A k \in batches : k \in accepted \/ k \in abandoned
                       \/ \E h \in Handlers : Holds(h) /\ req[h].key = k

\* A handler that has not begun is at the first record.
Fresh == \A h \in Handlers : req[h].pc \in {"lookup", "reserve"} => req[h].at = 1

IInv ==
    /\ TypeOK
    /\ Fresh
    /\ HoldersReserve
    /\ Alone
    /\ Classified
    /\ AcceptedIsStored
    /\ abandoned \subseteq batches \ accepted

-----------------------------------------------------------------------------
\* A batch has a first record.
LEMMA BatchLength ==
    ASSUME NEW k \in Keys
    PROVE  /\ BatchOf[k] \in Seq(Records)
           /\ Len(BatchOf[k]) \in Nat
           /\ Len(BatchOf[k]) >= 1
           /\ \A i \in 1..Len(BatchOf[k]) : BatchOf[k][i] \in Records
<1>1. BatchOf[k] \in Seq(Records) \ {<<>>}
  BY PushAssumption
<1>2. Len(BatchOf[k]) # 0
  BY <1>1
<1> QED
  BY <1>1, <1>2

\* The key of an idle handler is some key: it is never read.
LEMMA IdleKey == Idle \in Request /\ Idle.pc = "idle" /\ Idle.at = 1 /\ ~Idle.cancelled
<1>1. (CHOOSE k \in Keys : TRUE) \in Keys
  BY PushAssumption
<1> QED
  BY <1>1 DEF Idle, Request

\* One step of anything keeps the types.
LEMMA TypeStep == TypeOK /\ [Next]_vars => TypeOK'
<1> SUFFICES ASSUME TypeOK, [Next]_vars PROVE TypeOK'
  OBVIOUS
<1> USE IdleKey
<1>1. ASSUME NEW h \in Handlers, NEW k \in Keys, Authorize(h, k) PROVE TypeOK'
  <2>1. req' = [req EXCEPT ![h] = [Idle EXCEPT !.pc = "lookup", !.key = k]]
    BY <1>1 DEF Authorize
  <2>2. req' \in [Handlers -> Request]
    BY <2>1 DEF TypeOK, Request
  <2>3. \A g \in Handlers : req'[g].at \in 1..Len(BatchOf[req'[g].key])
    BY <2>1, BatchLength DEF TypeOK, Request
  <2> QED
    BY <1>1, <2>2, <2>3 DEF TypeOK, Authorize
<1>2. ASSUME NEW h \in Handlers, HandlerStep(h),
             \A k \in Keys : ~Authorize(h, k)
      PROVE TypeOK'
  <2>1. Idle.at \in 1..Len(BatchOf[Idle.key])
    BY BatchLength, IdleKey DEF Request
  <2>2. CASE Lookup(h) \/ InsertFails(h) \/ Disconnect(h)
    <3>1. req' \in [Handlers -> Request]
      <4>1. req[h] \in Request
        BY DEF TypeOK
      <4>2. /\ [req[h] EXCEPT !.pc = "reserve"] \in Request
            /\ [req[h] EXCEPT !.pc = "release"] \in Request
            /\ [req[h] EXCEPT !.cancelled = TRUE] \in Request
        BY <4>1 DEF Request
      <4> QED
        BY <2>2, <4>2 DEF TypeOK, Lookup, InsertFails, Disconnect
    <3>2. \A g \in Handlers : req'[g].at \in 1..Len(BatchOf[req'[g].key])
      BY <2>1, <2>2 DEF TypeOK, Request, Lookup, InsertFails, Disconnect
    <3> QED
      BY <2>2, <3>1, <3>2 DEF TypeOK, Lookup, InsertFails, Disconnect
  <2>6. CASE Refuse(h) \/ Duplicate(h)
    <3>1. req' \in [Handlers -> Request]
      BY <2>6 DEF TypeOK, Request, Refuse, Duplicate
    <3>2. \A g \in Handlers : req'[g].at \in 1..Len(BatchOf[req'[g].key])
      BY <2>1, <2>6 DEF TypeOK, Request, Refuse, Duplicate
    <3> QED
      BY <2>6, <3>1, <3>2 DEF TypeOK, Refuse, Duplicate
  <2>3. CASE Reserve(h) \/ Release(h) \/ ReleaseFails(h)
    <3>1. req' \in [Handlers -> Request]
      BY <2>3 DEF TypeOK, Request, Reserve, Release, ReleaseFails
    <3>2. \A g \in Handlers : req'[g].at \in 1..Len(BatchOf[req'[g].key])
      BY <2>1, <2>3 DEF TypeOK, Request, Reserve, Release, ReleaseFails
    <3>3. req[h].key \in Keys
      BY DEF TypeOK, Request
    <3> QED
      BY <2>3, <3>1, <3>2, <3>3 DEF TypeOK, Reserve, Release, ReleaseFails
  <2>4. CASE Insert(h)
    <3>1. req[h].key \in Keys /\ req[h].at \in 1..Len(BatchOf[req[h].key])
      BY DEF TypeOK, Request
    <3>2. BatchOf[req[h].key][req[h].at] \in Records
      BY <3>1, BatchLength
    <3>3. req' \in [Handlers -> Request]
      BY <2>4 DEF TypeOK, Request, Insert
    <3>4. \A g \in Handlers : req'[g].at \in 1..Len(BatchOf[req'[g].key])
      BY <2>4 DEF TypeOK, Request, Insert
    <3> QED
      BY <2>4, <3>2, <3>3, <3>4 DEF TypeOK, Insert
  <2>5. CASE Effects(h)
    <3>1. req[h].key \in Keys /\ req[h].at \in 1..Len(BatchOf[req[h].key])
      BY DEF TypeOK, Request
    <3>2. Len(BatchOf[req[h].key]) \in Nat
      BY <3>1, BatchLength
    <3>3. CASE req[h].at < Len(BatchOf[req[h].key])
      <4>1. req' = [req EXCEPT ![h] = [@ EXCEPT !.pc = "insert", !.at = req[h].at + 1]]
        BY <2>5, <3>3 DEF Effects
      <4>2. req[h].at + 1 \in 1..Len(BatchOf[req[h].key])
        BY <3>1, <3>2, <3>3
      <4> DEFINE r == [req[h] EXCEPT !.pc = "insert", !.at = req[h].at + 1]
      <4>3. r \in Request /\ r.key = req[h].key /\ r.at = req[h].at + 1
        <5>1. req[h] \in Request
          BY DEF TypeOK
        <5>2. req[h].at + 1 \in Nat \ {0}
          BY <3>1, <3>2
        <5> QED
          BY <5>1, <5>2 DEF Request
      <4>4. req' = [req EXCEPT ![h] = r]
        BY <4>1
      <4>5. req' \in [Handlers -> Request]
        BY <4>3, <4>4 DEF TypeOK
      <4>6. \A g \in Handlers : req'[g].at \in 1..Len(BatchOf[req'[g].key])
        BY <4>2, <4>3, <4>4 DEF TypeOK
      <4> QED
        BY <2>5, <3>3, <4>5, <4>6 DEF TypeOK, Effects
    <3>4. CASE ~(req[h].at < Len(BatchOf[req[h].key]))
      <4>1. req' = [req EXCEPT ![h] = Idle]
        BY <2>5, <3>4 DEF Effects
      <4>2. req' \in [Handlers -> Request]
        BY <4>1 DEF TypeOK
      <4>3. \A g \in Handlers : req'[g].at \in 1..Len(BatchOf[req'[g].key])
        BY <2>1, <4>1 DEF TypeOK
      <4> QED
        BY <2>5, <3>1, <3>4, <4>2, <4>3 DEF TypeOK, Effects
    <3> QED
      BY <3>3, <3>4
  <2> QED
    BY <1>2, <2>2, <2>3, <2>4, <2>5, <2>6 DEF HandlerStep
<1>3. ASSUME NEW K \in SUBSET Keys, NEW R \in SUBSET Records, Prune(K, R) PROVE TypeOK'
  BY <1>3 DEF TypeOK, Prune
<1>4. CASE Restart
  <2>1. Idle.at \in 1..Len(BatchOf[Idle.key])
    BY BatchLength, IdleKey DEF Request
  <2> QED
    BY <1>4, <2>1 DEF TypeOK, Restart
<1>5. CASE UNCHANGED vars
  BY <1>5 DEF TypeOK, vars
<1> QED
  BY <1>1, <1>2, <1>3, <1>4, <1>5 DEF Next

LEMMA TypeInit == Init => TypeOK
  BY IdleKey, BatchLength DEF Init, TypeOK, Request

\* PushIngest is well typed, for any handlers, keys and batches.
THEOREM TypeCorrect == Spec => []TypeOK
  BY TypeInit, TypeStep, PTL DEF Spec

-----------------------------------------------------------------------------
LEMMA StrongInit == Init => IInv
<1> SUFFICES ASSUME Init PROVE IInv
  OBVIOUS
<1>1. \A h \in Handlers : req[h].pc = "idle"
  BY IdleKey DEF Init
<1>2. \A h \in Handlers : ~Holds(h)
  BY <1>1 DEF Holds
<1>3. HoldersReserve /\ Alone /\ Fresh
  BY <1>1, <1>2 DEF HoldersReserve, Alone, Fresh
<1> QED
  BY <1>3, TypeInit DEF Init, IInv, Classified, AcceptedIsStored

\* A handler that is not at work in the table disturbs no one.
LEMMA Bystander ==
    ASSUME IInv, TypeOK', NEW h \in Handlers,
           UNCHANGED <<batches, stored, expired, accepted, abandoned>>,
           \A g \in Handlers \ {h} : req'[g] = req[g],
           Holds(h)' <=> Holds(h),
           Holds(h) => /\ req'[h].key = req[h].key
                       /\ Done(h)' = Done(h),
           req'[h].pc \in {"lookup", "reserve"} => req'[h].at = 1
    PROVE  IInv'
<1>1. \A g \in Handlers : Holds(g)' <=> Holds(g)
  BY DEF Holds
<1>2. \A g \in Handlers : Holds(g) => req'[g].key = req[g].key /\ Done(g)' = Done(g)
  <2>1. ASSUME NEW g \in Handlers \ {h} PROVE req'[g].key = req[g].key /\ Done(g)' = Done(g)
    <3>1. req'[g] = req[g]
      BY <2>1
    <3> QED
      BY <3>1 DEF Done
  <2> QED
    BY <2>1
<1>3. HoldersReserve'
  BY <1>1, <1>2 DEF IInv, HoldersReserve
<1>4. Alone'
  BY <1>1, <1>2 DEF IInv, Alone
<1>5. Classified'
  BY <1>1, <1>2 DEF IInv, Classified
<1>6. AcceptedIsStored' /\ (abandoned \subseteq batches \ accepted)'
  BY DEF IInv, AcceptedIsStored
<1>7. Fresh'
  BY DEF IInv, Fresh
<1> QED
  BY <1>3, <1>4, <1>5, <1>6, <1>7 DEF IInv

\* A handler that gives its key up, or takes the accepted batch with it.
LEMMA LetGo ==
    ASSUME IInv, NEW h \in Handlers, Holds(h),
           req' = [req EXCEPT ![h] = Idle]
    PROVE  /\ \A g \in Handlers : Holds(g)' <=> Holds(g) /\ g # h
           /\ \A g \in Handlers \ {h} : req'[g] = req[g] /\ Done(g)' = Done(g)
           /\ \A g \in Handlers : Holds(g)' => req[g].key # req[h].key
<1> USE IdleKey
<1>1. req \in [Handlers -> Request]
  BY DEF IInv, TypeOK
<1>2. \A g \in Handlers : Holds(g)' <=> Holds(g) /\ g # h
  BY <1>1 DEF Holds
<1>3. \A g \in Handlers \ {h} : req'[g] = req[g] /\ Done(g)' = Done(g)
  BY <1>1 DEF Done
<1> QED
  BY <1>2, <1>3 DEF IInv, Alone

LEMMA StrongStep == IInv /\ [Next]_vars => IInv'
<1> SUFFICES ASSUME IInv, [Next]_vars PROVE IInv'
  OBVIOUS
<1> USE IdleKey
<1>0. TypeOK /\ TypeOK'
  BY TypeStep DEF IInv
<1>1. ASSUME NEW h \in Handlers, NEW k \in Keys, Authorize(h, k) PROVE IInv'
  <2>1. /\ \A g \in Handlers \ {h} : req'[g] = req[g]
        /\ ~Holds(h) /\ ~Holds(h)'
        /\ req'[h].at = 1
    BY <1>0, <1>1 DEF Authorize, TypeOK, Holds, Request
  <2> QED
    BY <1>0, <1>1, <2>1, Bystander DEF Authorize
<1>2. ASSUME NEW h \in Handlers,
             Lookup(h) \/ Refuse(h) \/ Duplicate(h)
      PROVE IInv'
  <2>1. /\ \A g \in Handlers \ {h} : req'[g] = req[g]
        /\ ~Holds(h) /\ ~Holds(h)'
        /\ req'[h].pc = "idle" \/ req'[h].at = 1
    BY <1>0, <1>2 DEF Lookup, Refuse, Duplicate, TypeOK, Holds, Request, IInv, Fresh
  <2>2. UNCHANGED <<batches, stored, expired, accepted, abandoned>>
    BY <1>2 DEF Lookup, Refuse, Duplicate
  <2> QED
    BY <1>0, <2>1, <2>2, Bystander
<1>3. ASSUME NEW h \in Handlers, Disconnect(h) PROVE IInv'
  <2>1. /\ \A g \in Handlers \ {h} : req'[g] = req[g]
        /\ req'[h].pc = req[h].pc /\ req'[h].key = req[h].key /\ req'[h].at = req[h].at
    BY <1>0, <1>3 DEF Disconnect, TypeOK, Request
  <2>2. (Holds(h)' <=> Holds(h)) /\ Done(h)' = Done(h)
    BY <2>1 DEF Holds, Done
  <2>3. UNCHANGED <<batches, stored, expired, accepted, abandoned>>
    BY <1>3 DEF Disconnect
  <2> QED
    BY <1>0, <2>1, <2>2, <2>3, Bystander DEF IInv, Fresh
<1>4. ASSUME NEW h \in Handlers, InsertFails(h) PROVE IInv'
  <2>1. /\ \A g \in Handlers \ {h} : req'[g] = req[g]
        /\ req[h].pc = "insert" /\ req'[h].pc = "release"
        /\ req'[h].key = req[h].key /\ req'[h].at = req[h].at
    BY <1>0, <1>4 DEF InsertFails, TypeOK, Request
  <2>2. Holds(h) /\ Holds(h)' /\ Done(h)' = Done(h)
    BY <2>1 DEF Holds, Done
  <2>3. UNCHANGED <<batches, stored, expired, accepted, abandoned>>
    BY <1>4 DEF InsertFails
  <2> QED
    BY <1>0, <2>1, <2>2, <2>3, Bystander
<1>5. ASSUME NEW h \in Handlers, Reserve(h) PROVE IInv'
  <2> DEFINE k == req[h].key
  <2>1. k \in Keys /\ k \notin batches /\ batches' = batches \cup {k}
        /\ UNCHANGED <<stored, expired, accepted, abandoned>>
    BY <1>0, <1>5 DEF Reserve, TypeOK, Request
  <2>2. /\ \A g \in Handlers \ {h} : req'[g] = req[g] /\ Done(g)' = Done(g)
        /\ req'[h].pc = "insert" /\ req'[h].key = k /\ req'[h].at = req[h].at
        /\ req[h].pc = "reserve"
    BY <1>0, <1>5 DEF Reserve, TypeOK, Request, Done
  <2>3. \A g \in Handlers : Holds(g)' <=> Holds(g) \/ g = h
    BY <2>2 DEF Holds
  <2>4. \A g \in Handlers : Holds(g) => req[g].key # k
    BY <2>1 DEF IInv, HoldersReserve
  <2>5. k \notin accepted \cup abandoned
    BY <2>1 DEF IInv, AcceptedIsStored
  <2>6. ~Holds(h) /\ req[h].at = 1
    BY <2>2 DEF Holds, IInv, Fresh
  <2>7. Done(h)' = {}
    BY <2>2, <2>6 DEF Done
  <2>8. HoldersReserve'
    BY <2>1, <2>2, <2>3, <2>5, <2>7 DEF IInv, HoldersReserve
  <2>9. Alone'
    BY <2>2, <2>3, <2>4 DEF IInv, Alone
  <2>10. Classified'
    BY <2>1, <2>2, <2>3 DEF IInv, Classified
  <2>11. AcceptedIsStored' /\ (abandoned \subseteq batches \ accepted)'
    BY <2>1 DEF IInv, AcceptedIsStored
  <2>12. Fresh'
    BY <2>2 DEF IInv, Fresh
  <2> QED
    BY <1>0, <2>8, <2>9, <2>10, <2>11, <2>12 DEF IInv
<1>6. ASSUME NEW h \in Handlers, Insert(h) PROVE IInv'
  <2>1. /\ \A g \in Handlers \ {h} : req'[g] = req[g] /\ Done(g)' = Done(g)
        /\ req[h].pc = "insert" /\ req'[h].pc = "effects"
        /\ req'[h].key = req[h].key /\ req'[h].at = req[h].at
    BY <1>0, <1>6 DEF Insert, TypeOK, Request, Done
  <2>2. /\ UNCHANGED <<batches, expired, accepted, abandoned>>
        /\ stored' = stored \cup {BatchOf[req[h].key][req[h].at]}
    BY <1>6 DEF Insert
  <2>3. \A g \in Handlers : Holds(g)' <=> Holds(g)
    BY <2>1 DEF Holds
  <2>4. Done(h)' \subseteq Done(h) \cup {BatchOf[req[h].key][req[h].at]}
    BY <2>1 DEF Done
  <2>5. HoldersReserve'
    BY <2>1, <2>2, <2>3, <2>4 DEF IInv, HoldersReserve
  <2>6. Alone'
    BY <2>1, <2>3 DEF IInv, Alone
  <2>7. Classified'
    BY <2>1, <2>2, <2>3 DEF IInv, Classified
  <2>8. AcceptedIsStored' /\ (abandoned \subseteq batches \ accepted)'
    BY <2>2 DEF IInv, AcceptedIsStored
  <2>9. Fresh'
    BY <2>1 DEF IInv, Fresh
  <2> QED
    BY <1>0, <2>5, <2>6, <2>7, <2>8, <2>9 DEF IInv
<1>7. ASSUME NEW h \in Handlers, Effects(h) PROVE IInv'
  <2> DEFINE k == req[h].key
  <2>1. k \in Keys /\ req[h].pc = "effects" /\ req[h].at \in 1..Len(BatchOf[k])
        /\ Len(BatchOf[k]) \in Nat
    BY <1>0, <1>7, BatchLength DEF Effects, TypeOK, Request
  <2>2. CASE req[h].at < Len(BatchOf[k])
    <3>1. /\ \A g \in Handlers \ {h} : req'[g] = req[g]
          /\ req'[h].pc = "insert" /\ req'[h].key = k /\ req'[h].at = req[h].at + 1
      <4> DEFINE r == [req[h] EXCEPT !.pc = "insert", !.at = req[h].at + 1]
      <4>1. req' = [req EXCEPT ![h] = r]
        BY <1>7, <2>2 DEF Effects
      <4>2. req \in [Handlers -> Request] /\ req[h] \in Request
        BY <1>0 DEF TypeOK
      <4>3. r.pc = "insert" /\ r.key = k /\ r.at = req[h].at + 1
        BY <4>2 DEF Request
      <4> HIDE DEF r
      <4>4. req'[h] = r /\ \A g \in Handlers \ {h} : req'[g] = req[g]
        BY <4>1, <4>2
      <4> QED
        BY <4>3, <4>4
    <3>2. UNCHANGED <<batches, stored, expired, accepted, abandoned>>
      BY <1>7, <2>2 DEF Effects
    <3>3. Holds(h) /\ Holds(h)'
      BY <2>1, <3>1 DEF Holds
    <3>4. Done(h)' = Done(h)
      BY <2>1, <3>1 DEF Done
    <3> QED
      BY <1>0, <3>1, <3>2, <3>3, <3>4, Bystander
  <2>3. CASE ~(req[h].at < Len(BatchOf[k]))
    <3>1. /\ req' = [req EXCEPT ![h] = Idle] /\ accepted' = accepted \cup {k}
          /\ UNCHANGED <<batches, stored, expired, abandoned>>
      BY <1>7, <2>3 DEF Effects
    <3>2. Holds(h)
      BY <2>1 DEF Holds
    <3>3. req[h].at = Len(BatchOf[k])
      BY <2>1, <2>3
    <3>4. RecordsOf(k) = Done(h)
      BY <2>1, <3>3 DEF RecordsOf, Done
    <3>5. k \in batches \ (accepted \cup abandoned) /\ RecordsOf(k) \subseteq stored \cup expired
      BY <3>2, <3>4 DEF IInv, HoldersReserve
    <3>6. AcceptedIsStored' /\ (abandoned \subseteq batches \ accepted)'
      BY <3>1, <3>5 DEF IInv, AcceptedIsStored, RecordsOf
    <3> DEFINE lg == /\ \A g \in Handlers : Holds(g)' <=> Holds(g) /\ g # h
                     /\ \A g \in Handlers \ {h} : req'[g] = req[g] /\ Done(g)' = Done(g)
                     /\ \A g \in Handlers : Holds(g)' => req[g].key # k
    <3>7. lg
      BY <3>1, <3>2, LetGo
    <3>8. HoldersReserve'
      BY <3>1, <3>7 DEF IInv, HoldersReserve
    <3>9. Alone'
      BY <3>7 DEF IInv, Alone
    <3>10. Classified'
      BY <3>1, <3>7 DEF IInv, Classified
    <3>11. Fresh'
      BY <1>0, <3>1 DEF IInv, Fresh, TypeOK
    <3> QED
      BY <1>0, <3>6, <3>8, <3>9, <3>10, <3>11 DEF IInv
  <2> QED
    BY <2>2, <2>3
<1>8. ASSUME NEW h \in Handlers, Release(h) PROVE IInv'
  <2> DEFINE k == req[h].key
  <2>1. /\ req' = [req EXCEPT ![h] = Idle] /\ batches' = batches \ {k}
        /\ UNCHANGED <<stored, expired, accepted, abandoned>> /\ Holds(h)
    BY <1>8 DEF Release, Holds
  <2>2. /\ \A g \in Handlers : Holds(g)' <=> Holds(g) /\ g # h
        /\ \A g \in Handlers \ {h} : req'[g] = req[g] /\ Done(g)' = Done(g)
        /\ \A g \in Handlers : Holds(g)' => req[g].key # k
    BY <2>1, LetGo
  <2>3. k \notin accepted \cup abandoned
    BY <2>1 DEF IInv, HoldersReserve
  <2>4. HoldersReserve'
    BY <2>1, <2>2 DEF IInv, HoldersReserve
  <2>5. Alone'
    BY <2>2 DEF IInv, Alone
  <2>6. Classified'
    BY <2>1, <2>2 DEF IInv, Classified
  <2>7. AcceptedIsStored' /\ (abandoned \subseteq batches \ accepted)'
    BY <2>1, <2>3 DEF IInv, AcceptedIsStored
  <2>8. Fresh'
    BY <1>0, <2>1 DEF IInv, Fresh, TypeOK
  <2> QED
    BY <1>0, <2>4, <2>5, <2>6, <2>7, <2>8 DEF IInv
<1>9. ASSUME NEW h \in Handlers, ReleaseFails(h) PROVE IInv'
  <2> DEFINE k == req[h].key
  <2>1. /\ req' = [req EXCEPT ![h] = Idle] /\ abandoned' = abandoned \cup {k}
        /\ UNCHANGED <<batches, stored, expired, accepted>> /\ Holds(h)
    BY <1>9 DEF ReleaseFails, Holds
  <2>2. /\ \A g \in Handlers : Holds(g)' <=> Holds(g) /\ g # h
        /\ \A g \in Handlers \ {h} : req'[g] = req[g] /\ Done(g)' = Done(g)
        /\ \A g \in Handlers : Holds(g)' => req[g].key # k
    BY <2>1, LetGo
  <2>3. k \in batches \ accepted
    BY <2>1 DEF IInv, HoldersReserve
  <2>4. HoldersReserve'
    BY <2>1, <2>2 DEF IInv, HoldersReserve
  <2>5. Alone'
    BY <2>2 DEF IInv, Alone
  <2>6. Classified'
    BY <2>1, <2>2 DEF IInv, Classified
  <2>7. AcceptedIsStored' /\ (abandoned \subseteq batches \ accepted)'
    BY <2>1, <2>3 DEF IInv, AcceptedIsStored
  <2>8. Fresh'
    BY <1>0, <2>1 DEF IInv, Fresh, TypeOK
  <2> QED
    BY <1>0, <2>4, <2>5, <2>6, <2>7, <2>8 DEF IInv
<1>10. ASSUME NEW K \in SUBSET Keys, NEW R \in SUBSET Records, Prune(K, R) PROVE IInv'
  <2>1. \A h \in Handlers : Holds(h) => req[h].key \notin K
    BY <1>10 DEF Prune, Holders
  <2>2. UNCHANGED req /\ batches' = batches \ K
        /\ accepted' = accepted \ K /\ abandoned' = abandoned \ K
        /\ stored \cup expired \subseteq stored' \cup expired'
    BY <1>10 DEF Prune
  <2>3. \A h \in Handlers : (Holds(h)' <=> Holds(h)) /\ Done(h)' = Done(h)
    BY <2>2 DEF Holds, Done
  <2>4. HoldersReserve'
    BY <2>1, <2>2, <2>3 DEF IInv, HoldersReserve
  <2>5. Alone' /\ Fresh'
    BY <2>2, <2>3 DEF IInv, Alone, Fresh
  <2>6. Classified'
    BY <2>2, <2>3 DEF IInv, Classified
  <2>7. AcceptedIsStored' /\ (abandoned \subseteq batches \ accepted)'
    BY <2>2 DEF IInv, AcceptedIsStored
  <2> QED
    BY <1>0, <2>4, <2>5, <2>6, <2>7 DEF IInv
<1>11. CASE Restart
  <2>1. \A h \in Handlers : ~Holds(h)' /\ req'[h].pc = "idle"
    BY <1>11 DEF Restart, Holds
  <2>2. UNCHANGED <<batches, stored, expired, accepted>>
        /\ abandoned' = abandoned \cup {k \in Keys : Holders(k) # {}}
    BY <1>11 DEF Restart
  <2>3. \A k \in Keys : Holders(k) # {} => k \in batches \ accepted
    BY DEF IInv, HoldersReserve, Holders
  <2>4. batches \subseteq Keys
    BY <1>0 DEF TypeOK
  <2>5. Classified'
    BY <2>2, <2>4 DEF IInv, Classified, Holders
  <2>6. HoldersReserve' /\ Alone' /\ Fresh'
    BY <2>1 DEF HoldersReserve, Alone, Fresh
  <2>7. AcceptedIsStored' /\ (abandoned \subseteq batches \ accepted)'
    BY <2>2, <2>3 DEF IInv, AcceptedIsStored
  <2> QED
    BY <1>0, <2>5, <2>6, <2>7 DEF IInv
<1>12. CASE UNCHANGED vars
  BY <1>0, <1>12 DEF vars, IInv, HoldersReserve, Alone, Classified, AcceptedIsStored, Fresh,
     Holds, Done
<1> QED
  BY <1>1, <1>2, <1>3, <1>4, <1>5, <1>6, <1>7, <1>8, <1>9, <1>10, <1>11, <1>12
  DEF Next, HandlerStep

LEMMA Strong == Spec => []IInv
  BY StrongInit, StrongStep, PTL DEF Spec

\* A batch is held by one request at a time, with its key reserved: records goes on
\* only after Reserve, and only one Reserve of a key succeeds.
THEOREM HeldByOne == Spec => []OneHolder
<1>1. IInv => OneHolder
  BY DEF IInv, OneHolder, Alone, HoldersReserve, Holders
<1> QED
  BY <1>1, Strong, PTL

\* What was answered as accepted is stored, but for records past the retention, and its
\* key reserved, whatever failed, was retried or was cut off by a restart.
THEOREM AcceptedStays == Spec => []AcceptedIsStored
<1>1. IInv => AcceptedIsStored
  BY DEF IInv
<1> QED
  BY <1>1, Strong, PTL

\* The answer "duplicate" means stored or expired, being stored, or left behind.
THEOREM DuplicateMeans == Spec => DuplicateIsStored
<1>1. IInv => \A h \in Handlers :
                Duplicate(h) => LET k == req[h].key IN
                                \/ RecordsOf(k) \subseteq stored \cup expired
                                \/ Holders(k) # {}
                                \/ k \in abandoned
  <2> SUFFICES ASSUME IInv, NEW h \in Handlers, Duplicate(h)
               PROVE  LET k == req[h].key IN
                      \/ RecordsOf(k) \subseteq stored \cup expired
                      \/ Holders(k) # {}
                      \/ k \in abandoned
    OBVIOUS
  <2>1. req[h].key \in batches
    BY DEF Duplicate
  <2> QED
    BY <2>1 DEF IInv, Classified, AcceptedIsStored, Holders
<1> QED
  BY <1>1, Strong, PTL DEF DuplicateIsStored

-----------------------------------------------------------------------------
(* Refinement of BatchLog                                                   *)

\* What has become of a batch can be read off the table and the histories.
Fates ==
    \A k \in Keys : /\ Holders(k) # {} <=> Fate(k) = "held"
                    /\ k \in accepted <=> Fate(k) = "applied"
                    /\ k \in abandoned <=> Fate(k) = "stuck"
                    /\ k \notin batches <=> Fate(k) = "free"

LEMMA FateNow == IInv => Fates
<1> SUFFICES ASSUME IInv, NEW k \in Keys
             PROVE  /\ Holders(k) # {} <=> Fate(k) = "held"
                    /\ k \in accepted <=> Fate(k) = "applied"
                    /\ k \in abandoned <=> Fate(k) = "stuck"
                    /\ k \notin batches <=> Fate(k) = "free"
  BY DEF Fates
<1>1. Holders(k) # {} => k \in batches /\ k \notin accepted /\ k \notin abandoned
  BY DEF IInv, HoldersReserve, Holders
<1>2. k \in accepted => k \in batches
  BY DEF IInv, AcceptedIsStored
<1>3. k \in abandoned => k \in batches /\ k \notin accepted
  BY DEF IInv
<1>4. k \in batches => k \in accepted \/ k \in abandoned \/ Holders(k) # {}
  BY DEF IInv, Classified, Holders
<1> QED
  BY <1>1, <1>2, <1>3, <1>4 DEF Fate

LEMMA FateNext == IInv' => Fates'
  BY FateNow, PTL

\* Nothing has happened to a batch whose reservation, answer and holders are as before.
LEMMA SameFate ==
    ASSUME IInv, NEW k \in Keys, (k \in batches)' <=> k \in batches,
           (k \in accepted)' <=> k \in accepted, (Holders(k) # {})' <=> Holders(k) # {}
    PROVE  Fate(k)' = Fate(k)
  BY DEF Fate

LEMMA LogInit == Init => Log!Init
<1> SUFFICES ASSUME Init PROVE Log!Init
  OBVIOUS
<1>1. IInv
  BY StrongInit
<1>2. \A k \in Keys : Fate(k) = "free"
  BY <1>1, FateNow DEF Init, Fates
<1> QED
  BY <1>2 DEF Init, Log!Init

\* One step of a handler, of the maintenance or of the process is one step of the log
\* or none.
LEMMA LogStep == IInv /\ IInv' /\ [Next]_vars => [Log!Next]_(Log!vars)
<1> SUFFICES ASSUME IInv, IInv', [Next]_vars PROVE [Log!Next]_(Log!vars)
  OBVIOUS
<1>a. Fates /\ Fates'
  BY FateNow, FateNext
<1>t. /\ req \in [Handlers -> Request] /\ req' \in [Handlers -> Request]
      /\ batches \subseteq Keys
  BY DEF IInv, TypeOK
<1> DEFINE L == [k \in Keys |-> Fate(k)]
<1>1. ASSUME \A k \in Keys : Fate(k)' = Fate(k), UNCHANGED <<stored, expired>>
      PROVE  UNCHANGED Log!vars
  BY <1>1 DEF Log!vars
<1>2. ASSUME NEW h \in Handlers,
             \A g \in Handlers \ {h} : req'[g] = req[g],
             req'[h].key = req[h].key \/ (~Holds(h) /\ ~Holds(h)'),
             Holds(h)' <=> Holds(h), UNCHANGED <<batches, accepted>>
      PROVE  \A k \in Keys : Fate(k)' = Fate(k)
  <2>1. \A k \in Keys : Holders(k)' = Holders(k)
    BY <1>2 DEF Holders, Holds
  <2> QED
    BY <1>2, <2>1, SameFate
<1>3. ASSUME NEW h \in Handlers, NEW k \in Keys, Authorize(h, k) PROVE UNCHANGED Log!vars
  <2>1. ~Holds(h) /\ ~Holds(h)' /\ \A g \in Handlers \ {h} : req'[g] = req[g]
    BY <1>3, <1>t, IdleKey DEF Authorize, Holds
  <2> QED
    BY <1>1, <1>2, <1>3, <2>1 DEF Authorize
<1>4. ASSUME NEW h \in Handlers, Lookup(h) \/ Refuse(h) \/ Duplicate(h)
      PROVE  UNCHANGED Log!vars
  <2>1. ~Holds(h) /\ ~Holds(h)' /\ \A g \in Handlers \ {h} : req'[g] = req[g]
    BY <1>4, <1>t, IdleKey DEF Lookup, Refuse, Duplicate, Holds, Request
  <2>2. UNCHANGED <<batches, stored, expired, accepted>>
    BY <1>4 DEF Lookup, Refuse, Duplicate
  <2> QED
    BY <1>1, <1>2, <2>1, <2>2
<1>5. ASSUME NEW h \in Handlers, Disconnect(h) \/ InsertFails(h) PROVE UNCHANGED Log!vars
  <2>1. /\ Holds(h)' <=> Holds(h)
        /\ req'[h].key = req[h].key /\ \A g \in Handlers \ {h} : req'[g] = req[g]
    BY <1>5, <1>t DEF Disconnect, InsertFails, Holds, Request
  <2>2. UNCHANGED <<batches, stored, expired, accepted>>
    BY <1>5 DEF Disconnect, InsertFails
  <2> QED
    BY <1>1, <1>2, <2>1, <2>2
<1>6. ASSUME NEW h \in Handlers, Reserve(h) PROVE Log!Next
  <2>k. PICK k \in Keys : k = req[h].key
    BY <1>t DEF Request
  <2>1. /\ k \in Keys /\ k \notin batches /\ batches' = batches \cup {k}
        /\ UNCHANGED <<stored, expired, accepted>>
    BY <2>k, <1>6, <1>t DEF Reserve, Request
  <2>2. /\ req'[h].pc = "insert" /\ req'[h].key = k /\ req[h].pc = "reserve"
        /\ \A g \in Handlers \ {h} : req'[g] = req[g]
    BY <2>k, <1>6, <1>t DEF Reserve, Request
  <2>3. Fate(k) = "free" /\ Fate(k)' = "held"
    BY <2>k, <1>a, <2>1, <2>2 DEF Fates, Holders, Holds
  <2>4. \A j \in Keys \ {k} : Holders(j)' = Holders(j)
    BY <2>k, <2>2 DEF Holders, Holds
  <2>5. \A j \in Keys \ {k} : Fate(j)' = Fate(j)
    BY <2>k, <2>1, <2>4, SameFate
  <2>6. Log!Hold(k)
    BY <2>k, <2>1, <2>3, <2>5 DEF Log!Hold
  <2> QED
    BY <2>k, <2>1, <2>6 DEF Log!Next
<1>7. ASSUME NEW h \in Handlers, Insert(h) PROVE Log!Next
  <2>k. PICK k \in Keys : k = req[h].key
    BY <1>t DEF Request
  <2>1. /\ Holds(h) /\ Holds(h)'
        /\ req'[h].key = k /\ \A g \in Handlers \ {h} : req'[g] = req[g]
    BY <2>k, <1>7, <1>t DEF Insert, Holds, Request
  <2>2. k \in Keys /\ req[h].at \in 1..Len(BatchOf[k])
    BY <2>k, <1>t DEF Request, IInv, TypeOK
  <2>3. UNCHANGED <<batches, expired, accepted>> /\ stored' = stored \cup {BatchOf[k][req[h].at]}
    BY <2>k, <1>7 DEF Insert
  <2>4. Fate(k) = "held"
    BY <2>k, <1>a, <2>1, <2>2 DEF Fates, Holders
  <2>5. \A j \in Keys : Fate(j)' = Fate(j)
    BY <2>k, <1>2, <2>1, <2>3
  <2>6. BatchOf[k][req[h].at] \in Log!RecordsOf(k)
    BY <2>k, <2>2 DEF Log!RecordsOf
  <2>7. Log!Store(k)
    BY <2>k, <2>2, <2>3, <2>4, <2>5, <2>6 DEF Log!Store
  <2> QED
    BY <2>k, <2>2, <2>7 DEF Log!Next
<1>8. ASSUME NEW h \in Handlers, Effects(h) PROVE [Log!Next]_(Log!vars)
  <2>k. PICK k \in Keys : k = req[h].key
    BY <1>t DEF Request
  <2>1. k \in Keys /\ Holds(h)
    BY <2>k, <1>8, <1>t DEF Effects, Holds, Request
  <2>2. CASE req[h].at < Len(BatchOf[k])
    <3>1. req' = [req EXCEPT ![h] = [@ EXCEPT !.pc = "insert", !.at = req[h].at + 1]]
          /\ UNCHANGED <<batches, stored, expired, accepted>>
      BY <2>k, <1>8, <2>2 DEF Effects
    <3>2. req[h] \in Request
      BY <2>k, <1>t
    <3>3. /\ Holds(h)' /\ req'[h].key = k /\ \A g \in Handlers \ {h} : req'[g] = req[g]
      BY <2>k, <1>t, <3>1, <3>2 DEF Holds, Request
    <3> QED
      BY <2>k, <1>1, <1>2, <2>1, <3>1, <3>3
  <2>3. CASE ~(req[h].at < Len(BatchOf[k]))
    <3>1. req' = [req EXCEPT ![h] = Idle] /\ accepted' = accepted \cup {k}
          /\ UNCHANGED <<batches, stored, expired>>
      BY <2>k, <1>8, <2>3 DEF Effects
    <3>2. \A j \in Keys \ {k} : Holders(j)' = Holders(j)
      BY <2>k, <1>t, <2>1, <3>1, LetGo DEF Holders, Holds
    <3>3. \A j \in Keys \ {k} : Fate(j)' = Fate(j)
      BY <2>k, <3>1, <3>2, SameFate
    <3>4. Fate(k) = "held" /\ Fate(k)' = "applied"
      BY <2>k, <1>a, <2>1, <3>1 DEF Fates, Holders
    <3>5. Log!RecordsOf(k) = RecordsOf(k)
      BY <2>k DEF Log!RecordsOf, RecordsOf
    <3>6. RecordsOf(k) \subseteq stored \cup expired
      BY <2>k, <3>1 DEF IInv, AcceptedIsStored, RecordsOf
    <3>7. Log!Apply(k)
      BY <2>k, <2>1, <3>1, <3>3, <3>4, <3>5, <3>6 DEF Log!Apply
    <3> QED
      BY <2>k, <2>1, <3>7 DEF Log!Next
  <2> QED
    BY <2>2, <2>3
<1>9. ASSUME NEW h \in Handlers, Release(h) PROVE Log!Next
  <2>k. PICK k \in Keys : k = req[h].key
    BY <1>t DEF Request
  <2>1. /\ k \in Keys /\ Holds(h) /\ req' = [req EXCEPT ![h] = Idle]
        /\ batches' = batches \ {k} /\ UNCHANGED <<stored, expired, accepted>>
    BY <2>k, <1>9, <1>t DEF Release, Holds, Request
  <2>2. \A j \in Keys \ {k} : Holders(j)' = Holders(j)
    BY <2>k, <1>t, <2>1, LetGo DEF Holders, Holds
  <2>3. \A j \in Keys \ {k} : Fate(j)' = Fate(j)
    BY <2>k, <2>1, <2>2, SameFate
  <2>4. Fate(k) = "held" /\ Fate(k)' = "free"
    BY <2>k, <1>a, <2>1 DEF Fates, Holders
  <2>5. Log!GiveUp(k)
    BY <2>k, <2>1, <2>3, <2>4 DEF Log!GiveUp
  <2> QED
    BY <2>k, <2>1, <2>5 DEF Log!Next
<1>10. ASSUME NEW h \in Handlers, ReleaseFails(h) PROVE Log!Next
  <2>k. PICK k \in Keys : k = req[h].key
    BY <1>t DEF Request
  <2>1. /\ k \in Keys /\ Holds(h) /\ req' = [req EXCEPT ![h] = Idle]
        /\ abandoned' = abandoned \cup {k} /\ UNCHANGED <<batches, stored, expired, accepted>>
    BY <2>k, <1>10, <1>t DEF ReleaseFails, Holds, Request
  <2>2. \A j \in Keys \ {k} : Holders(j)' = Holders(j)
    BY <2>k, <1>t, <2>1, LetGo DEF Holders, Holds
  <2>3. \A j \in Keys \ {k} : Fate(j)' = Fate(j)
    BY <2>k, <2>1, <2>2, SameFate
  <2>4. Fate(k) = "held" /\ Fate(k)' = "stuck"
    BY <2>k, <1>a, <2>1 DEF Fates, Holders
  <2>5. Log!Abandon({k})
    BY <2>k, <2>1, <2>3, <2>4 DEF Log!Abandon
  <2> QED
    BY <2>k, <2>1, <2>5 DEF Log!Next
<1>11. ASSUME NEW K \in SUBSET Keys, NEW R \in SUBSET Records, Prune(K, R) PROVE Log!Next
  <2>1. /\ \A k \in K : k \in batches /\ Holders(k) = {}
        /\ batches' = batches \ K /\ accepted' = accepted \ K /\ UNCHANGED req
        /\ expired' = expired \cup R /\ stored' = stored \ expired'
    BY <1>11 DEF Prune
  <2>2. \A j \in Keys : Holders(j)' = Holders(j)
    BY <2>1 DEF Holders, Holds
  <2>3. \A j \in Keys \ K : Fate(j)' = Fate(j)
    BY <2>1, <2>2, SameFate
  <2>4. \A k \in K : Fate(k) \in {"applied", "stuck"} /\ Fate(k)' = "free"
    BY <1>a, <2>1 DEF Fates, Fate
  <2>5. Log!Expire(R, K)
    BY <2>1, <2>3, <2>4 DEF Log!Expire
  <2> QED
    BY <2>5 DEF Log!Next
<1>12. CASE Restart
  <2> DEFINE S == {k \in Keys : Holders(k) # {}}
  <2>1. \A h \in Handlers : ~Holds(h)'
    BY <1>12, IdleKey DEF Restart, Holds
  <2>2. UNCHANGED <<batches, stored, expired, accepted>> /\ abandoned' = abandoned \cup S
    BY <1>12 DEF Restart
  <2>3. \A k \in Keys : Holders(k)' = {}
    BY <2>1 DEF Holders
  <2>4. \A k \in S : Fate(k) = "held" /\ Fate(k)' = "stuck"
    BY <1>a, <2>2 DEF Fates
  <2>5. \A k \in Keys \ S : Fate(k)' = Fate(k)
    BY <2>2, <2>3, SameFate
  <2>6. Log!Abandon(S)
    BY <2>2, <2>4, <2>5 DEF Log!Abandon
  <2> QED
    BY <2>6 DEF Log!Next
<1>13. CASE UNCHANGED vars
  <2>1. \A k \in Keys : Fate(k)' = Fate(k)
    BY <1>13 DEF vars, Fate, Holders, Holds
  <2> QED
    BY <1>1, <1>13, <2>1 DEF vars
<1> QED
  BY <1>3, <1>4, <1>5, <1>6, <1>7, <1>8, <1>9, <1>10, <1>11, <1>12, <1>13
  DEF Next, HandlerStep

\* Push ingestion implements the log: held by one, applied whole but for what has
\* expired, and held again only after it was given up or forgotten.
THEOREM ImplementsLog == Spec => LogSpec
  BY LogInit, LogStep, Strong, PTL DEF Spec, LogSpec, Log!Spec

-----------------------------------------------------------------------------
(***************************************************************************)
(* Maintenance, which deletes what the handlers have stored: for any       *)
(* samples, hours, retentions, times and runs.                             *)
(***************************************************************************)
\* Hours hold samples of theirs that were deleted, and what was deleted was past the
\* retention: only a late arrival of it is in the table again.
Placed == /\ \A h \in Hours : rollup[h] \subseteq InHour(pruned, h)
          /\ \A s \in pruned : time[s] < Cutoff(now)
          /\ \A s \in raw \cap pruned : HourOf(time[s]) \subseteq late

\* A run started in the past.
Started == run.started <= now

\* Samples of an hour are deleted when all of it is past the retention, so none is
\* left of it and none can come without being late.
Closed ==
    \A h \in Hours \ (cut \cup late) :
        InHour(pruned, h) # {} => /\ Start(h + 1) <= Cutoff(now)
                                  /\ InHour(raw, h) = {}

\* What the run under way and the rows agree on.
RowOfRun ==
    /\ run.pc # "idle" => runs[run.id] = "running"
    /\ run.pc = "begun" => run.id \notin committed
    /\ run.pc = "committed" => run.id \in committed
    /\ run.pc = "failed" => run.id \notin committed \ unmarked
    /\ \A i \in Ids : runs[i] = "absent" => i \notin committed

RollupInv ==
    /\ MTypeOK
    /\ Placed
    /\ Started
    /\ Closed
    /\ RollupHoldsPruned
    /\ RowOfRun
    /\ OutcomeIsTrue

-----------------------------------------------------------------------------
\* An hour starts at some time.
LEMMA StartIsTime == \A h \in Hours : Start(h) \in Int /\ Start(h + 1) \in Int
BY MaintenanceAssumption DEF Hours, Times, Start

LEMMA RollupInit == MInit => RollupInv
<1> SUFFICES ASSUME MInit PROVE RollupInv
  OBVIOUS
<1>1. MTypeOK
  BY MaintenanceAssumption DEF MInit, MTypeOK, Run, NoRun, Hours, Times, Status
<1>2. \A h \in Hours : InHour(pruned, h) = {} /\ rollup[h] = {}
  BY DEF MInit, InHour
<1>3. Placed /\ Closed /\ RollupHoldsPruned
  BY <1>2 DEF MInit, Placed, Closed, RollupHoldsPruned
<1> QED
  BY <1>1, <1>3 DEF RollupInv, MInit, Started, NoRun, RowOfRun, OutcomeIsTrue

\* One step of anything keeps the types.
LEMMA MaintenanceTypeStep == MTypeOK /\ [MNext]_mvars => MTypeOK'
<1> SUFFICES ASSUME MTypeOK, [MNext]_mvars PROVE MTypeOK'
  OBVIOUS
<1> USE MaintenanceAssumption
<1>1. CASE Tick
  BY <1>1 DEF Tick, MTypeOK
<1>2. ASSUME NEW s \in Samples, NEW t \in Times, Arrive(s, t) PROVE MTypeOK'
  BY <1>2 DEF Arrive, MTypeOK, HourOf, Times
<1>3. ASSUME NEW i \in Ids, Begin(i) PROVE MTypeOK'
  BY <1>3 DEF Begin, MTypeOK, Run, Status
<1>4. CASE BeginTxFails \/ GiveUp
  BY <1>4 DEF BeginTxFails, GiveUp, MTypeOK, Run, NoRun
<1>5. CASE Commit
  <2>1. Old(run.started) \subseteq Samples
    BY DEF Old, MTypeOK
  <2>2. rollup' \in [Hours -> SUBSET Samples]
    BY <1>5, <2>1 DEF Commit, RolledUp, InHour, MTypeOK
  <2>3. cut' \subseteq Hours
    BY <1>5 DEF Commit, MTypeOK
  <2>4. run' \in Run /\ run'.id = run.id
    BY <1>5 DEF Commit, MTypeOK, Run
  <2> QED
    BY <1>5, <2>1, <2>2, <2>3, <2>4 DEF Commit, MTypeOK
<1>6. CASE RollBack
  BY <1>6 DEF RollBack, MTypeOK, Run
<1>7. CASE MarkOk \/ MarkError
  BY <1>7 DEF MarkOk, MarkError, MTypeOK, Run, NoRun, Status
<1>8. CASE MarkOkFails
  BY <1>8 DEF MarkOkFails, MTypeOK, Run
<1>9. CASE UNCHANGED mvars
  BY <1>9 DEF mvars, MTypeOK
<1> QED
  BY <1>1, <1>2, <1>3, <1>4, <1>5, <1>6, <1>7, <1>8, <1>9 DEF MNext

\* The time a run started at is kept, or is now.
LEMMA StartedStep == MTypeOK /\ Started /\ [MNext]_mvars => Started'
<1> SUFFICES ASSUME MTypeOK, Started, [MNext]_mvars PROVE Started'
  OBVIOUS
<1>1. now' >= now /\ (run'.started \in {run.started, now, 0})
  BY MaintenanceAssumption
  DEF MNext, mvars, Tick, Arrive, Begin, BeginTxFails, Commit, RollBack, MarkOk, MarkOkFails,
      MarkError, GiveUp, NoRun, MTypeOK, Run
<1> QED
  BY <1>1, MaintenanceTypeStep DEF Started, MTypeOK, Run

-----------------------------------------------------------------------------
\* Only Arrive, the clock and Commit touch what the hours are computed from.
Tables == <<now, time, raw, rollup, pruned, cut, late>>

LEMMA OtherSteps ==
    [MNext]_mvars =>
        \/ Tick \/ Commit
        \/ \E s \in Samples, t \in Times : Arrive(s, t)
        \/ UNCHANGED Tables
BY DEF MNext, mvars, Tables, Begin, BeginTxFails, RollBack, MarkOk, MarkOkFails, MarkError, GiveUp

\* Samples are deleted when they are rolled up, and not before or after; one that comes
\* again comes late.
LEMMA PlacedStep == MTypeOK /\ Started /\ Placed /\ [MNext]_mvars => Placed'
<1> SUFFICES ASSUME MTypeOK, Started, Placed, [MNext]_mvars PROVE Placed'
  OBVIOUS
<1> USE MaintenanceAssumption
<1>1. CASE Commit
  <2>1. Old(run.started) \subseteq raw /\ now' = now /\ time' = time /\ late' = late
        /\ raw' = raw \ Old(run.started) /\ pruned' = pruned \cup Old(run.started)
    BY <1>1 DEF Old, Commit
  <2>2. ASSUME NEW h \in Hours PROVE rollup'[h] \subseteq InHour(pruned, h)'
    BY <1>1, <2>1 DEF Commit, RolledUp, InHour, MTypeOK, Placed
  <2>3. \A s \in Old(run.started) : time[s] < Cutoff(now)
    BY DEF Old, Cutoff, MTypeOK, Run, Started, Times
  <2>4. \A s \in pruned' : time'[s] < Cutoff(now')
    BY <2>1, <2>3 DEF Placed
  <2>5. \A s \in raw' \cap pruned' : HourOf(time'[s]) \subseteq late'
    BY <2>1 DEF Placed
  <2> QED
    BY <2>2, <2>4, <2>5 DEF Placed
<1>2. ASSUME NEW s \in Samples, NEW t \in Times, Arrive(s, t) PROVE Placed'
  <2>1. /\ \A u \in pruned : time'[u] = time[u]
        /\ now' = now /\ pruned' = pruned /\ rollup' = rollup /\ late \subseteq late'
        /\ raw' = raw \cup {s} /\ time'[s] = t /\ (s \in pruned => t = time[s])
    BY <1>2 DEF Arrive, MTypeOK
  <2>2. \A h \in Hours : InHour(pruned, h)' = InHour(pruned, h)
    BY <2>1 DEF InHour
  <2>3. s \in pruned => HourOf(t) \subseteq late'
    BY <1>2, <2>1 DEF Placed, Arrive
  <2>4. \A u \in raw' \cap pruned' : HourOf(time'[u]) \subseteq late'
    <3>1. \A u \in raw \cap pruned : HourOf(time'[u]) \subseteq late'
      BY <2>1 DEF Placed
    <3> QED
      BY <2>1, <2>3, <3>1
  <2> QED
    BY <2>1, <2>2, <2>4 DEF Placed
<1>3. CASE Tick
  <2>1. now' = now + 1 /\ UNCHANGED <<time, raw, rollup, pruned, late>>
    BY <1>3 DEF Tick
  <2>2. \A s \in pruned : time[s] < Cutoff(now + 1)
    BY DEF Placed, Cutoff, MTypeOK, Times
  <2> QED
    BY <2>1, <2>2 DEF Placed, InHour
<1>4. CASE UNCHANGED Tables
  BY <1>4 DEF Tables, Placed, InHour
<1> QED
  BY <1>1, <1>2, <1>3, <1>4, OtherSteps

\* A cutoff that is not inside an hour leaves the hour whole: nothing of it is old, or
\* all of it is.
LEMMA WholeHours ==
    ASSUME MTypeOK, Started, Commit, NEW h \in Hours \ cut'
    PROVE  \/ InHour(Old(run.started), h) = {}
           \/ /\ InHour(Old(run.started), h) = InHour(raw, h)
              /\ Start(h + 1) <= Cutoff(now)
<1> DEFINE c == Cutoff(run.started)
<1>1. c \in Int /\ c <= Cutoff(now) /\ Cutoff(now) \in Int
  BY MaintenanceAssumption DEF Cutoff, MTypeOK, Run, Started
<1>2. Start(h) \in Int /\ Start(h + 1) \in Int
  BY StartIsTime
<1>3. \A s \in raw : time[s] \in Int
  BY MaintenanceAssumption DEF MTypeOK, Times
<1>4. ~(Start(h) < c /\ c < Start(h + 1))
  BY DEF Commit
<1>5. CASE c <= Start(h)
  BY <1>1, <1>2, <1>3, <1>5 DEF InHour, HourOf, Old
<1>6. CASE Start(h + 1) <= c
  BY <1>1, <1>2, <1>3, <1>6 DEF InHour, HourOf, Old
<1> QED
  BY <1>1, <1>2, <1>4, <1>5, <1>6

\* A commit takes all of the old samples out of the table.
LEMMA CommittedHours ==
    ASSUME Commit, NEW h \in Hours
    PROVE  /\ InHour(pruned, h)' = InHour(pruned, h) \cup InHour(Old(run.started), h)
           /\ InHour(raw, h)' = InHour(raw, h) \ InHour(Old(run.started), h)
BY DEF Commit, InHour

LEMMA ClosedStep == MTypeOK /\ Started /\ Placed /\ Closed /\ [MNext]_mvars => Closed'
<1> SUFFICES ASSUME MTypeOK, Started, Placed, Closed, [MNext]_mvars,
                    NEW h \in Hours, h \notin (cut \cup late)', InHour(pruned, h)' # {}
             PROVE  Start(h + 1) <= Cutoff(now') /\ InHour(raw, h)' = {}
  BY DEF Closed
<1>0. Start(h + 1) \in Int /\ Cutoff(now) \in Int
  BY StartIsTime, MaintenanceAssumption DEF Cutoff, MTypeOK
<1>1. CASE Commit
  <2>1. h \notin cut \cup late /\ h \notin cut' /\ now' = now
    BY <1>1 DEF Commit
  <2>2. CASE InHour(Old(run.started), h) = {}
    BY <1>1, <2>1, <2>2, CommittedHours DEF Closed
  <2>3. CASE /\ InHour(Old(run.started), h) = InHour(raw, h)
             /\ Start(h + 1) <= Cutoff(now)
    BY <1>1, <2>1, <2>3, CommittedHours
  <2> QED
    BY <1>1, <2>1, <2>2, <2>3, WholeHours
<1>2. ASSUME NEW s \in Samples, NEW t \in Times, Arrive(s, t)
      PROVE  Start(h + 1) <= Cutoff(now') /\ InHour(raw, h)' = {}
  <2>1. InHour(pruned, h)' = InHour(pruned, h) /\ h \notin cut \cup late /\ now' = now
    BY <1>2 DEF Arrive, InHour, MTypeOK
  <2>2. Start(h + 1) <= Cutoff(now) /\ InHour(raw, h) = {}
    BY <2>1 DEF Closed
  <2>3. h \notin HourOf(t)
    <3>1. CASE t < Cutoff(now)
      BY <1>2, <3>1 DEF Arrive
    <3>2. CASE ~(t < Cutoff(now))
      BY <1>0, <2>2, <3>2, MaintenanceAssumption DEF HourOf, Times
    <3> QED
      BY <3>1, <3>2
  <2> QED
    BY <1>2, <2>1, <2>2, <2>3 DEF Arrive, InHour, MTypeOK
<1>3. CASE Tick
  <2>1. InHour(pruned, h)' = InHour(pruned, h) /\ InHour(raw, h)' = InHour(raw, h)
    BY <1>3 DEF Tick, InHour
  <2>2. Start(h + 1) <= Cutoff(now) /\ InHour(raw, h) = {} /\ h \notin cut \cup late
    BY <1>3, <2>1 DEF Tick, Closed
  <2>3. Cutoff(now') = Cutoff(now) + 1
    BY <1>3, MaintenanceAssumption DEF Tick, Cutoff, MTypeOK
  <2> QED
    BY <1>0, <2>1, <2>2, <2>3
<1>4. CASE UNCHANGED Tables
  BY <1>4 DEF Tables, Closed, InHour
<1> QED
  BY <1>1, <1>2, <1>3, <1>4, OtherSteps

LEMMA RollupStep ==
    MTypeOK /\ Started /\ Placed /\ Closed /\ RollupHoldsPruned /\ [MNext]_mvars
        => RollupHoldsPruned'
<1> SUFFICES ASSUME MTypeOK, Started, Placed, Closed, RollupHoldsPruned, [MNext]_mvars,
                    NEW h \in Hours, h \notin (cut \cup late)'
             PROVE  \/ rollup'[h] = InHour(pruned, h)'
                    \/ rollup'[h] = {} /\ Start(h) < now' - RollupRetention
  BY DEF RollupHoldsPruned
<1>0. Start(h) \in Int /\ now \in Int /\ RollupRetention \in Int
  BY StartIsTime, MaintenanceAssumption DEF MTypeOK
<1>1. CASE Commit
  <2>0. /\ h \notin cut \cup late
        /\ h \notin cut'
        /\ now' = now
        /\ rollup'[h] = IF Expired(h) THEN {} ELSE RolledUp(Old(run.started), h)
    BY <1>1 DEF Commit
  <2>1. CASE Expired(h)
    <3>1. run.started \in Int /\ run.started <= now
      BY MaintenanceAssumption DEF Started, MTypeOK, Run
    <3> QED
      BY <1>0, <2>0, <2>1, <3>1 DEF Expired
  <2>2. CASE ~Expired(h) /\ InHour(Old(run.started), h) = {}
    <3>1. rollup'[h] = rollup[h]
      BY <2>0, <2>2 DEF RolledUp
    <3>2. InHour(pruned, h)' = InHour(pruned, h)
      BY <1>1, <2>2, CommittedHours
    <3> QED
      BY <2>0, <3>1, <3>2 DEF RollupHoldsPruned
  <2>3. CASE ~Expired(h) /\ InHour(Old(run.started), h) # {}
    <3>1. InHour(Old(run.started), h) = InHour(raw, h)
      BY <1>1, <2>0, <2>3, WholeHours
    <3>2. InHour(pruned, h) = {}
      BY <2>0, <2>3, <3>1 DEF Closed
    <3>3. rollup'[h] = InHour(Old(run.started), h)
      BY <2>0, <2>3 DEF RolledUp
    <3> QED
      BY <1>1, <3>2, <3>3, CommittedHours
  <2> QED
    BY <2>1, <2>2, <2>3
<1>2. ASSUME NEW s \in Samples, NEW t \in Times, Arrive(s, t)
      PROVE  \/ rollup'[h] = InHour(pruned, h)'
             \/ rollup'[h] = {} /\ Start(h) < now' - RollupRetention
  <2>1. InHour(pruned, h)' = InHour(pruned, h)
    BY <1>2 DEF Arrive, InHour, MTypeOK
  <2> QED
    BY <1>2, <2>1 DEF Arrive, RollupHoldsPruned
<1>3. CASE Tick
  <2>1. InHour(pruned, h)' = InHour(pruned, h)
    BY <1>3 DEF Tick, InHour
  <2> QED
    BY <1>0, <1>3, <2>1 DEF Tick, RollupHoldsPruned
<1>4. CASE UNCHANGED Tables
  BY <1>4 DEF Tables, RollupHoldsPruned, InHour
<1> QED
  BY <1>1, <1>2, <1>3, <1>4, OtherSteps

LEMMA RowStep ==
    MTypeOK /\ RowOfRun /\ OutcomeIsTrue /\ [MNext]_mvars => RowOfRun' /\ OutcomeIsTrue'
<1> SUFFICES ASSUME MTypeOK, RowOfRun, OutcomeIsTrue, [MNext]_mvars
             PROVE  RowOfRun' /\ OutcomeIsTrue'
  OBVIOUS
<1>1. ASSUME NEW i \in Ids, Begin(i) PROVE RowOfRun' /\ OutcomeIsTrue'
  BY <1>1 DEF Begin, RowOfRun, OutcomeIsTrue, MTypeOK
<1>2. CASE BeginTxFails \/ GiveUp
  BY <1>2 DEF BeginTxFails, GiveUp, NoRun, RowOfRun, OutcomeIsTrue
<1>3. CASE Commit
  <2>1. run' = [run EXCEPT !.pc = "committed"] /\ run'.pc = "committed" /\ run'.id = run.id
    BY <1>3 DEF Commit, MTypeOK, Run
  <2>2. runs[run.id] = "running" /\ runs' = runs /\ unmarked' = unmarked
        /\ committed' = committed \cup {run.id}
    BY <1>3 DEF Commit, RowOfRun
  <2> QED
    BY <2>1, <2>2 DEF RowOfRun, OutcomeIsTrue
<1>4. CASE RollBack
  <2>1. run'.pc = "failed" /\ run'.id = run.id
    BY <1>4 DEF RollBack, MTypeOK, Run
  <2> QED
    BY <1>4, <2>1 DEF RollBack, RowOfRun, OutcomeIsTrue
<1>5. CASE MarkOk
  BY <1>5 DEF MarkOk, NoRun, RowOfRun, OutcomeIsTrue, MTypeOK
<1>6. CASE MarkOkFails
  <2>1. run'.pc = "failed" /\ run'.id = run.id
    BY <1>6 DEF MarkOkFails, MTypeOK, Run
  <2> QED
    BY <1>6, <2>1 DEF MarkOkFails, RowOfRun, OutcomeIsTrue
<1>7. CASE MarkError
  BY <1>7 DEF MarkError, NoRun, RowOfRun, OutcomeIsTrue, MTypeOK
<1>8. CASE Tick \/ UNCHANGED mvars
  BY <1>8 DEF Tick, mvars, RowOfRun, OutcomeIsTrue
<1>9. ASSUME NEW s \in Samples, NEW t \in Times, Arrive(s, t)
      PROVE  RowOfRun' /\ OutcomeIsTrue'
  BY <1>9 DEF Arrive, RowOfRun, OutcomeIsTrue
<1> QED
  BY <1>1, <1>2, <1>3, <1>4, <1>5, <1>6, <1>7, <1>8, <1>9 DEF MNext

LEMMA RollupInductive == MSpec => []RollupInv
<1>1. RollupInv /\ [MNext]_mvars => RollupInv'
  BY MaintenanceTypeStep, StartedStep, PlacedStep, ClosedStep, RollupStep, RowStep DEF RollupInv
<1> QED
  BY RollupInit, <1>1, PTL DEF MSpec

-----------------------------------------------------------------------------
\* Every reachable state is well typed.
THEOREM MaintenanceTypeCorrect == MSpec => []MTypeOK
<1>1. RollupInv => MTypeOK
  BY DEF RollupInv
<1> QED
  BY RollupInductive, <1>1, PTL

\* The row of an hour is computed from every sample of the hour that was deleted, for
\* any lengths of hours and retentions, whatever runs fail and samples come late
\* (Maintenance.Run).
THEOREM RollupComplete == MSpec => []RollupHoldsPruned
<1>1. RollupInv => RollupHoldsPruned
  BY DEF RollupInv
<1> QED
  BY RollupInductive, <1>1, PTL

\* No sample is in the row of an hour and in the metrics table at once, unless one
\* came late to that hour.
THEOREM CountedOnce == MSpec => []NothingCountedTwice
<1>1. RollupInv => NothingCountedTwice
  BY DEF RollupInv, Placed, InHour, NothingCountedTwice
<1> QED
  BY RollupInductive, <1>1, PTL

\* The row of a run tells whether the run was committed.
THEOREM RowsTellTrue == MSpec => []OutcomeIsTrue
<1>1. RollupInv => OutcomeIsTrue
  BY DEF RollupInv
<1> QED
  BY RollupInductive, <1>1, PTL
=============================================================================
