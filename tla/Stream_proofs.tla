---------------------------- MODULE Stream_proofs ----------------------------
(***************************************************************************)
(* Safety theorems about Stream, for any sources, publishers, sockets and  *)
(* changes of what the page shows.                                         *)
(***************************************************************************)
EXTENDS Stream, FiniteSetTheorems, TLAPS

\* No source has more views than views were opened.
Counted == \A s \in Sources : views[s] <= changes

\* Whoever is still to be sent a frame is subscribed to its source.
Subscribed == \A p \in Publishers : pub[p].pc = "send" =>
                \A c \in pub[p].left : pub[p].source \in subs[c]

IInv == TypeOK /\ Counted /\ OneLiveSocket /\ Subscribed

-----------------------------------------------------------------------------
\* The parts of the type invariant that the page changes.
PageType ==
    /\ views \in [Sources -> 0..MaxChanges]
    /\ socket \in Sockets \cup {0}
    /\ ready \in [Sockets -> {"new", "connecting", "open", "closing", "closed"}]
    /\ timer \in BOOLEAN
    /\ opened \in 0..MaxSockets
    /\ changes \in 0..MaxChanges
    /\ toServer \in [Sockets -> Seq(Message)]

LEMMA SomeSource == (CHOOSE s \in Sources : TRUE) \in Sources
BY StreamAssumption

LEMMA NothingYet == NoMessage \in Message /\ NoConn \in Conn /\ NoPub \in Pub
<1>1. NoMessage \in Message
  BY SomeSource DEF NoMessage, Message
<1> QED
  BY <1>1, SomeSource DEF NoConn, Conn, NoPub, Pub

\* A handler that is not registered is an entry of the right type.
LEMMA UnregisteredIsEntry == Unregistered \in (SUBSET Sources) \cup {Unregistered}
<1>1. \A S, x : x \in S \cup {x}
  OBVIOUS
<1> QED
  BY <1>1

LEMMA InitHolds == Init => IInv
<1> SUFFICES ASSUME Init PROVE IInv
  OBVIOUS
<1>1. TypeOK
  <2>1. PageType
    <3>1. <<>> \in Seq(Message)
      OBVIOUS
    <3>2. toServer \in [Sockets -> Seq(Message)]
      BY <3>1 DEF Init
    <3>3. opened \in 0..MaxSockets /\ changes \in 0..MaxChanges
      BY StreamAssumption DEF Init
    <3>4. views \in [Sources -> 0..MaxChanges]
      BY StreamAssumption DEF Init
    <3> QED
      BY <3>2, <3>3, <3>4 DEF Init, PageType
  <2>2. conn \in [Sockets -> Conn] /\ pub \in [Publishers -> Pub]
    BY NothingYet DEF Init
  <2>3. \A c \in Sockets : conn[c].pc = "none" /\ subs[c] = Unregistered
    BY DEF Init, NoConn
  <2>4. subs \in [Sockets -> (SUBSET Sources) \cup {Unregistered}]
    <3>1. Unregistered \in (SUBSET Sources) \cup {Unregistered}
      BY UnregisteredIsEntry
    <3> QED
      BY <3>1 DEF Init
  <2> QED
    BY <2>1, <2>2, <2>3, <2>4 DEF TypeOK, PageType
<1>2. Counted /\ OneLiveSocket /\ Subscribed
  BY DEF Init, Counted, OneLiveSocket, Subscribed, NoPub
<1> QED
  BY <1>1, <1>2 DEF IInv

-----------------------------------------------------------------------------
(* The page                                                                 *)

\* Opening a socket, or not, keeps one live.
LEMMA EnsureStep ==
    ASSUME PageType, OneLiveSocket, EnsureConnected
    PROVE  /\ socket' \in Sockets \cup {0}
           /\ ready' \in [Sockets -> {"new", "connecting", "open", "closing", "closed"}]
           /\ opened' \in 0..MaxSockets
           /\ OneLiveSocket'
<1>1. CASE Connected
  BY <1>1 DEF EnsureConnected, PageType, OneLiveSocket
<1>2. CASE ~Connected
  <2>1. opened + 1 \in Sockets
    BY <1>2, StreamAssumption DEF EnsureConnected, PageType, Sockets
  <2>2. \A c \in Sockets : ready[c] \notin {"connecting", "open"}
    BY <1>2, StreamAssumption DEF Connected, OneLiveSocket, Sockets, PageType
  <2> QED
    BY <1>2, <2>1, <2>2, StreamAssumption DEF EnsureConnected, PageType, OneLiveSocket, Sockets
<1> QED
  BY <1>1, <1>2

LEMMA SendStep ==
    ASSUME PageType, NEW a \in {"subscribe", "unsubscribe"}, NEW s \in Sources, Send(a, s)
    PROVE  toServer' \in [Sockets -> Seq(Message)]
<1> DEFINE m == [action |-> a, source |-> s]
<1>1. m \in Message
  BY DEF Message
<1>2. \/ UNCHANGED toServer
      \/ socket \in Sockets /\ toServer' = [toServer EXCEPT ![socket] = Append(@, m)]
  BY DEF Send, PageType
<1> HIDE DEF m
<1>3. CASE UNCHANGED toServer
  BY <1>3 DEF PageType
<1>4. CASE socket \in Sockets /\ toServer' = [toServer EXCEPT ![socket] = Append(@, m)]
  <2>1. toServer[socket] \in Seq(Message)
    BY <1>4 DEF PageType
  <2>2. Append(toServer[socket], m) \in Seq(Message)
    BY <1>1, <2>1
  <2> QED
    BY <1>4, <2>2 DEF PageType
<1> QED
  BY <1>2, <1>3, <1>4

\* What is subscribed to when a socket opens is a sequence of messages.
LEMMA OrderIsSeq ==
    ASSUME NEW order \in [1..Cardinality(Wanted) -> Wanted]
    PROVE  [i \in DOMAIN order |-> [action |-> "subscribe", source |-> order[i]]] \in Seq(Message)
<1>1. Wanted \subseteq Sources
  BY DEF Wanted
<1>2. Cardinality(Wanted) \in Nat
  BY <1>1, StreamAssumption, FS_Subset, FS_CardinalityType
<1>3. \A i \in 1..Cardinality(Wanted) :
         [action |-> "subscribe", source |-> order[i]] \in Message
  BY <1>1 DEF Message
<1> QED
  BY <1>2, <1>3

PageStep ==
    \/ \E s \in Sources : Subscribe(s) \/ Unsubscribe(s)
    \/ \E c \in Sockets : Opened(c) \/ Errored(c) \/ Closed(c)
    \/ TimerFires

LEMMA PageKeeps ==
    PageType /\ Counted /\ OneLiveSocket /\ PageStep => PageType' /\ Counted' /\ OneLiveSocket'
<1> SUFFICES ASSUME PageType, Counted, OneLiveSocket, PageStep
             PROVE  PageType' /\ Counted' /\ OneLiveSocket'
  OBVIOUS
<1> USE StreamAssumption
<1>1. ASSUME NEW s \in Sources, Subscribe(s) PROVE PageType' /\ Counted' /\ OneLiveSocket'
  <2>1. /\ views' \in [Sources -> 0..MaxChanges] /\ changes' \in 0..MaxChanges
        /\ timer' \in BOOLEAN /\ Counted'
    BY <1>1 DEF Subscribe, PageType, Counted
  <2>2. toServer' \in [Sockets -> Seq(Message)]
    BY <1>1, SendStep DEF Subscribe, PageType
  <2>3. EnsureConnected
    BY <1>1 DEF Subscribe
  <2> QED
    BY <2>1, <2>2, <2>3, EnsureStep DEF PageType
<1>2. ASSUME NEW s \in Sources, Unsubscribe(s) PROVE PageType' /\ Counted' /\ OneLiveSocket'
  <2>1. /\ views' \in [Sources -> 0..MaxChanges] /\ changes' \in 0..MaxChanges
        /\ Counted'
    BY <1>2 DEF Unsubscribe, PageType, Counted
  <2>2. toServer' \in [Sockets -> Seq(Message)]
    BY <1>2, SendStep DEF Unsubscribe, PageType
  <2> QED
    BY <1>2, <2>1, <2>2 DEF Unsubscribe, PageType, OneLiveSocket
<1>3. ASSUME NEW c \in Sockets, Opened(c) PROVE PageType' /\ Counted' /\ OneLiveSocket'
  <2>1. toServer' \in [Sockets -> Seq(Message)]
    <3>1. PICK order \in [1..Cardinality(Wanted) -> Wanted] :
             toServer' = [toServer EXCEPT ![c] =
                [i \in DOMAIN order |-> [action |-> "subscribe", source |-> order[i]]]]
      BY <1>3 DEF Opened
    <3> DEFINE q == [i \in DOMAIN order |-> [action |-> "subscribe", source |-> order[i]]]
    <3>2. q \in Seq(Message)
      BY OrderIsSeq
    <3> HIDE DEF q
    <3>3. toServer' = [toServer EXCEPT ![c] = q]
      BY <3>1 DEF q
    <3> QED
      BY <3>2, <3>3 DEF PageType
  <2> QED
    BY <1>3, <2>1 DEF Opened, PageType, Counted, OneLiveSocket
<1>4. ASSUME NEW c \in Sockets, Errored(c) PROVE PageType' /\ Counted' /\ OneLiveSocket'
  BY <1>4 DEF Errored, PageType, Counted, OneLiveSocket
<1>5. ASSUME NEW c \in Sockets, Closed(c) PROVE PageType' /\ Counted' /\ OneLiveSocket'
  BY <1>5 DEF Closed, PageType, Counted, OneLiveSocket
<1>6. CASE TimerFires
  <2>1. CASE EnsureConnected
    BY <1>6, <2>1, EnsureStep DEF TimerFires, PageType, Counted
  <2>2. CASE UNCHANGED <<socket, ready, opened>>
    BY <1>6, <2>2 DEF TimerFires, PageType, Counted, OneLiveSocket
  <2> QED
    BY <1>6, <2>1, <2>2 DEF TimerFires
<1> QED
  BY <1>1, <1>2, <1>3, <1>4, <1>5, <1>6 DEF PageStep

-----------------------------------------------------------------------------
(* The hub                                                                  *)

\* The parts of the type invariant that the server changes.
HandlersType ==
    /\ conn \in [Sockets -> Conn]
    /\ subs \in [Sockets -> (SUBSET Sources) \cup {Unregistered}]
    /\ \A c \in Sockets : IF conn[c].pc \in {"none", "register", "ended"}
                         THEN subs[c] = Unregistered ELSE subs[c] \subseteq Sources

HubType == HandlersType /\ pub \in [Publishers -> Pub]

ServerStep ==
    \/ \E c \in Sockets : Accept(c) \/ Lose(c) \/ Stall(c) \/ HandlerStep(c)
    \/ \E p \in Publishers : PublisherStep(p) \/ \E s \in Sources : Publish(p, s)

\* The server takes messages from the sockets and leaves the page alone.
LEMMA ServerLeaves ==
    PageType /\ ServerStep => UNCHANGED client /\ toServer' \in [Sockets -> Seq(Message)]
<1> SUFFICES ASSUME PageType, ServerStep
             PROVE  UNCHANGED client /\ toServer' \in [Sockets -> Seq(Message)]
  OBVIOUS
<1>1. ASSUME NEW c \in Sockets, Read(c)
      PROVE  UNCHANGED client /\ toServer' \in [Sockets -> Seq(Message)]
  <2>1. Tail(toServer[c]) \in Seq(Message)
    BY <1>1 DEF Read, PageType
  <2> QED
    BY <1>1, <2>1 DEF Read, PageType
<1>2. ASSUME NEW c \in Sockets, ReadFails(c)
      PROVE  UNCHANGED client /\ toServer' \in [Sockets -> Seq(Message)]
  BY <1>2 DEF ReadFails, PageType
<1>3. ASSUME NEW c \in Sockets,
             Accept(c) \/ Lose(c) \/ Stall(c) \/ Register(c) \/ Apply(c) \/ Unregister(c)
      PROVE  UNCHANGED client /\ toServer' \in [Sockets -> Seq(Message)]
  BY <1>3 DEF Accept, Lose, Stall, Register, Apply, Unregister, PageType
<1>4. ASSUME NEW p \in Publishers, PublisherStep(p) \/ \E s \in Sources : Publish(p, s)
      PROVE  UNCHANGED client /\ toServer' \in [Sockets -> Seq(Message)]
  BY <1>4 DEF PublisherStep, RLock, RUnlock, SendFrame, SendTimesOut, Publish, PageType
<1> QED
  BY <1>1, <1>2, <1>3, <1>4 DEF ServerStep, HandlerStep

\* A handler that has the lock changes the registry when no frame is being sent.
LEMMA LockExcludes == ASSUME NEW c \in Sockets, Lock(c), NEW p \in Publishers
                      PROVE  pub[p].pc # "send"
BY DEF Lock, Readers

\* A change of one handler and its entry that leaves both well formed.
LEMMA HandlerUpdate ==
    ASSUME HandlersType, NEW c \in Sockets, NEW r \in Conn,
           NEW u \in (SUBSET Sources) \cup {Unregistered},
           conn' = [conn EXCEPT ![c] = r], subs' = [subs EXCEPT ![c] = u],
           IF r.pc \in {"none", "register", "ended"}
           THEN u = Unregistered ELSE u \subseteq Sources
    PROVE  HandlersType'
BY DEF HandlersType

\* A change of one publisher.
LEMMA PublisherUpdate ==
    ASSUME pub \in [Publishers -> Pub], NEW p \in Publishers, NEW r \in Pub,
           pub' = [pub EXCEPT ![p] = r]
    PROVE  pub' \in [Publishers -> Pub]
OBVIOUS

\* A handler that changes the registry holds the lock, so nobody is being sent to.
LEMMA SubscribedWhenLocked ==
    ASSUME NEW c \in Sockets, Lock(c), UNCHANGED pub
    PROVE  Subscribed'
BY LockExcludes DEF Subscribed

LEMMA HandlerKeeps ==
    ASSUME HubType, PageType, Subscribed, NEW c \in Sockets,
           Accept(c) \/ Lose(c) \/ Stall(c) \/ HandlerStep(c)
    PROVE  HubType' /\ Subscribed'
<1>0. /\ conn[c] \in Conn /\ subs[c] \in (SUBSET Sources) \cup {Unregistered}
      /\ subs = [subs EXCEPT ![c] = subs[c]]
      /\ IF conn[c].pc \in {"none", "register", "ended"}
         THEN subs[c] = Unregistered ELSE subs[c] \subseteq Sources
  BY DEF HubType, HandlersType
<1> USE DEF HubType
<1>1. CASE Accept(c)
  <2> DEFINE r == [conn[c] EXCEPT !.pc = "register", !.up = TRUE]
  <2>1. r \in Conn /\ r.pc = "register"
    BY <1>0 DEF Conn
  <2>2. conn' = [conn EXCEPT ![c] = r] /\ UNCHANGED <<subs, pub>> /\ conn[c].pc = "none"
    BY <1>1 DEF Accept
  <2> HIDE DEF r
  <2>3. HandlersType'
    BY <1>0, <2>1, <2>2, HandlerUpdate
  <2> QED
    BY <2>2, <2>3 DEF Subscribed
<1>2. CASE Lose(c)
  <2> DEFINE r == [conn[c] EXCEPT !.up = FALSE]
  <2>1. r \in Conn /\ r.pc = conn[c].pc
    BY <1>0 DEF Conn
  <2>2. conn' = [conn EXCEPT ![c] = r] /\ UNCHANGED <<subs, pub>>
    BY <1>2 DEF Lose
  <2> HIDE DEF r
  <2>3. HandlersType'
    BY <1>0, <2>1, <2>2, HandlerUpdate
  <2> QED
    BY <2>2, <2>3 DEF Subscribed
<1>3. CASE Stall(c)
  <2> DEFINE r == [conn[c] EXCEPT !.stalled = ~@]
  <2>1. r \in Conn /\ r.pc = conn[c].pc
    BY <1>0 DEF Conn
  <2>2. conn' = [conn EXCEPT ![c] = r] /\ UNCHANGED <<subs, pub>>
    BY <1>3 DEF Stall
  <2> HIDE DEF r
  <2>3. HandlersType'
    BY <1>0, <2>1, <2>2, HandlerUpdate
  <2> QED
    BY <2>2, <2>3 DEF Subscribed
<1>4. CASE Register(c)
  <2> DEFINE r == [conn[c] EXCEPT !.pc = "read"]
  <2>1. r \in Conn /\ r.pc = "read"
    BY <1>0 DEF Conn
  <2>2. conn' = [conn EXCEPT ![c] = r] /\ subs' = [subs EXCEPT ![c] = {}] /\ UNCHANGED pub
    BY <1>4 DEF Register
  <2> HIDE DEF r
  <2>3. HandlersType'
    BY <2>1, <2>2, HandlerUpdate
  <2> QED
    BY <1>4, <2>2, <2>3, SubscribedWhenLocked DEF Register
<1>5. CASE Read(c)
  <2> DEFINE r == [conn[c] EXCEPT !.pc = "apply", !.msg = Head(toServer[c])]
  <2>1. Head(toServer[c]) \in Message
    BY <1>5 DEF Read, PageType
  <2>2. r \in Conn /\ r.pc = "apply"
    BY <1>0, <2>1 DEF Conn
  <2>3. conn' = [conn EXCEPT ![c] = r] /\ UNCHANGED <<subs, pub>> /\ conn[c].pc = "read"
    BY <1>5 DEF Read
  <2> HIDE DEF r
  <2>4. HandlersType'
    BY <1>0, <2>2, <2>3, HandlerUpdate
  <2> QED
    BY <2>3, <2>4 DEF Subscribed
<1>6. CASE Apply(c)
  <2> DEFINE r == [conn[c] EXCEPT !.pc = "read", !.msg = NoMessage]
             u == IF conn[c].msg.action = "subscribe"
                  THEN subs[c] \cup {conn[c].msg.source}
                  ELSE subs[c] \ {conn[c].msg.source}
  <2>1. r \in Conn /\ r.pc = "read"
    BY <1>0, NothingYet DEF Conn
  <2>2. conn[c].pc = "apply" /\ conn[c].msg.source \in Sources
    BY <1>0, <1>6 DEF Apply, Conn, Message
  <2>3. u \subseteq Sources
    BY <1>0, <2>2
  <2>4. conn' = [conn EXCEPT ![c] = r] /\ subs' = [subs EXCEPT ![c] = u] /\ UNCHANGED pub
    BY <1>6 DEF Apply
  <2> HIDE DEF r, u
  <2>5. HandlersType'
    BY <2>1, <2>3, <2>4, HandlerUpdate
  <2> QED
    BY <1>6, <2>4, <2>5, SubscribedWhenLocked DEF Apply
<1>7. CASE ReadFails(c)
  <2> DEFINE r == [conn[c] EXCEPT !.pc = "unregister"]
  <2>1. r \in Conn /\ r.pc = "unregister"
    BY <1>0 DEF Conn
  <2>2. conn' = [conn EXCEPT ![c] = r] /\ UNCHANGED <<subs, pub>> /\ conn[c].pc = "read"
    BY <1>7 DEF ReadFails
  <2> HIDE DEF r
  <2>3. HandlersType'
    BY <1>0, <2>1, <2>2, HandlerUpdate
  <2> QED
    BY <2>2, <2>3 DEF Subscribed
<1>8. CASE Unregister(c)
  <2> DEFINE r == [conn[c] EXCEPT !.pc = "ended"]
  <2>1. r \in Conn /\ r.pc = "ended"
    BY <1>0 DEF Conn
  <2>2. /\ conn' = [conn EXCEPT ![c] = r] /\ subs' = [subs EXCEPT ![c] = Unregistered]
        /\ UNCHANGED pub
    BY <1>8 DEF Unregister
  <2> HIDE DEF r
  <2>3. HandlersType'
    <3>1. Unregistered \in (SUBSET Sources) \cup {Unregistered}
      BY UnregisteredIsEntry
    <3> QED
      BY <2>1, <2>2, <3>1, HandlerUpdate
  <2> QED
    BY <1>8, <2>2, <2>3, SubscribedWhenLocked DEF Unregister
<1> QED
  BY <1>1, <1>2, <1>3, <1>4, <1>5, <1>6, <1>7, <1>8 DEF HandlerStep

LEMMA PublisherKeeps ==
    ASSUME HubType, Subscribed, NEW p \in Publishers,
           PublisherStep(p) \/ \E s \in Sources : Publish(p, s)
    PROVE  HubType' /\ Subscribed'
<1>0. pub[p] \in Pub
  BY DEF HubType
<1> USE DEF HubType
<1>1. ASSUME NEW s \in Sources, Publish(p, s) PROVE HubType' /\ Subscribed'
  <2> DEFINE r == [pub[p] EXCEPT !.pc = "wait", !.source = s]
  <2>1. r \in Pub /\ r.pc = "wait"
    BY <1>0 DEF Pub
  <2>2. pub' = [pub EXCEPT ![p] = r] /\ UNCHANGED <<conn, subs>>
    BY <1>1 DEF Publish
  <2> HIDE DEF r
  <2>3. HubType'
    BY <2>1, <2>2, PublisherUpdate DEF HandlersType
  <2> QED
    BY <2>1, <2>2, <2>3 DEF Subscribed
<1>2. CASE RLock(p)
  <2> DEFINE l == {c \in Sockets : pub[p].source \in subs[c]}
             r == [pub[p] EXCEPT !.pc = "send", !.left = l]
  <2>1. r \in Pub /\ r.source = pub[p].source /\ r.left = l
    BY <1>0 DEF Pub
  <2>2. pub' = [pub EXCEPT ![p] = r] /\ UNCHANGED <<conn, subs>>
    BY <1>2 DEF RLock
  <2> HIDE DEF r
  <2>3. HubType'
    BY <2>1, <2>2, PublisherUpdate DEF HandlersType
  <2> QED
    BY <2>1, <2>2, <2>3 DEF Subscribed
<1>3. ASSUME NEW c \in Sockets, SendFrame(p, c) PROVE HubType' /\ Subscribed'
  <2> DEFINE r == [pub[p] EXCEPT !.left = @ \ {c}]
  <2>1. r \in Pub /\ r.source = pub[p].source /\ r.left \subseteq pub[p].left /\ r.pc = pub[p].pc
    BY <1>0 DEF Pub
  <2>2. pub' = [pub EXCEPT ![p] = r] /\ UNCHANGED <<conn, subs>>
    BY <1>3 DEF SendFrame
  <2> HIDE DEF r
  <2>3. HubType'
    BY <2>1, <2>2, PublisherUpdate DEF HandlersType
  <2> QED
    BY <2>1, <2>2, <2>3 DEF Subscribed
<1>4. ASSUME NEW c \in Sockets, SendTimesOut(p, c) PROVE HubType' /\ Subscribed'
  <2> DEFINE r == [pub[p] EXCEPT !.left = @ \ {c}]
             h == [conn[c] EXCEPT !.up = FALSE]
  <2>1. r \in Pub /\ r.source = pub[p].source /\ r.left \subseteq pub[p].left /\ r.pc = pub[p].pc
    BY <1>0 DEF Pub
  <2>2. h \in Conn /\ h.pc = conn[c].pc
    BY DEF HandlersType, Conn
  <2>3. pub' = [pub EXCEPT ![p] = r] /\ conn' = [conn EXCEPT ![c] = h] /\ UNCHANGED subs
    BY <1>4 DEF SendTimesOut
  <2> HIDE DEF r, h
  <2>4. /\ subs' = [subs EXCEPT ![c] = subs[c]] /\ subs[c] \in (SUBSET Sources) \cup {Unregistered}
        /\ IF h.pc \in {"none", "register", "ended"}
           THEN subs[c] = Unregistered ELSE subs[c] \subseteq Sources
    BY <2>2, <2>3 DEF HandlersType
  <2>5. HandlersType'
    BY <2>2, <2>3, <2>4, HandlerUpdate
  <2>6. HubType'
    BY <2>1, <2>3, <2>5, PublisherUpdate
  <2> QED
    BY <2>1, <2>3, <2>6 DEF Subscribed
<1>5. CASE RUnlock(p)
  <2>1. pub' = [pub EXCEPT ![p] = NoPub] /\ UNCHANGED <<conn, subs>> /\ NoPub.pc = "idle"
    BY <1>5 DEF RUnlock, NoPub
  <2>2. HubType'
    BY <2>1, NothingYet, PublisherUpdate DEF HandlersType
  <2> QED
    BY <2>1, <2>2 DEF Subscribed
<1> QED
  BY <1>1, <1>2, <1>3, <1>4, <1>5 DEF PublisherStep

LEMMA PageLeaves == PageStep => UNCHANGED server
BY DEF PageStep, Subscribe, Unsubscribe, Opened, Errored, Closed, TimerFires, server

-----------------------------------------------------------------------------
LEMMA Types == TypeOK <=> PageType /\ HubType
BY DEF TypeOK, PageType, HubType, HandlersType

LEMMA Inductive == Spec => []IInv
<1>1. IInv /\ [Next]_vars => IInv'
  <2> SUFFICES ASSUME TypeOK, PageType, HubType, Counted, OneLiveSocket, Subscribed,
                      [Next]_vars
               PROVE  PageType' /\ HubType' /\ Counted' /\ OneLiveSocket' /\ Subscribed'
    BY Types DEF IInv, TypeOK, PageType, HubType, HandlersType
  <2>1. CASE PageStep
    <3>1. UNCHANGED <<conn, subs, pub>>
      BY <2>1, PageLeaves DEF server
    <3> QED
      BY <2>1, <3>1, PageKeeps DEF HubType, HandlersType, Subscribed
  <2>2. CASE ServerStep
    <3>1. UNCHANGED client /\ toServer' \in [Sockets -> Seq(Message)]
      BY <2>2, ServerLeaves
    <3>2. PageType' /\ Counted' /\ OneLiveSocket'
      BY <3>1 DEF client, PageType, Counted, OneLiveSocket
    <3>3. HubType' /\ Subscribed'
      BY <2>2, HandlerKeeps, PublisherKeeps DEF ServerStep
    <3> QED
      BY <3>2, <3>3
  <2>3. CASE UNCHANGED vars
    BY <2>3 DEF vars, PageType, HubType, HandlersType, Counted, OneLiveSocket, Subscribed
  <2> QED
    BY <2>1, <2>2, <2>3 DEF Next, PageStep, ServerStep
<1>2. Spec => Init /\ [][Next]_vars
  BY DEF Spec
<1> QED
  BY InitHolds, <1>1, <1>2, PTL

\* Every reachable state is well typed.
THEOREM TypeCorrect == Spec => []TypeOK
<1>1. IInv => TypeOK
  BY DEF IInv
<1> QED
  BY Inductive, <1>1, PTL

\* The page has at most one socket that is open or about to be, for any number of
\* sockets, close events and timers (ensureConnected, scheduleReconnect).
THEOREM OneSocket == Spec => []OneLiveSocket
<1>1. IInv => OneLiveSocket
  BY DEF IInv
<1> QED
  BY Inductive, <1>1, PTL

\* Frames are written to current subscribers only, for any publishers and connections
\* (Hub.Publish).
THEOREM OnlySubscribers == Spec => SentToSubscribers
<1>1. IInv /\ [Next]_vars
        => [\A p \in Publishers, c \in Sockets :
              SendFrame(p, c) => pub[p].source \in subs[c]]_vars
  BY DEF IInv, Subscribed, SendFrame
<1>2. Spec => [][Next]_vars
  BY DEF Spec
<1> QED
  BY Inductive, <1>1, <1>2, PTL DEF SentToSubscribers
=============================================================================
