-------------------------------- MODULE Stream --------------------------------
(***************************************************************************)
(* Live frames: the hub, the handler of each WebSocket connection, and the *)
(* browser page at the other end.                                          *)
(*                                                                         *)
(* The page keeps one socket and tells the server which sources its views  *)
(* show; when the socket goes it opens another after a delay. A handler    *)
(* reads those messages and changes the hub's registry under its lock; a   *)
(* publisher holds the lock for reading while it writes a frame to every   *)
(* subscriber, one after another, for up to five seconds each. A writer    *)
(* that waits for the lock keeps new readers out.                          *)
(***************************************************************************)
EXTENDS Naturals, Sequences, FiniteSets

CONSTANTS
    Sources,    \* sources shown and published about
    Publishers, \* goroutines that publish frames
    MaxSockets, \* bound on the sockets the page opens
    MaxChanges  \* bound on the views opened and closed

ASSUME StreamAssumption ==
    /\ Sources # {} /\ IsFiniteSet(Sources)
    /\ MaxSockets \in Nat \ {0}
    /\ MaxChanges \in Nat

Sockets == 1..MaxSockets

VARIABLES
    views,      \* the page's subscriptions: how many views show each source
    socket,     \* the page's socket, 0 for none
    ready,      \* readyState of each socket the page has opened
    timer,      \* the reconnect timer is running
    opened,     \* sockets opened so far
    changes,    \* views opened and closed so far
    toServer,   \* messages sent on each socket and not read yet
    conn,       \* the handler of each socket
    subs,       \* Hub.subs: the sources each registered handler is subscribed to
    pub         \* the frame each publisher is sending, and to whom it still has to

vars == <<views, socket, ready, timer, opened, changes, toServer, conn, subs, pub>>

client == <<views, socket, ready, timer, opened, changes>>
server == <<conn, subs, pub>>

-----------------------------------------------------------------------------
Message == [action: {"subscribe", "unsubscribe"}, source: Sources]

\* A handler: where it is, whether its connection still works, and whether the page
\* takes what is written to it.
Conn == [pc: {"none", "register", "read", "apply", "unregister", "ended"},
         msg: Message, up: BOOLEAN, stalled: BOOLEAN]
NoMessage == [action |-> "subscribe", source |-> CHOOSE s \in Sources : TRUE]
NoConn == [pc |-> "none", msg |-> NoMessage, up |-> FALSE, stalled |-> FALSE]

\* A publisher: idle, waiting for the read lock, or holding it.
Pub == [pc: {"idle", "wait", "send"}, source: Sources, left: SUBSET Sockets]
NoPub == [pc |-> "idle", source |-> CHOOSE s \in Sources : TRUE, left |-> {}]

\* subs[c] of a handler that is not registered.
Unregistered == {"unregistered"}
Registered(c) == subs[c] # Unregistered

Wanted == {s \in Sources : views[s] > 0}

\* The lock: publishers that hold it, and handlers that want to write.
Readers == {p \in Publishers : pub[p].pc = "send"}
Waiting == {c \in Sockets : conn[c].pc \in {"register", "apply", "unregister"}}

Init ==
    /\ views = [s \in Sources |-> 0]
    /\ socket = 0
    /\ ready = [c \in Sockets |-> "new"]
    /\ timer = FALSE
    /\ opened = 0
    /\ changes = 0
    /\ toServer = [c \in Sockets |-> <<>>]
    /\ conn = [c \in Sockets |-> NoConn]
    /\ subs = [c \in Sockets |-> Unregistered]
    /\ pub = [p \in Publishers |-> NoPub]

-----------------------------------------------------------------------------
(* The page                                                                 *)

Connected == socket # 0 /\ ready[socket] \in {"connecting", "open"}

\* A socket is opened unless the page has one that is open or about to be.
EnsureConnected ==
    IF Connected
    THEN UNCHANGED <<socket, ready, opened>>
    ELSE /\ opened < MaxSockets
         /\ opened' = opened + 1
         /\ socket' = opened + 1
         /\ ready' = [ready EXCEPT ![opened + 1] = "connecting"]

\* A message goes out on the page's socket if it is open, else nowhere.
Send(action, s) ==
    toServer' = IF socket # 0 /\ ready[socket] = "open"
                   /\ conn[socket].up
                THEN [toServer EXCEPT ![socket] = Append(@, [action |-> action, source |-> s])]
                ELSE toServer

Subscribe(s) ==
    /\ changes < MaxChanges
    /\ changes' = changes + 1
    /\ views' = [views EXCEPT ![s] = @ + 1]
    /\ EnsureConnected
    /\ IF views[s] = 0 THEN Send("subscribe", s) ELSE UNCHANGED toServer
    /\ UNCHANGED <<timer, server>>

Unsubscribe(s) ==
    /\ views[s] > 0
    /\ changes < MaxChanges
    /\ changes' = changes + 1
    /\ views' = [views EXCEPT ![s] = @ - 1]
    /\ IF views[s] = 1 THEN Send("unsubscribe", s) ELSE UNCHANGED toServer
    /\ UNCHANGED <<socket, ready, timer, opened, server>>

\* Deviation: a socket that opens starts with no subscriptions.
OpenSilently(c) ==
    /\ ready[c] = "connecting"
    /\ conn[c].up
    /\ ready' = [ready EXCEPT ![c] = "open"]
    /\ UNCHANGED <<views, socket, timer, opened, changes, toServer, server>>

\* The socket opens: everything shown is subscribed to, in some order.
Opened(c) ==
    /\ ready[c] = "connecting"
    /\ conn[c].up
    /\ ready' = [ready EXCEPT ![c] = "open"]
    /\ \E order \in [1..Cardinality(Wanted) -> Wanted] :
          /\ \A s \in Wanted : \E i \in DOMAIN order : order[i] = s
          /\ toServer' = [toServer EXCEPT ![c] = [i \in DOMAIN order |->
                              [action |-> "subscribe", source |-> order[i]]]]
    /\ UNCHANGED <<views, socket, timer, opened, changes, server>>

\* A connection that was there and is not any more.
Gone(c) == conn[c].pc # "none" /\ ~conn[c].up

\* An error: the socket is closing, and its close event is to come.
Errored(c) ==
    /\ ready[c] \in {"connecting", "open"}
    /\ c < MaxSockets \/ Gone(c)
    /\ ready' = [ready EXCEPT ![c] = "closing"]
    /\ UNCHANGED <<views, socket, timer, opened, changes, toServer, server>>

\* Deviation: any socket's close event clears the page's socket.
ClosedAny(c) ==
    /\ ready[c] = "closing"
    /\ ready' = [ready EXCEPT ![c] = "closed"]
    /\ socket' = 0
    /\ timer' = (timer \/ Wanted # {})
    /\ UNCHANGED <<views, opened, changes, toServer, server>>

\* The close event: a reconnect is scheduled if anything is shown.
Closed(c) ==
    /\ ready[c] = "closing"
    /\ ready' = [ready EXCEPT ![c] = "closed"]
    /\ socket' = IF socket = c THEN 0 ELSE socket
    /\ timer' = (timer \/ Wanted # {})
    /\ UNCHANGED <<views, opened, changes, toServer, server>>

TimerFires ==
    /\ timer
    /\ timer' = FALSE
    /\ IF Wanted # {} THEN EnsureConnected ELSE UNCHANGED <<socket, ready, opened>>
    /\ UNCHANGED <<views, changes, toServer, server>>

-----------------------------------------------------------------------------
(* The handler of a connection                                              *)

\* The upgrade succeeds.
Accept(c) ==
    /\ conn[c].pc = "none"
    /\ ready[c] = "connecting"
    /\ conn' = [conn EXCEPT ![c] = [@ EXCEPT !.pc = "register", !.up = TRUE]]
    /\ UNCHANGED <<client, toServer, subs, pub>>

\* The server finds the connection gone: the page has closed it, or the network has
\* cut it, which the page learns in its own time.
Lose(c) ==
    /\ conn[c].up
    /\ ready[c] \in {"closing", "closed"} \/ c < MaxSockets
    /\ conn' = [conn EXCEPT ![c].up = FALSE]
    /\ UNCHANGED <<client, toServer, subs, pub>>

\* The page stops taking frames, or takes them again.
Stall(c) ==
    /\ conn[c].up
    /\ c < MaxSockets
    /\ conn' = [conn EXCEPT ![c].stalled = ~@]
    /\ UNCHANGED <<client, toServer, subs, pub>>

\* Deviation: the lock is taken whoever is sending.
LockAnyway(c) == conn[c].pc \in {"register", "apply", "unregister"}

\* The write lock is free.
Lock(c) == conn[c].pc \in {"register", "apply", "unregister"} /\ Readers = {}

Register(c) ==
    /\ conn[c].pc = "register"
    /\ Lock(c)
    /\ subs' = [subs EXCEPT ![c] = {}]
    /\ conn' = [conn EXCEPT ![c].pc = "read"]
    /\ UNCHANGED <<client, toServer, pub>>

Read(c) ==
    /\ conn[c].pc = "read"
    /\ conn[c].up
    /\ toServer[c] # <<>>
    /\ conn' = [conn EXCEPT ![c] = [@ EXCEPT !.pc = "apply", !.msg = Head(toServer[c])]]
    /\ toServer' = [toServer EXCEPT ![c] = Tail(@)]
    /\ UNCHANGED <<client, subs, pub>>

\* The message is applied under the lock.
Apply(c) ==
    LET s == conn[c].msg.source IN
    /\ conn[c].pc = "apply"
    /\ Lock(c)
    /\ subs' = [subs EXCEPT ![c] = IF conn[c].msg.action = "subscribe"
                                   THEN @ \cup {s} ELSE @ \ {s}]
    /\ conn' = [conn EXCEPT ![c] = [@ EXCEPT !.pc = "read", !.msg = NoMessage]]
    /\ UNCHANGED <<client, toServer, pub>>

\* Reading fails: the handler leaves the hub.
ReadFails(c) ==
    /\ conn[c].pc = "read"
    /\ ~conn[c].up
    /\ conn' = [conn EXCEPT ![c].pc = "unregister"]
    /\ toServer' = [toServer EXCEPT ![c] = <<>>]
    /\ UNCHANGED <<client, subs, pub>>

\* Deviation: a handler that ends leaves its entry in the hub.
LeaveEntry(c) ==
    /\ conn[c].pc = "unregister"
    /\ conn' = [conn EXCEPT ![c].pc = "ended"]
    /\ UNCHANGED <<client, toServer, subs, pub>>

Unregister(c) ==
    /\ conn[c].pc = "unregister"
    /\ Lock(c)
    /\ subs' = [subs EXCEPT ![c] = Unregistered]
    /\ conn' = [conn EXCEPT ![c].pc = "ended"]
    /\ UNCHANGED <<client, toServer, pub>>

-----------------------------------------------------------------------------
(* Publish                                                                  *)

Publish(p, s) ==
    /\ pub[p].pc = "idle"
    /\ pub' = [pub EXCEPT ![p] = [@ EXCEPT !.pc = "wait", !.source = s]]
    /\ UNCHANGED <<client, toServer, conn, subs>>

\* No writer holds the lock or waits for it.
RLock(p) ==
    /\ pub[p].pc = "wait"
    /\ Waiting = {}
    /\ pub' = [pub EXCEPT ![p] = [@ EXCEPT !.pc = "send",
                   !.left = {c \in Sockets : pub[p].source \in subs[c]}]]
    /\ UNCHANGED <<client, toServer, conn, subs>>

\* The frame is written, or the connection is gone and it is not.
SendFrame(p, c) ==
    /\ pub[p].pc = "send"
    /\ c \in pub[p].left
    /\ ~conn[c].up \/ ~conn[c].stalled
    /\ pub' = [pub EXCEPT ![p].left = @ \ {c}]
    /\ UNCHANGED <<client, toServer, conn, subs>>

\* Deviation: a write has no deadline.
WriteWaits(p, c) == FALSE

\* The page does not take it: after five seconds the write is given up, which closes
\* the connection.
SendTimesOut(p, c) ==
    /\ pub[p].pc = "send"
    /\ c \in pub[p].left
    /\ conn[c].up /\ conn[c].stalled
    /\ pub' = [pub EXCEPT ![p].left = @ \ {c}]
    /\ conn' = [conn EXCEPT ![c].up = FALSE]
    /\ UNCHANGED <<client, toServer, subs>>

RUnlock(p) ==
    /\ pub[p].pc = "send"
    /\ pub[p].left = {}
    /\ pub' = [pub EXCEPT ![p] = NoPub]
    /\ UNCHANGED <<client, toServer, conn, subs>>

-----------------------------------------------------------------------------
HandlerStep(c) ==
    \/ Register(c) \/ Read(c) \/ Apply(c) \/ ReadFails(c) \/ Unregister(c)

PublisherStep(p) ==
    \/ RLock(p) \/ RUnlock(p)
    \/ \E c \in Sockets : SendFrame(p, c) \/ SendTimesOut(p, c)

Next ==
    \/ \E s \in Sources : Subscribe(s) \/ Unsubscribe(s)
    \/ \E c \in Sockets : Opened(c) \/ Errored(c) \/ Closed(c)
    \/ TimerFires
    \/ \E c \in Sockets : Accept(c) \/ Lose(c) \/ Stall(c) \/ HandlerStep(c)
    \/ \E p \in Publishers : PublisherStep(p) \/ \E s \in Sources : Publish(p, s)

\* The browser runs its events and timers, the server its goroutines, and a lost
\* connection is noticed; nobody has to show anything, publish, or lose one.
Fairness ==
    /\ WF_vars(TimerFires)
    /\ \A c \in Sockets :
          /\ WF_vars(Accept(c)) /\ WF_vars(Opened(c)) /\ WF_vars(Closed(c))
          /\ WF_vars(Gone(c) /\ Errored(c))
          /\ WF_vars(HandlerStep(c))
          /\ WF_vars(ready[c] \in {"closing", "closed"} /\ Lose(c))
    /\ \A p \in Publishers : WF_vars(PublisherStep(p))

Spec == Init /\ [][Next]_vars /\ Fairness

-----------------------------------------------------------------------------
(* Properties                                                               *)

TypeOK ==
    /\ views \in [Sources -> 0..MaxChanges]
    /\ socket \in Sockets \cup {0}
    /\ ready \in [Sockets -> {"new", "connecting", "open", "closing", "closed"}]
    /\ timer \in BOOLEAN
    /\ opened \in 0..MaxSockets
    /\ changes \in 0..MaxChanges
    /\ toServer \in [Sockets -> Seq(Message)]
    /\ conn \in [Sockets -> Conn]
    /\ subs \in [Sockets -> (SUBSET Sources) \cup {Unregistered}]
    /\ \A c \in Sockets : IF conn[c].pc \in {"none", "register", "ended"}
                         THEN subs[c] = Unregistered ELSE subs[c] \subseteq Sources
    /\ pub \in [Publishers -> Pub]

\* The page never has two sockets that are open or about to be, and the one it has is
\* the one it sends on: close events and timers of earlier sockets come in any order
\* (ensureConnected, the close listener, scheduleReconnect).
OneLiveSocket ==
    \A c \in Sockets : ready[c] \in {"connecting", "open"} => c = socket

\* A frame is written only to a connection that is in the hub and subscribed to its
\* source at that moment, however long the writes before it took (Publish, the lock).
SentToSubscribers ==
    [][\A p \in Publishers, c \in Sockets :
          SendFrame(p, c) => pub[p].source \in subs[c]]_vars

\* A publisher gets the lock and is rid of its frame, whatever pages stop taking theirs
\* and whoever waits to change the registry (Publish, writeTimeout).
PublishEnds == \A p \in Publishers : pub[p].pc # "idle" ~> pub[p].pc = "idle"

\* What the server should have settled on.
InStep ==
    /\ Wanted # {} => Connected
    /\ Connected => ready[socket] = "open" /\ subs[socket] = Wanted
    /\ \A c \in Sockets \ {socket} : ~Registered(c)

\* When views and connections stop changing, the page ends up with an open socket whose
\* handler is subscribed to exactly what is shown, and no other handler is left in the
\* hub (stream, subscribe, scheduleReconnect).
Converges == <>[]InStep
=============================================================================
