--------------------------- MODULE Channels_proofs ---------------------------
(***************************************************************************)
(* Safety theorems about Channels, for any callers, channels, rules and    *)
(* references.                                                             *)
(***************************************************************************)
EXTENDS Channels, TLAPS

USE ChannelsAssumption

Kinds == {"create", "update", "delete", "rule"}
Active(u) == call[u].pc # "idle"

\* The calls that can undo one another.
Clash(a, b) ==
    \/ a = "update" /\ b \in {"update", "delete"}
    \/ a = "delete" /\ b \in {"update", "rule"}
    \/ a = "rule" /\ b = "delete"

\* What a call of each kind carries.
Shape(c) ==
    \/ c.pc = "idle" /\ c.ref = None /\ c.old = None /\ ~c.rotate /\ c.kind = "create"
    \/ /\ c.kind = "create" /\ c.pc = "write" /\ ~c.rotate
       /\ c.chan \in created /\ c.ref \in issued /\ c.old = None
    \/ /\ c.kind = "update" /\ c.pc \in {"rotate", "drop", "write"}
       /\ c.chan \in created /\ c.ref \in issued /\ c.old \in issued \cup {None}
       /\ c.pc # "write" => c.rotate
       /\ c.pc = "drop" => c.old \in issued
    \/ /\ c.kind = "delete" /\ c.pc \in {"check", "remove", "forget"} /\ ~c.rotate
       /\ c.chan \in created /\ c.ref \in issued /\ c.old = None
    \/ /\ c.kind = "rule" /\ c.pc \in {"validate", "save"} /\ ~c.rotate
       /\ c.rule \in Rules /\ c.chan = c.row.channel /\ c.ref = None /\ c.old = None

Shapes ==
    /\ \A u \in Callers : Shape(call[u])
    /\ \A c \in Chans : channels[c] # None => c \in created /\ channels[c] \in issued

\* A channel that is being created has no row, and nobody else works on it.
Creating ==
    \A u \in Callers : Active(u) /\ call[u].kind = "create" =>
        /\ channels[call[u].chan] = None
        /\ \A v \in Callers \ {u} : Active(v) /\ call[v].kind # "rule"
                                        => call[v].chan # call[u].chan

\* Calls that clash on a channel know of it.
Meets ==
    \A u, v \in Callers :
        /\ u # v /\ Active(u) /\ Active(v)
        /\ call[u].chan = call[v].chan
        /\ Clash(call[u].kind, call[v].kind)
        => call[u].met /\ call[v].met

\* Every reference belongs to one channel.
OwnedBy(o) ==
    /\ \A c \in Chans : channels[c] # None => o[channels[c]] = c
    /\ \A u \in Callers : /\ call[u].ref # None => o[call[u].ref] = call[u].chan
                          /\ call[u].old # None => o[call[u].old] = call[u].chan
Owned == \E o \in [Refs -> Chans \cup {None}] : OwnedBy(o)

\* A token that was just stored is known to the call that stored it only.
HasFresh(u) ==
    /\ Active(u)
    /\ \/ call[u].kind = "create"
       \/ call[u].kind = "update" /\ call[u].rotate /\ call[u].pc \in {"drop", "write"}
Private ==
    \A u \in Callers : HasFresh(u) =>
        /\ secrets[call[u].ref] = Token
        /\ call[u].old # call[u].ref
        /\ \A c \in Chans : channels[c] # call[u].ref
        /\ \A v \in Callers \ {u} : call[v].ref # call[u].ref /\ call[v].old # call[u].ref

\* A deletion that is about to forget the token has removed the row.
Removed == \A u \in Callers : call[u].pc = "forget" => channels[call[u].chan] = None

\* An update that keeps the token and has met nobody writes what is there.
Steady ==
    \A u \in Callers :
        /\ call[u].kind = "update" /\ call[u].pc = "write"
        /\ ~call[u].rotate /\ ~call[u].met
        => channels[call[u].chan] = call[u].ref

\* When a deletion removes the row, only rules that met it name the channel.
Unused ==
    \A u \in Callers : call[u].pc = "remove" =>
        \A r \in Rules \ loose :
            rules[r] # None => ~(rules[r].enabled /\ rules[r].channel = call[u].chan)

\* A rule that is about to be saved and has met no deletion names a channel that exists.
Validated ==
    \A u \in Callers :
        call[u].pc = "save" /\ ~call[u].met /\ call[u].row.channel # None
            => channels[call[u].row.channel] # None

IInv ==
    /\ TypeOK /\ Shapes /\ Creating /\ Meets
    /\ Owned /\ Private /\ Removed /\ Steady /\ ChannelHasToken
    /\ Unused /\ Validated /\ NoDanglingChannel

-----------------------------------------------------------------------------
LEMMA ClashIs == \A a, b \in Kinds : {a, b} \in Conflicts <=> Clash(a, b)
BY DEF Kinds, Conflicts, Clash

LEMMA IdleIsCall ==
    /\ Idle \in Call
    /\ Idle.kind = "create" /\ Idle.pc = "idle" /\ Idle.chan = None /\ Idle.ref = None
    /\ Idle.old = None /\ ~Idle.rotate /\ ~Idle.met
<1>1. NoRule \in Rule
  BY DEF NoRule, Rule
<1> QED
  BY <1>1 DEF Idle, Call

LEMMA Fields ==
    ASSUME TypeOK, NEW u \in Callers
    PROVE  /\ call[u] \in Call
           /\ call[u].kind \in Kinds
           /\ call[u].pc \in {"idle", "rotate", "drop", "write", "check", "remove", "forget",
                              "validate", "save"}
           /\ call[u].chan \in Chans \cup {None} /\ call[u].ref \in Refs \cup {None}
           /\ call[u].old \in Refs \cup {None} /\ call[u].rotate \in BOOLEAN
           /\ call[u].rule \in Rules \cup {None} /\ call[u].row \in Rule
           /\ call[u].new \in BOOLEAN /\ call[u].met \in BOOLEAN
BY DEF TypeOK, Call, Kinds

LEMMA InitHolds == Init => IInv
<1> SUFFICES ASSUME Init PROVE IInv
  OBVIOUS
<1>1. /\ \A u \in Callers : call[u] = Idle /\ call[u].pc = "idle" /\ ~call[u].rotate
                            /\ call[u].ref = None /\ call[u].old = None
                            /\ call[u].kind = "create"
      /\ \A c \in Chans : channels[c] = None
      /\ \A r \in Rules : rules[r] = None
  BY IdleIsCall DEF Init, InitOwn
<1>2. TypeOK
  <2>1. call \in [Callers -> Call]
    BY IdleIsCall DEF Init, InitOwn
  <2>2. secrets \in [Refs -> {Token, None}]
    BY DEF Init
  <2> QED
    BY <2>1, <2>2 DEF Init, InitOwn, TypeOK
<1>3. Shapes /\ Creating /\ Meets /\ Private /\ Removed /\ Steady
  BY <1>1 DEF Shapes, Shape, Creating, Meets, Private, HasFresh, Removed, Steady, Active
<1>4. Owned
  <2>1. [r \in Refs |-> None] \in [Refs -> Chans \cup {None}]
    OBVIOUS
  <2>2. \A o : OwnedBy(o)
    BY <1>1 DEF OwnedBy
  <2> QED
    BY <2>1, <2>2 DEF Owned
<1>5. ChannelHasToken /\ Unused /\ Validated /\ NoDanglingChannel
  BY <1>1 DEF ChannelHasToken, Unused, Validated, NoDanglingChannel
<1> QED
  BY <1>2, <1>3, <1>4, <1>5 DEF IInv

-----------------------------------------------------------------------------
(* Changes of calls                                                         *)

\* The same call, which may have met another in the meantime.
Agrees(a, b) ==
    /\ a.kind = b.kind /\ a.pc = b.pc /\ a.chan = b.chan /\ a.ref = b.ref /\ a.old = b.old
    /\ a.rotate = b.rotate /\ a.rule = b.rule /\ a.row = b.row /\ a.new = b.new
    /\ b.met => a.met

LEMMA MetAgrees ==
    ASSUME NEW c \in Call, NEW m \in BOOLEAN, c.met => m
    PROVE  [c EXCEPT !.met = m] \in Call /\ Agrees([c EXCEPT !.met = m], c)
           /\ [c EXCEPT !.met = m].met = m
BY DEF Call, Agrees

LEMMA EnterStep ==
    ASSUME TypeOK, Meets, NEW u \in Callers, NEW c \in Call, c.pc # "idle", ~c.met, Enter(u, c)
    PROVE  /\ call[u].pc = "idle"
           /\ call' \in [Callers -> Call]
           /\ Agrees(call'[u], c)
           /\ \A v \in Callers \ {u} : Agrees(call'[v], call[v])
           /\ Meets'
<1> DEFINE m == Others(c) # {}
           q(v) == IF v \in Others(c) THEN [call[v] EXCEPT !.met = TRUE] ELSE call[v]
<1>1. /\ call[u].pc = "idle"
      /\ call' = [v \in Callers |-> IF v = u THEN [c EXCEPT !.met = m] ELSE q(v)]
  BY DEF Enter
<1>2. [c EXCEPT !.met = m] \in Call /\ Agrees([c EXCEPT !.met = m], c)
      /\ [c EXCEPT !.met = m].met = m
  <2>1. m \in BOOLEAN
    OBVIOUS
  <2> HIDE DEF m
  <2> QED
    BY <2>1, MetAgrees
<1>3. \A v \in Callers : /\ q(v) \in Call /\ Agrees(q(v), call[v])
                         /\ v \in Others(c) => q(v).met = TRUE
  <2> SUFFICES ASSUME NEW v \in Callers
               PROVE  /\ q(v) \in Call /\ Agrees(q(v), call[v])
                      /\ v \in Others(c) => q(v).met = TRUE
    OBVIOUS
  <2>1. call[v] \in Call
    BY Fields
  <2>2. CASE v \in Others(c)
    BY <2>1, <2>2, MetAgrees
  <2>3. CASE v \notin Others(c)
    BY <2>1, <2>3 DEF Agrees
  <2> QED
    BY <2>2, <2>3
<1> HIDE DEF q
<1>4. call'[u] = [c EXCEPT !.met = m] /\ \A v \in Callers \ {u} : call'[v] = q(v)
  BY <1>1
<1>5. call' \in [Callers -> Call]
  BY <1>1, <1>2, <1>3
<1>6. Agrees(call'[u], c) /\ \A v \in Callers \ {u} : Agrees(call'[v], call[v])
  BY <1>2, <1>3, <1>4
<1>7. Meets'
  <2>1. u \notin Others(c)
    BY <1>1 DEF Others
  <2>2. ASSUME NEW v \in Callers \ {u}, call'[v].pc # "idle", call'[v].chan = call'[u].chan,
               Clash(call'[u].kind, call'[v].kind) \/ Clash(call'[v].kind, call'[u].kind)
        PROVE  call'[u].met /\ call'[v].met
    <3>1. call[v].pc # "idle" /\ call[v].chan = c.chan /\ call[v].kind \in Kinds /\ c.kind \in Kinds
      BY <1>6, <2>2, Fields DEF Agrees, Call, Kinds
    <3>2. Clash(call[v].kind, c.kind)
      BY <1>6, <2>2 DEF Agrees, Clash
    <3>3. v \in Others(c)
      BY <3>1, <3>2, ClashIs DEF Others
    <3> QED
      BY <1>2, <1>3, <1>4, <3>3
  <2>3. ASSUME NEW v \in Callers \ {u}, NEW w \in Callers \ {u}, v # w,
               call'[v].pc # "idle", call'[w].pc # "idle", call'[v].chan = call'[w].chan,
               Clash(call'[v].kind, call'[w].kind)
        PROVE  call'[v].met /\ call'[w].met
    BY <1>6, <2>3 DEF Agrees, Meets, Active
  <2> QED
    BY <2>2, <2>3 DEF Meets, Active
<1> QED
  BY <1>1, <1>5, <1>6, <1>7

\* A call that goes on, or ends.
LEMMA CallStep ==
    ASSUME TypeOK, Meets, NEW u \in Callers, NEW r \in Call, call' = [call EXCEPT ![u] = r],
           \/ r.pc = "idle"
           \/ /\ Active(u) /\ r.kind = call[u].kind /\ r.chan = call[u].chan
              /\ r.met = call[u].met
    PROVE  /\ call' \in [Callers -> Call] /\ call'[u] = r
           /\ \A v \in Callers \ {u} : call'[v] = call[v]
           /\ Meets'
<1>1. /\ call' \in [Callers -> Call] /\ call'[u] = r
      /\ \A v \in Callers \ {u} : call'[v] = call[v]
  BY DEF TypeOK
<1> QED
  BY <1>1 DEF Meets, Active

-----------------------------------------------------------------------------
(* Calls that begin                                                         *)

\* What a call starts with.
Entry(c) ==
    \/ /\ c.kind = "create" /\ c.pc = "write" /\ ~c.rotate /\ c.old = None
       /\ c.chan \in Chans \ created /\ c.ref \in Refs \ issued
    \/ /\ c.kind = "update" /\ c.pc = (IF c.rotate THEN "rotate" ELSE "write") /\ c.old = None
       /\ c.chan \in Chans /\ channels[c.chan] # None /\ c.ref = channels[c.chan]
    \/ /\ c.kind = "delete" /\ c.pc = "check" /\ ~c.rotate /\ c.old = None
       /\ c.chan \in Chans /\ channels[c.chan] # None /\ c.ref = channels[c.chan]
    \/ /\ c.kind = "rule" /\ c.pc = "validate" /\ ~c.rotate /\ c.old = None /\ c.ref = None
       /\ c.rule \in Rules /\ c.chan = c.row.channel

\* What a creation puts in the store.
Stored(c) ==
    /\ created' \in SUBSET Chans /\ created \subseteq created'
    /\ issued' \in SUBSET Refs /\ issued \subseteq issued'
    /\ secrets' \in [Refs -> {Token, None}]
    /\ file' \in [Refs -> {Token, None}]
    /\ \A r \in issued : secrets'[r] = secrets[r]
    /\ c.kind = "create" => /\ c.chan \in created' /\ c.ref \in issued'
                            /\ secrets'[c.ref] = Token

LEMMA EnterKeeps ==
    ASSUME IInv, NEW u \in Callers, NEW c \in Call, ~c.met, Entry(c), Enter(u, c), Stored(c),
           UNCHANGED <<channels, rules, hurt, loose>>
    PROVE  IInv'
<1>0. /\ TypeOK /\ Shapes /\ c.pc \notin {"idle", "drop", "forget", "remove", "save"}
      /\ issued \subseteq Refs /\ created \subseteq Chans
  BY DEF IInv, Entry, TypeOK
<1>1. /\ call[u].pc = "idle"
      /\ call' \in [Callers -> Call]
      /\ Agrees(call'[u], c)
      /\ \A v \in Callers \ {u} : Agrees(call'[v], call[v])
      /\ Meets'
  BY <1>0, EnterStep DEF IInv
<1>2. TypeOK'
  BY <1>1 DEF IInv, TypeOK, Stored
<1>3. Shapes'
  <2>1. \A d \in Chans : channels'[d] # None => d \in created' /\ channels'[d] \in issued'
    BY <1>0 DEF Shapes, Stored
  <2>2. ASSUME NEW v \in Callers \ {u} PROVE Shape(call[v])'
    <3>1. Shape(call[v])
      BY <1>0 DEF Shapes
    <3> QED
      BY <1>1, <3>1 DEF Shape, Agrees, Stored
  <2>3. Shape(call[u])'
    BY <1>0, <1>1 DEF Shape, Shapes, Agrees, Stored, Entry, Call
  <2> QED
    BY <2>1, <2>2, <2>3 DEF Shapes
<1>4. Creating'
  <2>1. ASSUME NEW v \in Callers \ {u}, call'[v].pc # "idle", call'[v].kind # "rule",
               c.kind # "rule", c.kind = "create" \/ call'[v].kind = "create"
        PROVE  call'[v].chan # c.chan
    <3>1. /\ Active(v) /\ call[v].kind = call'[v].kind /\ call[v].chan = call'[v].chan
          /\ Shape(call[v])
      BY <1>0, <1>1, <2>1 DEF Agrees, Active, Shapes
    <3>2. call[v].chan \in created
      BY <2>1, <3>1 DEF Shape, Active
    <3>3. CASE c.kind = "create"
      BY <3>1, <3>2, <3>3 DEF Entry
    <3>4. CASE c.kind # "create"
      <4>1. call[v].kind = "create" /\ channels[c.chan] # None
        BY <2>1, <3>1, <3>4 DEF Entry
      <4> QED
        BY <3>1, <4>1 DEF IInv, Creating
    <3> QED
      BY <3>3, <3>4
  <2>2. c.kind = "create" => channels[c.chan] = None
    BY <1>0 DEF Entry, Shapes
  <2> QED
    BY <1>1, <2>1, <2>2 DEF IInv, Creating, Active, Agrees
<1>5. Owned'
  <2>1. PICK o \in [Refs -> Chans \cup {None}] : OwnedBy(o)
    BY DEF IInv, Owned
  <2>2. CASE c.kind = "create"
    <3> DEFINE p == [o EXCEPT ![c.ref] = c.chan]
    <3>1. p \in [Refs -> Chans \cup {None}] /\ p[c.ref] = c.chan /\ c.old = None
      BY <2>2 DEF Entry
    <3>2. \A r \in issued : p[r] = o[r]
      BY <1>0, <2>2 DEF Entry
    <3>3. \A v \in Callers : /\ call[v].ref # None => call[v].ref \in issued
                             /\ call[v].old # None => call[v].old \in issued
      BY <1>0 DEF Shapes, Shape
    <3> HIDE DEF p
    <3>4. OwnedBy(p)'
      BY <1>0, <1>1, <2>1, <3>1, <3>2, <3>3 DEF OwnedBy, Agrees, Shapes
    <3> QED
      BY <3>1, <3>4 DEF Owned
  <2>3. CASE c.kind # "create"
    <3>1. /\ c.old = None
          /\ c.ref # None => o[c.ref] = c.chan
      BY <2>1, <2>3 DEF Entry, OwnedBy
    <3>2. OwnedBy(o)'
      BY <1>1, <2>1, <3>1 DEF OwnedBy, Agrees
    <3> QED
      BY <3>2 DEF Owned
  <2> QED
    BY <2>2, <2>3
<1>6. Private'
  <2>1. ASSUME NEW v \in Callers \ {u}, HasFresh(v)'
        PROVE  /\ secrets'[call'[v].ref] = Token
               /\ call'[v].old # call'[v].ref
               /\ \A d \in Chans : channels'[d] # call'[v].ref
               /\ \A w \in Callers \ {v} : /\ call'[w].ref # call'[v].ref
                                           /\ call'[w].old # call'[v].ref
    <3>1. HasFresh(v) /\ call[v].ref = call'[v].ref /\ call[v].old = call'[v].old
      BY <1>1, <2>1 DEF HasFresh, Active, Agrees
    <3>2. call[v].ref \in issued /\ call[v].ref # None
      BY <1>0, <3>1 DEF HasFresh, Active, Shapes, Shape
    <3>3. c.old = None /\ c.ref # call[v].ref
      BY <3>1, <3>2 DEF Entry, IInv, Private
    <3>4. secrets'[call[v].ref] = Token
      BY <3>1, <3>2 DEF IInv, Private, Stored
    <3> QED
      BY <1>1, <3>1, <3>2, <3>3, <3>4 DEF IInv, Private, Agrees
  <2>2. ASSUME HasFresh(u)'
        PROVE  /\ secrets'[call'[u].ref] = Token
               /\ call'[u].old # call'[u].ref
               /\ \A d \in Chans : channels'[d] # call'[u].ref
               /\ \A w \in Callers \ {u} : /\ call'[w].ref # call'[u].ref
                                           /\ call'[w].old # call'[u].ref
    <3>1. c.kind = "create" /\ c.ref \in Refs \ issued /\ c.old = None
      BY <1>1, <2>2 DEF HasFresh, Active, Agrees, Entry
    <3>2. \A v \in Callers : /\ call[v].ref # c.ref /\ call[v].old # c.ref
      BY <1>0, <3>1 DEF Shapes, Shape
    <3>3. \A d \in Chans : channels[d] # c.ref
      BY <1>0, <3>1 DEF Shapes
    <3> QED
      BY <1>1, <3>1, <3>2, <3>3 DEF Agrees, Stored
  <2> QED
    BY <2>1, <2>2 DEF Private
<1>7. Removed' /\ Validated'
  BY <1>0, <1>1 DEF IInv, Removed, Validated, Agrees
<1>8. Steady'
  BY <1>0, <1>1 DEF IInv, Steady, Agrees, Entry
<1>9. ChannelHasToken'
  <2> SUFFICES ASSUME NEW d \in Chans \ hurt, channels[d] # None, ~Rotating(d)'
               PROVE  secrets'[channels[d]] = Token
    BY DEF ChannelHasToken
  <2>1. ~Rotating(d)
    BY <1>1 DEF Rotating, Agrees
  <2> QED
    BY <1>0, <2>1 DEF IInv, ChannelHasToken, Shapes, Stored
<1>10. Unused' /\ NoDanglingChannel'
  BY <1>0, <1>1 DEF IInv, Unused, NoDanglingChannel, Agrees
<1> QED
  BY <1>1, <1>2, <1>3, <1>4, <1>5, <1>6, <1>7, <1>8, <1>9, <1>10 DEF IInv

LEMMA BeginKeeps ==
    ASSUME IInv, NEW u \in Callers,
           \/ \E c \in Chans : CreateChannel(u, c) \/ BeginDelete(u, c)
           \/ \E c \in Chans, rotate \in BOOLEAN : BeginUpdate(u, c, rotate)
           \/ \E r \in Rules, c \in Chans \cup {None} : CreateRule(u, r, c)
           \/ \E r \in Rules, row \in Rule : BeginUpdateRule(u, r, row)
    PROVE  IInv'
<1>0. TypeOK /\ Idle \in Call /\ ~Idle.met
  BY IdleIsCall DEF IInv
<1>1. ASSUME NEW d \in Chans, CreateChannel(u, d) PROVE IInv'
  <2> DEFINE f == Fresh
             c == [Idle EXCEPT !.pc = "write", !.chan = d, !.ref = f]
  <2>1. /\ d \notin created /\ created' = created \cup {d}
        /\ issued # Refs /\ issued' = issued \cup {f} /\ secrets' = [secrets EXCEPT ![f] = Token]
        /\ file' \in {secrets', file}
        /\ Enter(u, c) /\ UNCHANGED <<channels, rules, hurt, loose>>
    BY <1>1 DEF CreateChannel, Put, Save
  <2>2. f \in Refs \ issued
    BY <1>0, <2>1 DEF Fresh, TypeOK
  <2> HIDE DEF f
  <2>3. /\ c \in Call /\ c.kind = "create" /\ c.pc = "write" /\ ~c.rotate /\ c.old = None
        /\ ~c.met /\ c.chan = d /\ c.ref = f
    BY <2>2, IdleIsCall DEF Call
  <2> HIDE DEF c
  <2>4. Entry(c)
    BY <2>1, <2>2, <2>3 DEF Entry
  <2>5. Stored(c)
    BY <1>0, <2>1, <2>2, <2>3 DEF Stored, TypeOK
  <2> QED
    BY <2>1, <2>3, <2>4, <2>5, EnterKeeps
<1>2. ASSUME NEW d \in Chans, NEW rotate \in BOOLEAN, BeginUpdate(u, d, rotate) PROVE IInv'
  <2> DEFINE c == [Idle EXCEPT !.kind = "update", !.chan = d, !.ref = channels[d],
                               !.rotate = rotate, !.pc = IF rotate THEN "rotate" ELSE "write"]
  <2>1. /\ channels[d] # None /\ Enter(u, c)
        /\ UNCHANGED <<secrets, issued, file, channels, rules, created, hurt, loose>>
    BY <1>2 DEF BeginUpdate
  <2>2. /\ c \in Call /\ c.kind = "update" /\ c.pc = (IF c.rotate THEN "rotate" ELSE "write")
        /\ c.old = None /\ ~c.met /\ c.chan = d /\ c.ref = channels[d]
    BY <1>0, IdleIsCall DEF Call, TypeOK
  <2> HIDE DEF c
  <2>3. Entry(c) /\ Stored(c)
    BY <1>0, <2>1, <2>2 DEF Entry, Stored, TypeOK
  <2> QED
    BY <2>1, <2>2, <2>3, EnterKeeps
<1>3. ASSUME NEW d \in Chans, BeginDelete(u, d) PROVE IInv'
  <2> DEFINE c == [Idle EXCEPT !.kind = "delete", !.chan = d, !.ref = channels[d], !.pc = "check"]
  <2>1. /\ channels[d] # None /\ Enter(u, c)
        /\ UNCHANGED <<secrets, issued, file, channels, rules, created, hurt, loose>>
    BY <1>3 DEF BeginDelete
  <2>2. /\ c \in Call /\ c.kind = "delete" /\ c.pc = "check" /\ ~c.rotate
        /\ c.old = None /\ ~c.met /\ c.chan = d /\ c.ref = channels[d]
    BY <1>0, IdleIsCall DEF Call, TypeOK
  <2> HIDE DEF c
  <2>3. Entry(c) /\ Stored(c)
    BY <1>0, <2>1, <2>2 DEF Entry, Stored, TypeOK
  <2> QED
    BY <2>1, <2>2, <2>3, EnterKeeps
<1>4. ASSUME NEW r \in Rules, NEW d \in Chans \cup {None}, CreateRule(u, r, d) PROVE IInv'
  <2> DEFINE row == [channel |-> d, enabled |-> TRUE]
             c == [Idle EXCEPT !.kind = "rule", !.pc = "validate", !.chan = d,
                               !.rule = r, !.row = row, !.new = TRUE]
  <2>1. row \in Rule /\ d = row.channel
    BY DEF Rule
  <2>2. Enter(u, c) /\ UNCHANGED <<secrets, issued, file, channels, rules, created, hurt, loose>>
    BY <1>4 DEF CreateRule
  <2> HIDE DEF row
  <2>3. /\ c \in Call /\ c.kind = "rule" /\ c.pc = "validate" /\ ~c.rotate
        /\ c.old = None /\ ~c.met /\ c.chan = c.row.channel /\ c.ref = None /\ c.rule = r
    BY <2>1, IdleIsCall DEF Call
  <2> HIDE DEF c
  <2>4. Entry(c) /\ Stored(c)
    BY <1>0, <2>2, <2>3 DEF Entry, Stored, TypeOK
  <2> QED
    BY <2>2, <2>3, <2>4, EnterKeeps
<1>5. ASSUME NEW r \in Rules, NEW row \in Rule, BeginUpdateRule(u, r, row) PROVE IInv'
  <2> DEFINE c == [Idle EXCEPT !.kind = "rule", !.pc = "validate", !.chan = row.channel,
                               !.rule = r, !.row = row]
  <2>1. row.channel \in Chans \cup {None}
    BY DEF Rule
  <2>2. /\ c \in Call /\ c.kind = "rule" /\ c.pc = "validate" /\ ~c.rotate
        /\ c.old = None /\ ~c.met /\ c.chan = c.row.channel /\ c.ref = None /\ c.rule = r
    BY <2>1, IdleIsCall DEF Call
  <2>3. Enter(u, c) /\ UNCHANGED <<secrets, issued, file, channels, rules, created, hurt, loose>>
    BY <1>5 DEF BeginUpdateRule
  <2> HIDE DEF c
  <2>4. Entry(c) /\ Stored(c)
    BY <1>0, <2>2, <2>3 DEF Entry, Stored, TypeOK
  <2> QED
    BY <2>2, <2>3, <2>4, EnterKeeps
<1> QED
  BY <1>1, <1>2, <1>3, <1>4, <1>5

-----------------------------------------------------------------------------
(* Calls that end without a change                                          *)

LEMMA LeaveStep ==
    ASSUME IInv, NEW u \in Callers, Leave(u), UNCHANGED <<issued, channels, created>>,
           \A v \in Callers \ {u} : HasFresh(v) => secrets'[call[v].ref] = Token
    PROVE  /\ call' \in [Callers -> Call] /\ call'[u] = Idle
           /\ \A v \in Callers \ {u} : call'[v] = call[v]
           /\ Meets' /\ Shapes' /\ Creating' /\ Removed' /\ Steady' /\ Validated'
           /\ Owned' /\ Private'
<1>1. /\ call' \in [Callers -> Call] /\ call'[u] = Idle
      /\ \A v \in Callers \ {u} : call'[v] = call[v]
      /\ Meets'
  BY IdleIsCall, CallStep DEF Leave, IInv
<1>2. Shapes'
  BY <1>1, IdleIsCall DEF IInv, Shapes, Shape
<1>3. Creating' /\ Removed' /\ Steady' /\ Validated'
  BY <1>1, IdleIsCall DEF IInv, Creating, Removed, Steady, Validated, Active
<1>4. Owned'
  <2>1. PICK o \in [Refs -> Chans \cup {None}] : OwnedBy(o)
    BY DEF IInv, Owned
  <2>2. OwnedBy(o)'
    BY <1>1, <2>1, IdleIsCall DEF OwnedBy
  <2> QED
    BY <2>2 DEF Owned
<1>5. Private'
  <2> SUFFICES ASSUME NEW v \in Callers, HasFresh(v)'
               PROVE  /\ secrets'[call'[v].ref] = Token
                      /\ call'[v].old # call'[v].ref
                      /\ \A c \in Chans : channels'[c] # call'[v].ref
                      /\ \A w \in Callers \ {v} : /\ call'[w].ref # call'[v].ref
                                                  /\ call'[w].old # call'[v].ref
    BY DEF Private
  <2>1. v # u /\ HasFresh(v) /\ call'[v] = call[v] /\ Shape(call[v])
    BY <1>1, IdleIsCall DEF HasFresh, Active, IInv, Shapes
  <2>2. call[v].ref # None
    BY <2>1 DEF HasFresh, Active, Shape, IInv, TypeOK
  <2> QED
    BY <1>1, <2>1, <2>2, IdleIsCall DEF IInv, Private
<1> QED
  BY <1>1, <1>2, <1>3, <1>4, <1>5

LEMMA LeaveKeeps ==
    ASSUME IInv, NEW u \in Callers, Leave(u), hurt' \in SUBSET Chans, hurt \subseteq hurt',
           call[u].rotate => call[u].chan \in hurt' \/ channels[call[u].chan] = None,
           UNCHANGED <<secrets, issued, file, channels, rules, created, loose>>
    PROVE  IInv'
<1>1. /\ call' \in [Callers -> Call] /\ call'[u] = Idle
      /\ \A v \in Callers \ {u} : call'[v] = call[v]
      /\ Meets' /\ Shapes' /\ Creating' /\ Removed' /\ Steady' /\ Validated'
      /\ Owned' /\ Private'
  BY LeaveStep DEF IInv, Private
<1>2. TypeOK'
  BY <1>1 DEF IInv, TypeOK
<1>3. ChannelHasToken'
  <2> SUFFICES ASSUME NEW d \in Chans \ hurt', channels[d] # None, ~Rotating(d)'
               PROVE  secrets[channels[d]] = Token
    BY DEF ChannelHasToken
  <2>1. ~Rotating(d)
    BY <1>1 DEF Rotating
  <2> QED
    BY <2>1 DEF IInv, ChannelHasToken
<1>4. Unused' /\ NoDanglingChannel'
  BY <1>1, IdleIsCall DEF IInv, Unused, NoDanglingChannel
<1> QED
  BY <1>1, <1>2, <1>3, <1>4 DEF IInv

LEMMA RefusedKeeps ==
    ASSUME IInv, NEW u \in Callers, ChannelFails(u) \/ DeleteRefused(u) \/ RuleRefused(u)
    PROVE  IInv'
<1>0. TypeOK /\ Shape(call[u]) /\ hurt \subseteq Chans /\ created \subseteq Chans
  BY DEF IInv, Shapes, TypeOK
<1>1. CASE ChannelFails(u)
  <2>1. call[u].chan \in Chans
    BY <1>0, <1>1 DEF ChannelFails, Shape
  <2> QED
    BY <1>0, <1>1, <2>1, LeaveKeeps DEF ChannelFails, Present
<1>2. CASE DeleteRefused(u) \/ RuleRefused(u)
  <2>1. ~call[u].rotate
    BY <1>0, <1>2 DEF DeleteRefused, RuleRefused, Shape
  <2> QED
    BY <1>0, <1>2, <2>1, LeaveKeeps DEF DeleteRefused, RuleRefused
<1> QED
  BY <1>1, <1>2

-----------------------------------------------------------------------------
(* CreateChannel, UpdateChannel                                             *)

LEMMA InsertKeeps ==
    ASSUME IInv, NEW u \in Callers, InsertChannel(u)
    PROVE  IInv'
<1> DEFINE c == call[u].chan
           f == call[u].ref
<1>0. /\ TypeOK /\ Shape(call[u]) /\ Active(u) /\ HasFresh(u)
      /\ call[u].kind = "create" /\ call[u].pc = "write" /\ ~call[u].rotate
      /\ channels' = [channels EXCEPT ![c] = f] /\ Leave(u)
      /\ UNCHANGED <<secrets, issued, file, rules, created, hurt, loose>>
  BY Fields DEF IInv, Shapes, InsertChannel, Active, HasFresh, Shape
<1>1. /\ c \in created /\ c \in Chans /\ f \in issued /\ f \in Refs /\ f # None
      /\ secrets[f] = Token /\ channels[c] = None
  BY <1>0 DEF Shape, TypeOK, IInv, Private, Creating
<1>2. /\ call' \in [Callers -> Call] /\ call'[u] = Idle
      /\ \A v \in Callers \ {u} : call'[v] = call[v]
      /\ Meets'
  BY <1>0, IdleIsCall, CallStep DEF Leave, IInv
<1>3. /\ channels' \in [Chans -> Refs \cup {None}] /\ channels'[c] = f
      /\ \A d \in Chans \ {c} : channels'[d] = channels[d]
  BY <1>0, <1>1 DEF TypeOK
<1>4. \A v \in Callers \ {u} : Active(v) /\ call[v].kind # "rule" => call[v].chan # c
  BY <1>0 DEF IInv, Creating
<1>5. \A v \in Callers \ {u} : call[v].ref # f /\ call[v].old # f
  BY <1>0 DEF IInv, Private
<1>6. \A v \in Callers : Shape(call[v]) /\ call[v].chan \in Chans \cup {None}
  BY <1>0, Fields DEF IInv, Shapes
<1> HIDE DEF c, f
<1>7. TypeOK'
  BY <1>0, <1>2, <1>3 DEF TypeOK
<1>8. Shapes'
  BY <1>0, <1>1, <1>2, <1>3, IdleIsCall DEF IInv, Shapes, Shape
<1>9. Creating'
  <2>1. ASSUME NEW v \in Callers, call'[v].pc # "idle", call'[v].kind = "create"
        PROVE  /\ v # u /\ call'[v] = call[v] /\ channels'[call[v].chan] = None
    <3>1. v # u /\ call'[v] = call[v] /\ Active(v)
      BY <1>2, <2>1, IdleIsCall DEF Active
    <3>2. call[v].chan \in Chans /\ call[v].chan # c /\ channels[call[v].chan] = None
      BY <1>0, <1>4, <1>6, <2>1, <3>1 DEF IInv, Creating, Shape, TypeOK
    <3> QED
      BY <1>3, <3>1, <3>2
  <2> QED
    BY <1>2, <2>1, IdleIsCall DEF IInv, Creating, Active
<1>10. Owned'
  <2>1. PICK o \in [Refs -> Chans \cup {None}] : OwnedBy(o)
    BY DEF IInv, Owned
  <2>2. o[f] = c
    BY <1>1, <2>1 DEF OwnedBy, c, f
  <2>3. OwnedBy(o)'
    BY <1>2, <1>3, <2>1, <2>2, IdleIsCall DEF OwnedBy
  <2> QED
    BY <2>3 DEF Owned
<1>11. Private'
  <2> SUFFICES ASSUME NEW v \in Callers, HasFresh(v)'
               PROVE  /\ secrets'[call'[v].ref] = Token
                      /\ call'[v].old # call'[v].ref
                      /\ \A d \in Chans : channels'[d] # call'[v].ref
                      /\ \A w \in Callers \ {v} : /\ call'[w].ref # call'[v].ref
                                                  /\ call'[w].old # call'[v].ref
    BY DEF Private
  <2>1. v # u /\ HasFresh(v) /\ call'[v] = call[v]
    BY <1>2, IdleIsCall DEF HasFresh, Active
  <2>2. call[v].ref # None
    BY <1>0, <1>6, <2>1 DEF HasFresh, Active, Shape, TypeOK
  <2> QED
    BY <1>0, <1>2, <1>3, <1>5, <2>1, <2>2, IdleIsCall DEF IInv, Private
<1>12. Removed' /\ Steady'
  <2>1. ASSUME NEW v \in Callers, call'[v].pc # "idle", call'[v].kind \in {"update", "delete"}
        PROVE  /\ call'[v] = call[v] /\ channels'[call[v].chan] = channels[call[v].chan]
    <3>1. v # u /\ call'[v] = call[v] /\ Active(v)
      BY <1>2, <2>1, IdleIsCall DEF Active
    <3>2. call[v].chan \in Chans /\ call[v].chan # c
      BY <1>0, <1>4, <1>6, <2>1, <3>1 DEF Shape, TypeOK
    <3> QED
      BY <1>3, <3>1, <3>2
  <2>2. ASSUME NEW v \in Callers, call'[v].pc = "forget" PROVE call'[v].kind = "delete"
    BY <1>2, <1>6, <2>2, IdleIsCall DEF Shape
  <2> QED
    BY <2>1, <2>2 DEF IInv, Removed, Steady
<1>13. ChannelHasToken'
  <2> SUFFICES ASSUME NEW d \in Chans \ hurt, channels'[d] # None, ~Rotating(d)'
               PROVE  secrets[channels'[d]] = Token
    BY <1>0 DEF ChannelHasToken
  <2>1. ~Rotating(d)
    BY <1>0, <1>2 DEF Rotating
  <2> QED
    BY <1>1, <1>3, <2>1 DEF IInv, ChannelHasToken
<1>14. Unused' /\ Validated' /\ NoDanglingChannel'
  <2>1. \A d \in Chans : channels[d] # None => channels'[d] # None
    BY <1>1, <1>3
  <2>2. \A v \in Callers : call'[v].pc \in {"remove", "save"} => call'[v] = call[v]
    BY <1>2, IdleIsCall
  <2>3. /\ \A v \in Callers : call[v].row.channel \in Chans \cup {None}
        /\ \A r \in Rules : rules[r] # None => rules[r].channel \in Chans \cup {None}
    BY <1>0, Fields DEF TypeOK, Rule
  <2> QED
    BY <1>0, <2>1, <2>2, <2>3 DEF IInv, Unused, Validated, NoDanglingChannel
<1> QED
  BY <1>2, <1>7, <1>8, <1>9, <1>10, <1>11, <1>12, <1>13, <1>14 DEF IInv

LEMMA StoreKeeps ==
    ASSUME IInv, NEW u \in Callers, StoreToken(u)
    PROVE  IInv'
<1>f. PICK f : f = Fresh
  OBVIOUS
<1>c. PICK c : c = call[u].chan
  OBVIOUS
<1> DEFINE r == [call[u] EXCEPT !.pc = "drop", !.old = call[u].ref, !.ref = f]
<1>0. /\ TypeOK /\ Shape(call[u]) /\ Active(u) /\ call[u].pc = "rotate"
      /\ issued # Refs /\ issued' = issued \cup {f} /\ secrets' = [secrets EXCEPT ![f] = Token]
      /\ file' \in {secrets', file}
      /\ UNCHANGED <<channels, rules, created, hurt, loose>>
  BY <1>f DEF IInv, Shapes, StoreToken, Active, Put, Save
<1>1. f \in Refs \ issued /\ issued \subseteq Refs
  BY <1>f, <1>0 DEF Fresh, TypeOK
<1>2. /\ call[u].kind = "update" /\ call[u].rotate /\ call[u].chan \in created
      /\ call[u].chan \in Chans /\ call[u].ref \in issued /\ call[u].ref # None
  BY <1>0, <1>1 DEF Shape, TypeOK
<1>3. call' = [call EXCEPT ![u] = r]
  BY <1>f DEF StoreToken
<1>4. /\ r \in Call /\ r.kind = "update" /\ r.pc = "drop" /\ r.chan = call[u].chan
      /\ r.ref = f /\ r.old = call[u].ref /\ r.rotate /\ r.met = call[u].met
  <2>1. call[u] \in Call
    BY <1>0, Fields
  <2> QED
    BY <1>0, <1>1, <1>2, <2>1 DEF Call
<1> HIDE DEF r
<1>5. /\ call' \in [Callers -> Call] /\ call'[u] = r
      /\ \A v \in Callers \ {u} : call'[v] = call[v]
      /\ Meets'
  BY <1>0, <1>2, <1>3, <1>4, CallStep DEF IInv
<1>6. /\ secrets' \in [Refs -> {Token, None}] /\ secrets'[f] = Token
      /\ \A x \in issued : secrets'[x] = secrets[x]
  BY <1>0, <1>1 DEF TypeOK
<1>7. TypeOK'
  BY <1>0, <1>1, <1>5, <1>6 DEF TypeOK
<1>8. Shapes'
  <2>1. \A v \in Callers \ {u} : Shape(call[v])'
    BY <1>0, <1>5 DEF IInv, Shapes, Shape
  <2>2. Shape(call[u])'
    BY <1>0, <1>2, <1>4, <1>5 DEF Shape
  <2> QED
    BY <1>0, <2>1, <2>2 DEF IInv, Shapes
<1>9. Creating' /\ Removed' /\ Steady' /\ Validated' /\ Unused' /\ NoDanglingChannel'
  BY <1>0, <1>2, <1>4, <1>5 DEF IInv, Creating, Removed, Steady, Validated, Unused,
                               NoDanglingChannel, Active
<1>10. \A v \in Callers : /\ call[v].ref # None => call[v].ref \in issued
                          /\ call[v].old # None => call[v].old \in issued
  BY DEF IInv, Shapes, Shape
<1>11. \A d \in Chans : channels[d] # None => channels[d] \in issued
  BY DEF IInv, Shapes
<1>12. Owned'
  <2>1. PICK o \in [Refs -> Chans \cup {None}] : OwnedBy(o)
    BY DEF IInv, Owned
  <2> DEFINE p == [o EXCEPT ![f] = c]
  <2>2. /\ p \in [Refs -> Chans \cup {None}] /\ p[f] = c
        /\ \A x \in issued : p[x] = o[x]
    BY <1>1, <1>2, <1>c
  <2> HIDE DEF p
  <2>3. OwnedBy(p)'
    BY <1>0, <1>2, <1>4, <1>5, <1>10, <1>11, <1>c, <2>1, <2>2 DEF OwnedBy
  <2> QED
    BY <2>2, <2>3 DEF Owned
<1>13. Private'
  <2> SUFFICES ASSUME NEW v \in Callers, HasFresh(v)'
               PROVE  /\ secrets'[call'[v].ref] = Token
                      /\ call'[v].old # call'[v].ref
                      /\ \A d \in Chans : channels'[d] # call'[v].ref
                      /\ \A w \in Callers \ {v} : /\ call'[w].ref # call'[v].ref
                                                  /\ call'[w].old # call'[v].ref
    BY DEF Private
  <2>0. f # None
    BY <1>1
  <2>1. CASE v = u
    BY <1>0, <1>1, <1>2, <1>4, <1>5, <1>6, <1>10, <1>11, <2>0, <2>1
  <2>2. CASE v # u
    <3>1. HasFresh(v) /\ call'[v] = call[v]
      BY <1>5, <2>2 DEF HasFresh, Active
    <3>2. call[v].ref \in issued
      BY <3>1 DEF IInv, Shapes, Shape, HasFresh, Active
    <3> QED
      BY <1>0, <1>1, <1>4, <1>5, <1>6, <2>2, <3>1, <3>2 DEF IInv, Private
  <2> QED
    BY <2>1, <2>2
<1>14. ChannelHasToken'
  <2> SUFFICES ASSUME NEW d \in Chans \ hurt, channels[d] # None, ~Rotating(d)'
               PROVE  secrets'[channels[d]] = Token
    BY <1>0 DEF ChannelHasToken
  <2>1. ~Rotating(d)
    BY <1>0, <1>5 DEF Rotating
  <2> QED
    BY <1>6, <1>11, <2>1 DEF IInv, ChannelHasToken
<1> QED
  BY <1>5, <1>7, <1>8, <1>9, <1>12, <1>13, <1>14 DEF IInv

LEMMA DropKeeps ==
    ASSUME IInv, NEW u \in Callers, DropToken(u)
    PROVE  IInv'
<1> DEFINE r == [call[u] EXCEPT !.pc = "write"]
           x == call[u].old
<1>0. /\ TypeOK /\ Shape(call[u]) /\ Active(u) /\ call[u].pc = "drop"
      /\ secrets' = [secrets EXCEPT ![x] = None] /\ call' = [call EXCEPT ![u] = r]
      /\ file' \in {secrets', file}
      /\ UNCHANGED <<issued, channels, rules, created, hurt, loose>>
  BY DEF IInv, Shapes, DropToken, Active, Save
<1>1. /\ call[u].kind = "update" /\ call[u].rotate /\ call[u].chan \in created
      /\ call[u].chan \in Chans /\ call[u].ref \in issued /\ x \in issued /\ x \in Refs
      /\ x # None
  BY <1>0 DEF Shape, TypeOK
<1>2. /\ r \in Call /\ r.kind = "update" /\ r.pc = "write" /\ r.chan = call[u].chan
      /\ r.ref = call[u].ref /\ r.old = call[u].old /\ r.rotate /\ r.met = call[u].met
  <2>1. call[u] \in Call
    BY <1>0, Fields
  <2> QED
    BY <1>0, <1>1, <2>1 DEF Call
<1> HIDE DEF r
<1>3. /\ call' \in [Callers -> Call] /\ call'[u] = r
      /\ \A v \in Callers \ {u} : call'[v] = call[v]
      /\ Meets'
  BY <1>0, <1>1, <1>2, CallStep DEF IInv
<1>4. /\ secrets' \in [Refs -> {Token, None}]
      /\ \A y \in Refs \ {x} : secrets'[y] = secrets[y]
  BY <1>0, <1>1 DEF TypeOK
<1> HIDE DEF x
<1>5. TypeOK'
  BY <1>0, <1>1, <1>3, <1>4 DEF TypeOK
<1>6. Shapes'
  <2>1. \A v \in Callers \ {u} : Shape(call[v])'
    BY <1>0, <1>3 DEF IInv, Shapes, Shape
  <2>2. Shape(call[u])'
    BY <1>0, <1>1, <1>2, <1>3 DEF Shape, x
  <2> QED
    BY <1>0, <2>1, <2>2 DEF IInv, Shapes
<1>7. Creating' /\ Removed' /\ Steady' /\ Validated' /\ Unused' /\ NoDanglingChannel'
  BY <1>0, <1>1, <1>2, <1>3 DEF IInv, Creating, Removed, Steady, Validated, Unused,
                               NoDanglingChannel, Active
<1>8. Owned'
  <2>1. PICK o \in [Refs -> Chans \cup {None}] : OwnedBy(o)
    BY DEF IInv, Owned
  <2>2. OwnedBy(o)'
    BY <1>0, <1>2, <1>3, <2>1 DEF OwnedBy
  <2> QED
    BY <2>2 DEF Owned
<1>9. Private'
  <2> SUFFICES ASSUME NEW v \in Callers, HasFresh(v)'
               PROVE  /\ secrets'[call'[v].ref] = Token
                      /\ call'[v].old # call'[v].ref
                      /\ \A d \in Chans : channels'[d] # call'[v].ref
                      /\ \A w \in Callers \ {v} : /\ call'[w].ref # call'[v].ref
                                                  /\ call'[w].old # call'[v].ref
    BY DEF Private
  <2>1. HasFresh(v) /\ HasFresh(u)
    BY <1>0, <1>1, <1>2, <1>3 DEF HasFresh, Active
  <2>2. call'[v].ref = call[v].ref /\ call'[v].old = call[v].old
    BY <1>2, <1>3
  <2>3. call[v].ref \in Refs \ {x}
    BY <1>0, <1>1, <2>1 DEF IInv, Private, Shapes, Shape, HasFresh, Active, TypeOK, x
  <2> QED
    BY <1>0, <1>2, <1>3, <1>4, <2>1, <2>2, <2>3 DEF IInv, Private
<1>10. ChannelHasToken'
  <2> SUFFICES ASSUME NEW d \in Chans \ hurt, channels[d] # None, ~Rotating(d)'
               PROVE  secrets'[channels[d]] = Token
    BY <1>0 DEF ChannelHasToken
  <2>1. d # call[u].chan
    BY <1>1, <1>2, <1>3 DEF Rotating
  <2>2. ~Rotating(d)
    BY <1>0, <1>3 DEF Rotating
  <2>3. PICK o \in [Refs -> Chans \cup {None}] : OwnedBy(o)
    BY DEF IInv, Owned
  <2>4. channels[d] # x
    BY <1>1, <2>1, <2>3 DEF OwnedBy, x
  <2> QED
    BY <1>0, <1>4, <2>2, <2>4 DEF IInv, ChannelHasToken, TypeOK
<1> QED
  BY <1>3, <1>5, <1>6, <1>7, <1>8, <1>9, <1>10 DEF IInv

LEMMA WriteKeeps ==
    ASSUME IInv, NEW u \in Callers, WriteChannel(u)
    PROVE  IInv'
<1> DEFINE c == call[u].chan
           f == call[u].ref
<1>0. /\ TypeOK /\ Shape(call[u]) /\ Active(u) /\ call[u].kind = "update" /\ call[u].pc = "write"
      /\ channels' = (IF channels[c] = None THEN channels ELSE [channels EXCEPT ![c] = f])
      /\ hurt' = (IF call[u].met THEN hurt \cup Present(c)
                  ELSE IF call[u].rotate THEN hurt \ {c} ELSE hurt)
      /\ Leave(u)
      /\ UNCHANGED <<secrets, issued, file, rules, created, loose>>
  BY DEF IInv, Shapes, WriteChannel, Active
<1>1. /\ c \in created /\ c \in Chans /\ f \in issued /\ f \in Refs /\ f # None
  BY <1>0 DEF Shape, TypeOK
<1>2. /\ call' \in [Callers -> Call] /\ call'[u] = Idle
      /\ \A v \in Callers \ {u} : call'[v] = call[v]
      /\ Meets'
  BY <1>0, IdleIsCall, CallStep DEF Leave, IInv
<1>3. /\ channels' \in [Chans -> Refs \cup {None}]
      /\ \A d \in Chans \ {c} : channels'[d] = channels[d]
      /\ channels[c] = None => channels'[c] = None
      /\ channels[c] # None => channels'[c] = f
  BY <1>0, <1>1 DEF TypeOK
<1>4. \A v \in Callers : Shape(call[v]) /\ call[v].chan \in Chans \cup {None}
  BY <1>0, Fields DEF IInv, Shapes
<1>5. \A d \in Chans : channels'[d] = None <=> channels[d] = None
  BY <1>1, <1>3
<1>6. ~call[u].met /\ ~call[u].rotate => channels' = channels
  <2> SUFFICES ASSUME ~call[u].met, ~call[u].rotate PROVE channels' = channels
    OBVIOUS
  <2>1. channels[c] = f
    BY <1>0 DEF IInv, Steady
  <2> QED
    BY <1>0, <1>1, <2>1 DEF TypeOK
<1> HIDE DEF c, f
<1>7. TypeOK'
  <2>1. hurt' \subseteq Chans
    BY <1>0, <1>1 DEF TypeOK, Present
  <2> QED
    BY <1>0, <1>2, <1>3, <2>1 DEF TypeOK
<1>8. Shapes'
  <2>1. \A d \in Chans : channels'[d] # None => d \in created /\ channels'[d] \in issued
    BY <1>1, <1>3 DEF IInv, Shapes
  <2>2. \A v \in Callers : Shape(call[v])'
    BY <1>0, <1>2, <1>4, IdleIsCall DEF Shape
  <2> QED
    BY <1>0, <2>1, <2>2 DEF Shapes
<1>9. Creating'
  <2>1. \A v \in Callers : Active(v)' => v # u /\ call'[v] = call[v] /\ Active(v)
    BY <1>2, IdleIsCall DEF Active
  <2>2. \A v \in Callers : Active(v) /\ call[v].kind = "create" => call[v].chan \in Chans
    BY <1>0, <1>4 DEF Active, Shape, TypeOK
  <2> QED
    BY <1>5, <2>1, <2>2 DEF IInv, Creating
<1>10. Owned'
  <2>1. PICK o \in [Refs -> Chans \cup {None}] : OwnedBy(o)
    BY DEF IInv, Owned
  <2>2. o[f] = c
    BY <1>1, <2>1 DEF OwnedBy, c, f
  <2>3. OwnedBy(o)'
    BY <1>2, <1>3, <2>1, <2>2, IdleIsCall DEF OwnedBy
  <2> QED
    BY <2>3 DEF Owned
<1>11. Private'
  <2> SUFFICES ASSUME NEW v \in Callers, HasFresh(v)'
               PROVE  /\ secrets'[call'[v].ref] = Token
                      /\ call'[v].old # call'[v].ref
                      /\ \A d \in Chans : channels'[d] # call'[v].ref
                      /\ \A w \in Callers \ {v} : /\ call'[w].ref # call'[v].ref
                                                  /\ call'[w].old # call'[v].ref
    BY DEF Private
  <2>1. v # u /\ HasFresh(v) /\ call'[v] = call[v]
    BY <1>2, IdleIsCall DEF HasFresh, Active
  <2>2. call[v].ref # None /\ call[v].ref # f
    BY <1>0, <1>4, <2>1 DEF HasFresh, Active, Shape, TypeOK, IInv, Private, f
  <2> QED
    BY <1>0, <1>2, <1>3, <2>1, <2>2, IdleIsCall DEF IInv, Private
<1>12. Removed'
  <2>1. \A v \in Callers : call[v].pc = "forget" => call[v].chan \in Chans
    BY <1>0, <1>4 DEF Shape, TypeOK
  <2> QED
    BY <1>2, <1>5, <2>1, IdleIsCall DEF IInv, Removed
<1>13. Steady'
  <2> SUFFICES ASSUME NEW v \in Callers, call'[v].kind = "update", call'[v].pc = "write",
                      ~call'[v].rotate, ~call'[v].met
               PROVE  channels'[call'[v].chan] = call'[v].ref
    BY DEF Steady
  <2>1. v # u /\ call'[v] = call[v]
    BY <1>2, IdleIsCall
  <2>2. call[v].chan \in Chans /\ call[v].chan # c
    BY <1>0, <1>4, <2>1 DEF Shape, TypeOK, IInv, Meets, Clash, Active, c
  <2> QED
    BY <1>3, <2>1, <2>2 DEF IInv, Steady
<1>14. ChannelHasToken'
  <2> SUFFICES ASSUME NEW d \in Chans \ hurt', channels'[d] # None, ~Rotating(d)'
               PROVE  secrets[channels'[d]] = Token
    BY <1>0 DEF ChannelHasToken
  <2>1. CASE d # c
    <3>1. d \notin hurt
      BY <1>0, <2>1 DEF Present
    <3>2. ~Rotating(d)
      BY <1>2, <2>1 DEF Rotating, c
    <3> QED
      BY <1>3, <2>1, <3>1, <3>2 DEF IInv, ChannelHasToken
  <2>2. CASE d = c /\ call[u].rotate
    <3>1. secrets[f] = Token
      BY <1>0, <2>2 DEF IInv, Private, HasFresh, f
    <3> QED
      BY <1>3, <1>5, <2>2, <3>1
  <2>3. CASE d = c /\ ~call[u].rotate
    <3>1. ~call[u].met /\ d \notin hurt
      BY <1>0, <1>5, <2>3 DEF Present
    <3>2. ~Rotating(d)
      <4> SUFFICES ASSUME NEW v \in Callers, call[v].chan = d, call[v].rotate,
                          call[v].pc = "write"
                   PROVE  FALSE
        BY DEF Rotating
      <4>1. v # u /\ call[v].kind = "update" /\ Active(v)
        BY <1>4, <2>3 DEF Shape, Active
      <4> QED
        BY <1>0, <2>3, <3>1, <4>1 DEF IInv, Meets, Clash, c
    <3> QED
      BY <1>6, <2>3, <3>1, <3>2 DEF IInv, ChannelHasToken
  <2> QED
    BY <2>1, <2>2, <2>3
<1>15. Unused' /\ Validated' /\ NoDanglingChannel'
  <2>1. \A v \in Callers : call'[v].pc \in {"remove", "save"} => call'[v] = call[v]
    BY <1>2, IdleIsCall
  <2>2. /\ \A v \in Callers : call[v].row.channel \in Chans \cup {None}
        /\ \A r \in Rules : rules[r] # None => rules[r].channel \in Chans \cup {None}
    BY <1>0, Fields DEF TypeOK, Rule
  <2> QED
    BY <1>0, <1>5, <2>1, <2>2 DEF IInv, Unused, Validated, NoDanglingChannel
<1> QED
  BY <1>2, <1>7, <1>8, <1>9, <1>10, <1>11, <1>12, <1>13, <1>14, <1>15 DEF IInv

-----------------------------------------------------------------------------
(* DeleteChannel, rules                                                     *)

\* A deletion or a rule's call that goes on keeps what does not depend on where it is.
LEMMA GoOn ==
    ASSUME IInv, NEW u \in Callers, NEW pc,
           \/ call[u].pc = "check" /\ pc = "remove"
           \/ call[u].pc = "remove" /\ pc = "forget"
           \/ call[u].pc = "validate" /\ pc = "save",
           call' = [call EXCEPT ![u].pc = pc],
           UNCHANGED <<secrets, issued, file, rules, created, loose>>
    PROVE  /\ call' \in [Callers -> Call]
           /\ call'[u].pc = pc /\ call'[u].ref = call[u].ref /\ call'[u].old = call[u].old
           /\ ~call'[u].rotate /\ ~call[u].rotate
           /\ call'[u].kind = call[u].kind /\ call'[u].chan = call[u].chan
           /\ call'[u].row = call[u].row /\ call'[u].met = call[u].met
           /\ \A v \in Callers \ {u} : call'[v] = call[v]
           /\ Meets'
           /\ \A v \in Callers : Shape(call[v])'
           /\ channels' = channels => Owned' /\ Private'
           /\ \A d \in Chans : Rotating(d)' <=> Rotating(d)
<1> DEFINE r == [call[u] EXCEPT !.pc = pc]
<1>0. TypeOK /\ Shape(call[u]) /\ Active(u) /\ call[u] \in Call /\ call' = [call EXCEPT ![u] = r]
  BY Fields DEF IInv, Shapes, Active
<1>1. /\ call[u].kind \in {"delete", "rule"} /\ ~call[u].rotate
      /\ call[u].pc = "validate" => call[u].kind = "rule"
      /\ call[u].pc # "validate" => call[u].kind = "delete"
  BY <1>0 DEF Shape
<1>2. /\ r \in Call /\ r.kind = call[u].kind /\ r.pc = pc /\ r.chan = call[u].chan
      /\ r.ref = call[u].ref /\ r.old = call[u].old /\ r.rotate = call[u].rotate
      /\ r.rule = call[u].rule /\ r.row = call[u].row /\ r.met = call[u].met
      /\ r.new = call[u].new
  BY <1>0 DEF Call
<1> HIDE DEF r
<1>3. /\ call' \in [Callers -> Call] /\ call'[u] = r
      /\ \A v \in Callers \ {u} : call'[v] = call[v]
      /\ Meets'
  BY <1>0, <1>2, CallStep DEF IInv
<1>4. \A v \in Callers : Shape(call[v])'
  <2>1. \A v \in Callers \ {u} : Shape(call[v])'
    BY <1>3 DEF IInv, Shapes, Shape
  <2>2. Shape(call[u])'
    BY <1>0, <1>1, <1>2, <1>3 DEF Shape
  <2> QED
    BY <2>1, <2>2
<1>5. ASSUME channels' = channels PROVE Owned'
  <2>1. PICK o \in [Refs -> Chans \cup {None}] : OwnedBy(o)
    BY DEF IInv, Owned
  <2>2. OwnedBy(o)'
    BY <1>2, <1>3, <1>5, <2>1 DEF OwnedBy
  <2> QED
    BY <2>2 DEF Owned
<1>6. ASSUME channels' = channels PROVE Private'
  <2> SUFFICES ASSUME NEW v \in Callers, HasFresh(v)'
               PROVE  /\ secrets'[call'[v].ref] = Token
                      /\ call'[v].old # call'[v].ref
                      /\ \A d \in Chans : channels'[d] # call'[v].ref
                      /\ \A w \in Callers \ {v} : /\ call'[w].ref # call'[v].ref
                                                  /\ call'[w].old # call'[v].ref
    BY DEF Private
  <2>1. v # u /\ HasFresh(v) /\ call'[v] = call[v]
    BY <1>1, <1>2, <1>3 DEF HasFresh, Active
  <2> QED
    BY <1>2, <1>3, <1>6, <2>1 DEF IInv, Private
<1>7. \A d \in Chans : Rotating(d)' <=> Rotating(d)
  BY <1>1, <1>2, <1>3 DEF Rotating
<1> QED
  BY <1>1, <1>2, <1>3, <1>4, <1>5, <1>6, <1>7

LEMMA CheckKeeps ==
    ASSUME IInv, NEW u \in Callers, CheckUnused(u) \/ ValidateRule(u)
    PROVE  IInv'
<1> DEFINE pc == IF call[u].pc = "check" THEN "remove" ELSE "save"
<1>0. /\ TypeOK /\ call[u].pc \in {"check", "validate"} /\ call' = [call EXCEPT ![u].pc = pc]
      /\ UNCHANGED <<secrets, issued, file, channels, rules, created, hurt, loose>>
  BY DEF IInv, CheckUnused, ValidateRule
<1>1. PICK q : q = pc
  OBVIOUS
<1>a. /\ call' = [call EXCEPT ![u].pc = q]
      /\ \/ call[u].pc = "check" /\ q = "remove"
         \/ call[u].pc = "validate" /\ q = "save"
  BY <1>0, <1>1
<1> HIDE DEF pc
<1>2. /\ call' \in [Callers -> Call]
      /\ call'[u].pc = q
      /\ call'[u].kind = call[u].kind /\ call'[u].chan = call[u].chan
      /\ call'[u].row = call[u].row /\ call'[u].met = call[u].met
      /\ \A v \in Callers \ {u} : call'[v] = call[v]
      /\ Meets'
      /\ \A v \in Callers : Shape(call[v])'
      /\ Owned' /\ Private'
      /\ \A d \in Chans : Rotating(d)' <=> Rotating(d)
  BY <1>0, <1>a, GoOn
<1>3. TypeOK' /\ Shapes'
  BY <1>0, <1>2 DEF IInv, TypeOK, Shapes
<1>4. Creating' /\ Removed' /\ Steady'
  BY <1>0, <1>1, <1>2 DEF IInv, Creating, Removed, Steady, Active, pc
<1>5. ChannelHasToken' /\ NoDanglingChannel'
  BY <1>0, <1>2 DEF IInv, ChannelHasToken, NoDanglingChannel
<1>6. Unused'
  <2>1. q = "remove" => \A r \in Rules : rules[r] # None =>
                            ~(rules[r].enabled /\ rules[r].channel = call[u].chan)
    BY <1>0, <1>1 DEF CheckUnused, ValidateRule, ListEnabledByChannel, pc
  <2> QED
    BY <1>0, <1>2, <2>1 DEF IInv, Unused
<1>7. Validated'
  <2>1. q = "save" /\ call[u].row.channel # None => channels[call[u].row.channel] # None
    BY <1>0, <1>1 DEF CheckUnused, ValidateRule, pc
  <2> QED
    BY <1>0, <1>2, <2>1 DEF IInv, Validated
<1> QED
  BY <1>2, <1>3, <1>4, <1>5, <1>6, <1>7 DEF IInv

LEMMA RemoveKeeps ==
    ASSUME IInv, NEW u \in Callers, RemoveChannel(u)
    PROVE  IInv'
<1> DEFINE c == call[u].chan
<1>0. /\ TypeOK /\ Shape(call[u]) /\ Active(u) /\ call[u].pc = "remove"
      /\ channels' = [channels EXCEPT ![c] = None] /\ call' = [call EXCEPT ![u].pc = "forget"]
      /\ hurt' = hurt \ {c}
      /\ UNCHANGED <<secrets, issued, file, rules, created, loose>>
  BY DEF IInv, Shapes, RemoveChannel, Active
<1>1. call[u].kind = "delete" /\ c \in Chans
  BY <1>0 DEF Shape, TypeOK
<1>2. /\ call' \in [Callers -> Call]
      /\ call'[u].pc = "forget"
      /\ call'[u].ref = call[u].ref /\ call'[u].old = call[u].old
      /\ ~call'[u].rotate /\ ~call[u].rotate
      /\ call'[u].kind = call[u].kind /\ call'[u].chan = call[u].chan
      /\ call'[u].row = call[u].row /\ call'[u].met = call[u].met
      /\ \A v \in Callers \ {u} : call'[v] = call[v]
      /\ Meets'
      /\ \A v \in Callers : Shape(call[v])'
      /\ \A d \in Chans : Rotating(d)' <=> Rotating(d)
  BY <1>0, GoOn
<1>3. /\ channels' \in [Chans -> Refs \cup {None}] /\ channels'[c] = None
      /\ \A d \in Chans \ {c} : channels'[d] = channels[d]
  BY <1>0, <1>1 DEF TypeOK
<1>4. \A v \in Callers : Shape(call[v]) /\ call[v].chan \in Chans \cup {None}
  BY <1>0, Fields DEF IInv, Shapes
<1> HIDE DEF c
<1>5. TypeOK' /\ Shapes'
  BY <1>0, <1>2, <1>3 DEF IInv, TypeOK, Shapes
<1>6. Creating'
  <2>1. \A v \in Callers : Active(v) /\ call[v].kind = "create" => call[v].chan \in Chans
    BY <1>0, <1>4 DEF Active, Shape, TypeOK
  <2> QED
    BY <1>0, <1>1, <1>2, <1>3, <2>1 DEF IInv, Creating, Active
<1>7. Owned'
  <2>1. PICK o \in [Refs -> Chans \cup {None}] : OwnedBy(o)
    BY DEF IInv, Owned
  <2>2. OwnedBy(o)'
    BY <1>2, <1>3, <2>1 DEF OwnedBy
  <2> QED
    BY <2>2 DEF Owned
<1>8. Private'
  <2> SUFFICES ASSUME NEW v \in Callers, HasFresh(v)'
               PROVE  /\ secrets'[call'[v].ref] = Token
                      /\ call'[v].old # call'[v].ref
                      /\ \A d \in Chans : channels'[d] # call'[v].ref
                      /\ \A w \in Callers \ {v} : /\ call'[w].ref # call'[v].ref
                                                  /\ call'[w].old # call'[v].ref
    BY DEF Private
  <2>1. v # u /\ HasFresh(v) /\ call'[v] = call[v]
    BY <1>1, <1>2 DEF HasFresh, Active
  <2>2. call[v].ref # None
    BY <1>0, <1>4, <2>1 DEF HasFresh, Active, Shape, TypeOK
  <2> QED
    BY <1>0, <1>2, <1>3, <2>1, <2>2 DEF IInv, Private
<1>9. Removed'
  <2>1. \A v \in Callers : call[v].pc = "forget" => call[v].chan \in Chans
    BY <1>0, <1>4 DEF Shape, TypeOK
  <2> QED
    BY <1>2, <1>3, <2>1 DEF IInv, Removed, c
<1>10. Steady'
  <2> SUFFICES ASSUME NEW v \in Callers, call'[v].kind = "update", call'[v].pc = "write",
                      ~call'[v].rotate, ~call'[v].met
               PROVE  channels'[call'[v].chan] = call'[v].ref
    BY DEF Steady
  <2>1. v # u /\ call'[v] = call[v]
    BY <1>2
  <2>2. call[v].chan \in Chans /\ call[v].chan # c
    BY <1>0, <1>1, <1>4, <2>1 DEF Shape, TypeOK, IInv, Meets, Clash, Active, c
  <2> QED
    BY <1>3, <2>1, <2>2 DEF IInv, Steady
<1>11. ChannelHasToken'
  BY <1>0, <1>2, <1>3 DEF IInv, ChannelHasToken
<1>12. Unused'
  BY <1>0, <1>2 DEF IInv, Unused
<1>13. Validated'
  <2> SUFFICES ASSUME NEW v \in Callers, call'[v].pc = "save", ~call'[v].met,
                      call'[v].row.channel # None
               PROVE  channels'[call'[v].row.channel] # None
    BY DEF Validated
  <2>1. v # u /\ call'[v] = call[v]
    BY <1>2
  <2>2. call[v].kind = "rule" /\ call[v].chan = call[v].row.channel /\ Active(v)
    BY <1>4, <2>1 DEF Shape, Active
  <2>3. call[v].chan \in Chans /\ call[v].chan # c
    BY <1>0, <1>1, <1>4, <2>1, <2>2 DEF IInv, Meets, Clash, c
  <2> QED
    BY <1>3, <2>1, <2>2, <2>3 DEF IInv, Validated
<1>14. NoDanglingChannel'
  <2> SUFFICES ASSUME NEW r \in Rules \ loose, rules[r] # None, rules[r].enabled,
                      rules[r].channel # None
               PROVE  channels'[rules[r].channel] # None
    BY <1>0 DEF NoDanglingChannel
  <2>1. rules[r].channel \in Chans
    BY <1>0 DEF TypeOK, Rule
  <2>2. rules[r].channel # c
    BY <1>0 DEF IInv, Unused, c
  <2> QED
    BY <1>3, <2>1, <2>2 DEF IInv, NoDanglingChannel
<1> QED
  BY <1>2, <1>5, <1>6, <1>7, <1>8, <1>9, <1>10, <1>11, <1>12, <1>13, <1>14 DEF IInv

LEMMA ForgetKeeps ==
    ASSUME IInv, NEW u \in Callers, ForgetToken(u)
    PROVE  IInv'
<1> DEFINE x == call[u].ref
<1>0. /\ TypeOK /\ Shape(call[u]) /\ Active(u) /\ call[u].pc = "forget"
      /\ secrets' = [secrets EXCEPT ![x] = None] /\ Leave(u)
      /\ file' \in {secrets', file}
      /\ UNCHANGED <<issued, channels, rules, created, hurt, loose>>
  BY DEF IInv, Shapes, ForgetToken, Active, Save
<1>1. /\ call[u].kind = "delete" /\ ~call[u].rotate /\ call[u].chan \in Chans
      /\ x \in Refs /\ x # None /\ channels[call[u].chan] = None
  BY <1>0 DEF Shape, TypeOK, IInv, Removed
<1>2. /\ secrets' \in [Refs -> {Token, None}]
      /\ \A y \in Refs \ {x} : secrets'[y] = secrets[y]
  BY <1>0, <1>1 DEF TypeOK
<1> HIDE DEF x
<1>3. ASSUME NEW v \in Callers \ {u}, HasFresh(v) PROVE secrets'[call[v].ref] = Token
  <2>1. Shape(call[v]) /\ call[v].ref # x /\ secrets[call[v].ref] = Token
    BY <1>3 DEF IInv, Private, Shapes, x
  <2>2. call[v].ref \in Refs
    BY <1>0, <1>3, <2>1 DEF HasFresh, Active, Shape, TypeOK
  <2> QED
    BY <1>2, <2>1, <2>2
<1>4. /\ call' \in [Callers -> Call] /\ call'[u] = Idle
      /\ \A v \in Callers \ {u} : call'[v] = call[v]
      /\ Meets' /\ Shapes' /\ Creating' /\ Removed' /\ Steady' /\ Validated'
      /\ Owned' /\ Private'
  BY <1>0, <1>3, LeaveStep
<1>5. TypeOK'
  BY <1>0, <1>1, <1>2, <1>4 DEF TypeOK
<1>6. ChannelHasToken'
  <2> SUFFICES ASSUME NEW d \in Chans \ hurt, channels[d] # None, ~Rotating(d)'
               PROVE  secrets'[channels[d]] = Token
    BY <1>0 DEF ChannelHasToken
  <2>1. ~Rotating(d)
    BY <1>1, <1>4 DEF Rotating
  <2>2. PICK o \in [Refs -> Chans \cup {None}] : OwnedBy(o)
    BY DEF IInv, Owned
  <2>3. channels[d] # x
    BY <1>1, <2>2 DEF OwnedBy, x
  <2> QED
    BY <1>0, <1>2, <2>1, <2>3 DEF IInv, ChannelHasToken, TypeOK
<1>7. Unused' /\ NoDanglingChannel'
  BY <1>0, <1>4, IdleIsCall DEF IInv, Unused, NoDanglingChannel
<1> QED
  BY <1>4, <1>5, <1>6, <1>7 DEF IInv

LEMMA SaveKeeps ==
    ASSUME IInv, NEW u \in Callers, NEW r \in Rules, SaveRule(u, r)
    PROVE  IInv'
<1> DEFINE row == call[u].row
<1>0. /\ TypeOK /\ Shape(call[u]) /\ Active(u) /\ call[u].pc = "save" /\ row \in Rule
      /\ rules' = (IF call[u].new \/ rules[r] # None THEN [rules EXCEPT ![r] = row] ELSE rules)
      /\ loose' = (IF call[u].met THEN loose \cup {r} ELSE loose \ {r})
      /\ Leave(u)
      /\ UNCHANGED <<secrets, issued, file, channels, created, hurt>>
  BY Fields DEF IInv, Shapes, SaveRule, Active
<1>1. call[u].kind = "rule" /\ call[u].chan = row.channel /\ ~call[u].rotate
  BY <1>0 DEF Shape
<1>2. /\ call' \in [Callers -> Call] /\ call'[u] = Idle
      /\ \A v \in Callers \ {u} : call'[v] = call[v]
      /\ Meets' /\ Shapes' /\ Creating' /\ Removed' /\ Steady' /\ Validated'
      /\ Owned' /\ Private'
  BY <1>0, LeaveStep DEF IInv, Private
<1>3. /\ rules' \in [Rules -> Rule \cup {None}]
      /\ \A q \in Rules \ {r} : rules'[q] = rules[q]
      /\ rules'[r] \in {row, None}
  BY <1>0 DEF TypeOK
<1>4. /\ \A q \in Rules \ {r} : q \notin loose' => q \notin loose
      /\ r \notin loose' => ~call[u].met
  BY <1>0
<1> HIDE DEF row
<1>5. TypeOK'
  BY <1>0, <1>2, <1>3 DEF TypeOK
<1>6. ChannelHasToken'
  <2>1. \A d \in Chans : Rotating(d)' <=> Rotating(d)
    BY <1>1, <1>2, IdleIsCall DEF Rotating
  <2> QED
    BY <1>0, <2>1 DEF IInv, ChannelHasToken
<1>7. Unused'
  <2> SUFFICES ASSUME NEW v \in Callers, call'[v].pc = "remove", NEW q \in Rules \ loose',
                      rules'[q] # None, rules'[q].enabled, rules'[q].channel = call'[v].chan
               PROVE  FALSE
    BY DEF Unused
  <2>1. v # u /\ call'[v] = call[v] /\ Shape(call[v])
    BY <1>2, IdleIsCall DEF IInv, Shapes
  <2>2. CASE q = r
    <3>1. call[v].kind = "delete" /\ Active(v) /\ call[v].chan = call[u].chan
      BY <1>1, <1>3, <2>1, <2>2 DEF Shape, Active
    <3>2. call[u].met
      BY <1>0, <1>1, <2>1, <3>1 DEF IInv, Meets, Clash
    <3> QED
      BY <1>4, <2>2, <3>2
  <2>3. CASE q # r
    BY <1>3, <1>4, <2>1, <2>3 DEF IInv, Unused
  <2> QED
    BY <2>2, <2>3
<1>8. NoDanglingChannel'
  <2> SUFFICES ASSUME NEW q \in Rules \ loose', rules'[q] # None, rules'[q].enabled,
                      rules'[q].channel # None
               PROVE  channels[rules'[q].channel] # None
    BY <1>0 DEF NoDanglingChannel
  <2>1. CASE q = r
    BY <1>0, <1>3, <1>4, <2>1 DEF IInv, Validated, row
  <2>2. CASE q # r
    BY <1>3, <1>4, <2>2 DEF IInv, NoDanglingChannel
  <2> QED
    BY <2>1, <2>2
<1> QED
  BY <1>2, <1>5, <1>6, <1>7, <1>8 DEF IInv

LEMMA DeleteRuleKeeps ==
    ASSUME IInv, NEW u \in Callers, NEW r \in Rules, DeleteRule(u, r)
    PROVE  IInv'
<1>1. /\ TypeOK /\ rules' = [rules EXCEPT ![r] = None] /\ loose' = loose \ {r}
      /\ UNCHANGED <<secrets, issued, file, channels, call, created, hurt>>
  BY DEF IInv, DeleteRule
<1>2. /\ rules' \in [Rules -> Rule \cup {None}]
      /\ \A q \in Rules : rules'[q] # None =>
            rules'[q] = rules[q] /\ rules[q] # None /\ (q \in loose <=> q \in loose')
  BY <1>1 DEF TypeOK
<1>3. TypeOK' /\ Shapes' /\ Creating' /\ Meets'
  BY <1>1, <1>2 DEF IInv, TypeOK, Shapes, Shape, Creating, Meets, Active
<1>4. Owned'
  <2>1. PICK o \in [Refs -> Chans \cup {None}] : OwnedBy(o)
    BY DEF IInv, Owned
  <2>2. OwnedBy(o)'
    BY <1>1, <2>1 DEF OwnedBy
  <2> QED
    BY <2>2 DEF Owned
<1>5. Private' /\ Removed' /\ Steady' /\ ChannelHasToken' /\ Validated'
  BY <1>1 DEF IInv, Private, HasFresh, Active, Removed, Steady, ChannelHasToken, Rotating,
              Validated
<1>6. Unused' /\ NoDanglingChannel'
  BY <1>1, <1>2 DEF IInv, Unused, NoDanglingChannel
<1> QED
  BY <1>3, <1>4, <1>5, <1>6 DEF IInv

-----------------------------------------------------------------------------
LEMMA RestartKeeps == IInv /\ Restart => IInv'
<1> SUFFICES ASSUME IInv, Restart PROVE IInv'
  OBVIOUS
<1>1. /\ TypeOK /\ \A u \in Callers : call'[u] = Idle
      /\ secrets' = file /\ UNCHANGED <<issued, file, channels, rules, created, loose>>
  BY DEF IInv, Restart
<1>h. /\ hurt' \in SUBSET Chans /\ hurt \subseteq hurt'
      /\ \A d \in Chans \ hurt' : channels[d] # None =>
            file[channels[d]] = secrets[channels[d]] /\ \A u \in Callers : ~(call[u].chan = d /\ call[u].rotate)
  BY <1>1 DEF Restart, TypeOK
<1>2. TypeOK'
  <2>1. call' \in [Callers -> Call]
    BY IdleIsCall DEF Restart
  <2> QED
    BY <1>1, <1>h, <2>1 DEF TypeOK
<1>3. Shapes' /\ Creating' /\ Meets' /\ Private' /\ Removed' /\ Steady' /\ Unused' /\ Validated'
  BY <1>1, IdleIsCall DEF IInv, Shapes, Shape, Creating, Meets, Private, HasFresh, Active,
                          Removed, Steady, Unused, Validated
<1>4. Owned'
  <2>1. PICK o \in [Refs -> Chans \cup {None}] : OwnedBy(o)
    BY DEF IInv, Owned
  <2>2. OwnedBy(o)'
    BY <1>1, <2>1, IdleIsCall DEF OwnedBy
  <2> QED
    BY <2>2 DEF Owned
<1>5. ChannelHasToken'
  <2> SUFFICES ASSUME NEW d \in Chans \ hurt', channels[d] # None
               PROVE  secrets'[channels[d]] = Token
    BY <1>1 DEF ChannelHasToken
  <2>1. d \notin hurt /\ ~Rotating(d)
    BY <1>h DEF Rotating
  <2>2. secrets'[channels[d]] = secrets[channels[d]]
    BY <1>1, <1>h
  <2> QED
    BY <1>1, <2>1, <2>2 DEF IInv, ChannelHasToken
<1>6. NoDanglingChannel'
  BY <1>1 DEF IInv, NoDanglingChannel
<1> QED
  BY <1>2, <1>3, <1>4, <1>5, <1>6 DEF IInv

-----------------------------------------------------------------------------
(* The other owners of secrets                                              *)

\* The references that rows, and calls under way, name.
Named == {r \in Refs : \/ \E c \in Chans : channels[c] = r
                       \/ \E u \in Callers : call[u].ref = r \/ call[u].old = r}

\* What the rest of the program does with the secrets store, such as the Sources with
\* the secrets in their configs: it generates references of its own, and removes or
\* replaces only secrets that no channel and no call on one names. Of what it stores
\* only whether it is there can be told here. Its saves may leave any map in the file: an
\* older one that is renamed over it takes out a channel's token that was there.
Elsewhere ==
    /\ issued \subseteq issued' /\ issued' \subseteq Refs
    /\ secrets' \in [Refs -> {Token, None}]
    /\ \A r \in Named : secrets'[r] = secrets[r]
    /\ file' \in [Refs -> {Token, None}]
    /\ UNCHANGED own

\* The channels and the rest of the program on the one store.
SharedSpec == Init /\ [][Next \/ Elsewhere]_vars

LEMMA ElsewhereKeeps == IInv /\ Elsewhere => IInv'
<1> SUFFICES ASSUME IInv, Elsewhere PROVE IInv'
  OBVIOUS
<1>0. /\ TypeOK /\ Shapes /\ issued \subseteq issued'
      /\ UNCHANGED <<channels, rules, call, created, hurt, loose>>
  BY DEF IInv, Elsewhere, own
<1>1. TypeOK'
  BY <1>0 DEF TypeOK, Elsewhere
<1>2. Shapes'
  BY <1>0 DEF Shapes, Shape
<1>3. Creating' /\ Meets' /\ Removed' /\ Steady' /\ Unused' /\ Validated' /\ NoDanglingChannel'
  BY <1>0 DEF IInv, Creating, Meets, Active, Removed, Steady, Unused, Validated,
              NoDanglingChannel
<1>4. Owned'
  <2>1. PICK o \in [Refs -> Chans \cup {None}] : OwnedBy(o)
    BY DEF IInv, Owned
  <2>2. OwnedBy(o)'
    BY <1>0, <2>1 DEF OwnedBy
  <2> QED
    BY <2>2 DEF Owned
<1>5. Private'
  <2> SUFFICES ASSUME NEW u \in Callers, HasFresh(u)
               PROVE  secrets'[call[u].ref] = Token
    BY <1>0 DEF IInv, Private, HasFresh, Active
  <2>1. call[u].ref \in Refs
    BY <1>0 DEF HasFresh, Active, Shapes, Shape, TypeOK
  <2> QED
    BY <2>1 DEF IInv, Private, Elsewhere, Named
<1>6. ChannelHasToken'
  <2> SUFFICES ASSUME NEW c \in Chans \ hurt, channels[c] # None, ~Rotating(c)
               PROVE  secrets'[channels[c]] = Token
    BY <1>0 DEF ChannelHasToken, Rotating
  <2>1. channels[c] \in Named
    BY <1>0 DEF TypeOK, Named
  <2> QED
    BY <2>1 DEF IInv, ChannelHasToken, Elsewhere
<1> QED
  BY <1>1, <1>2, <1>3, <1>4, <1>5, <1>6 DEF IInv

LEMMA NextKeeps == IInv /\ [Next \/ Elsewhere]_vars => IInv'
<1>1. ASSUME IInv, NEW u \in Callers, CallerStep(u) PROVE IInv'
  BY <1>1, BeginKeeps, RefusedKeeps, InsertKeeps, StoreKeeps, DropKeeps, WriteKeeps,
     CheckKeeps, RemoveKeeps, ForgetKeeps, SaveKeeps, DeleteRuleKeeps DEF CallerStep
<1>2. ASSUME IInv, UNCHANGED vars PROVE IInv'
  <2>1. UNCHANGED <<secrets, issued, file, channels, rules, call, created, hurt, loose>>
    BY <1>2 DEF vars, own
  <2>2. Owned'
    BY <1>2, <2>1 DEF IInv, Owned, OwnedBy
  <2> QED
    BY <1>2, <2>1, <2>2 DEF IInv, TypeOK, Shapes, Shape, Creating, Meets, Private, HasFresh,
                            Active, Removed, Steady, ChannelHasToken, Rotating, Unused,
                            Validated, NoDanglingChannel
<1> QED
  BY <1>1, <1>2, RestartKeeps, ElsewhereKeeps DEF Next

LEMMA Inductive == SharedSpec => []IInv
BY InitHolds, NextKeeps, PTL DEF SharedSpec

\* The channels on their own are a case of the channels among others.
LEMMA Alone == Spec => SharedSpec
<1>1. [Next]_vars => [Next \/ Elsewhere]_vars
  OBVIOUS
<1> QED
  BY <1>1, PTL DEF Spec, SharedSpec

\* Nothing names the reference.
Foreign(r) == /\ \A c \in Chans : channels[c] # r
              /\ \A u \in Callers : call[u].ref # r /\ call[u].old # r

\* The secret of a reference is left alone; a restart has the one of the file.
Leaves(r) ==
    /\ secrets'[r] = secrets[r] \/ (Restart /\ secrets'[r] = file[r])

\* What belongs to somebody else stays that way, with its secret.
LeavesAlone(r) == Foreign(r)' /\ Leaves(r)

LEMMA NamedIs == \A r \in Refs : r \notin Named <=> Foreign(r)
BY DEF Named, Foreign

\* A call that begins names its channel's reference, or a new one.
LEMMA EnterLeavesAlone ==
    ASSUME IInv, NEW r \in issued, Foreign(r), NEW u \in Callers, NEW c,
           c.ref # r, c.old # r, Enter(u, c), UNCHANGED channels, Leaves(r),
           \A m \in BOOLEAN : [c EXCEPT !.met = m].ref = c.ref /\ [c EXCEPT !.met = m].old = c.old
    PROVE  LeavesAlone(r)
<1>1. ASSUME NEW v \in Callers PROVE call'[v].ref # r /\ call'[v].old # r
  <2>1. \A m \in BOOLEAN : /\ [call[v] EXCEPT !.met = m].ref = call[v].ref
                           /\ [call[v] EXCEPT !.met = m].old = call[v].old
    BY Fields DEF IInv, Call
  <2>2. \/ \E m \in BOOLEAN : call'[v] = [c EXCEPT !.met = m] \/ call'[v] = [call[v] EXCEPT !.met = m]
        \/ call'[v] = call[v]
    BY DEF Enter
  <2> QED
    BY <2>1, <2>2 DEF Foreign
<1> QED
  BY <1>1 DEF LeavesAlone, Foreign

LEMMA NextLeavesAlone ==
    ASSUME IInv, Next, NEW r \in issued, Foreign(r)
    PROVE  LeavesAlone(r)
<1>0. /\ TypeOK /\ Shapes /\ call \in [Callers -> Call] /\ r \in Refs /\ r # None
      /\ issued \subseteq Refs /\ Idle.ref # r /\ Idle.old # r
  BY IdleIsCall DEF IInv, TypeOK
\* A call begins.
<1>1. ASSUME NEW u \in Callers, NEW c \in Call, Enter(u, c), c.ref # r, c.old = None,
             UNCHANGED channels, Leaves(r)
      PROVE  LeavesAlone(r)
  <2>1. \A m \in BOOLEAN : [c EXCEPT !.met = m].ref = c.ref /\ [c EXCEPT !.met = m].old = c.old
    BY DEF Call
  <2> QED
    BY <1>0, <1>1, <2>1, EnterLeavesAlone
\* A call goes on or ends with no references but its own.
<1>2. ASSUME NEW u \in Callers, NEW c, call' = [call EXCEPT ![u] = c], c.ref # r, c.old # r,
             \A d \in Chans : channels'[d] # r, Leaves(r)
      PROVE  LeavesAlone(r)
  <2>1. call'[u] = c /\ \A v \in Callers \ {u} : call'[v] = call[v]
    BY <1>0, <1>2
  <2> QED
    BY <1>2, <2>1 DEF LeavesAlone, Foreign
<1>3. ASSUME NEW u \in Callers, NEW d \in Chans, CreateChannel(u, d) PROVE LeavesAlone(r)
  <2> DEFINE f == Fresh
             c == [Idle EXCEPT !.pc = "write", !.chan = d, !.ref = f]
  <2>1. /\ issued # Refs /\ secrets' = [secrets EXCEPT ![f] = Token]
        /\ file' \in {secrets', file}
        /\ Enter(u, c) /\ UNCHANGED channels
    BY <1>3 DEF CreateChannel, Put, Save
  <2>2. f \in Refs \ issued
    BY <1>0, <2>1 DEF Fresh
  <2> HIDE DEF f
  <2>3. c \in Call /\ c.ref = f /\ c.old = None
    BY <2>2, IdleIsCall DEF Call
  <2>4. Leaves(r)
    BY <1>0, <2>1, <2>2 DEF TypeOK, Leaves
  <2> HIDE DEF c
  <2> QED
    BY <1>1, <2>1, <2>2, <2>3, <2>4
<1>4. ASSUME NEW u \in Callers, NEW d \in Chans,
             BeginDelete(u, d) \/ \E rotate \in BOOLEAN : BeginUpdate(u, d, rotate)
      PROVE  LeavesAlone(r)
  <2>0. channels[d] \in Refs \cup {None} /\ channels[d] # r
    BY <1>0 DEF TypeOK, Foreign
  <2>1. CASE BeginDelete(u, d)
    <3> DEFINE c == [Idle EXCEPT !.kind = "delete", !.chan = d, !.ref = channels[d],
                                 !.pc = "check"]
    <3>1. Enter(u, c) /\ UNCHANGED <<secrets, file, channels>>
      BY <2>1 DEF BeginDelete
    <3>2. c \in Call /\ c.ref = channels[d] /\ c.old = None
      BY <2>0, IdleIsCall DEF Call
    <3> HIDE DEF c
    <3> QED
      BY <1>1, <2>0, <3>1, <3>2 DEF Leaves
  <2>2. ASSUME NEW rotate \in BOOLEAN, BeginUpdate(u, d, rotate) PROVE LeavesAlone(r)
    <3> DEFINE c == [Idle EXCEPT !.kind = "update", !.chan = d, !.ref = channels[d],
                                 !.rotate = rotate,
                                 !.pc = IF rotate THEN "rotate" ELSE "write"]
    <3>1. Enter(u, c) /\ UNCHANGED <<secrets, file, channels>>
      BY <2>2 DEF BeginUpdate
    <3>2. c \in Call /\ c.ref = channels[d] /\ c.old = None
      BY <2>0, IdleIsCall DEF Call
    <3> HIDE DEF c
    <3> QED
      BY <1>1, <2>0, <3>1, <3>2 DEF Leaves
  <2> QED
    BY <1>4, <2>1, <2>2
<1>5. ASSUME NEW u \in Callers, NEW q \in Rules,
             \/ \E c \in Chans \cup {None} : CreateRule(u, q, c)
             \/ \E row \in Rule : BeginUpdateRule(u, q, row)
      PROVE  LeavesAlone(r)
  <2>1. ASSUME NEW d \in Chans \cup {None}, CreateRule(u, q, d) PROVE LeavesAlone(r)
    <3> DEFINE row == [channel |-> d, enabled |-> TRUE]
               c == [Idle EXCEPT !.kind = "rule", !.pc = "validate", !.chan = d,
                                 !.rule = q, !.row = row, !.new = TRUE]
    <3>1. row \in Rule
      BY DEF Rule
    <3>2. Enter(u, c) /\ UNCHANGED <<secrets, file, channels>>
      BY <2>1 DEF CreateRule
    <3> HIDE DEF row
    <3>3. c \in Call /\ c.ref = None /\ c.old = None
      BY <3>1, IdleIsCall DEF Call
    <3> HIDE DEF c
    <3> QED
      BY <1>0, <1>1, <3>2, <3>3 DEF Leaves
  <2>2. ASSUME NEW row \in Rule, BeginUpdateRule(u, q, row) PROVE LeavesAlone(r)
    <3> DEFINE c == [Idle EXCEPT !.kind = "rule", !.pc = "validate", !.chan = row.channel,
                                 !.rule = q, !.row = row]
    <3>1. row.channel \in Chans \cup {None}
      BY DEF Rule
    <3>2. Enter(u, c) /\ UNCHANGED <<secrets, file, channels>>
      BY <2>2 DEF BeginUpdateRule
    <3>3. c \in Call /\ c.ref = None /\ c.old = None
      BY <3>1, IdleIsCall DEF Call
    <3> HIDE DEF c
    <3> QED
      BY <1>0, <1>1, <3>2, <3>3 DEF Leaves
  <2> QED
    BY <1>5, <2>1, <2>2
<1>6. ASSUME NEW u \in Callers, Leave(u), \A d \in Chans : channels'[d] # r, Leaves(r)
      PROVE  LeavesAlone(r)
  BY <1>0, <1>2, <1>6 DEF Leave
<1>7. ASSUME NEW u \in Callers, InsertChannel(u) \/ WriteChannel(u) PROVE LeavesAlone(r)
  <2>1. \A d \in Chans : channels'[d] # r
    BY <1>0, <1>7 DEF InsertChannel, WriteChannel, Foreign, TypeOK
  <2> QED
    BY <1>6, <1>7, <2>1 DEF InsertChannel, WriteChannel, Leaves
<1>8. ASSUME NEW u \in Callers, StoreToken(u) PROVE LeavesAlone(r)
  <2> DEFINE f == Fresh
             c == [call[u] EXCEPT !.pc = "drop", !.old = call[u].ref, !.ref = f]
  <2>1. /\ issued # Refs /\ secrets' = [secrets EXCEPT ![f] = Token]
        /\ file' \in {secrets', file}
        /\ call' = [call EXCEPT ![u] = c] /\ UNCHANGED channels
    BY <1>0, <1>8 DEF StoreToken, Put, Save, Call
  <2>2. f \in Refs \ issued
    BY <1>0, <2>1 DEF Fresh
  <2> HIDE DEF f
  <2>3. c.ref = f /\ c.old = call[u].ref
    BY <1>0 DEF Call
  <2>4. Leaves(r)
    BY <1>0, <2>1, <2>2 DEF TypeOK, Leaves
  <2> HIDE DEF c
  <2> QED
    BY <1>2, <2>1, <2>2, <2>3, <2>4 DEF Foreign
<1>9. ASSUME NEW u \in Callers, NEW p \in {"write", "save", "remove", "forget"},
             call' = [call EXCEPT ![u].pc = p],
             \A d \in Chans : channels'[d] # r, Leaves(r)
      PROVE  LeavesAlone(r)
  <2> DEFINE c == [call[u] EXCEPT !.pc = p]
  <2>1. call' = [call EXCEPT ![u] = c]
    BY <1>0, <1>9
  <2>2. c.ref = call[u].ref /\ c.old = call[u].old
    BY <1>0 DEF Call
  <2> HIDE DEF c
  <2> QED
    BY <1>2, <1>9, <2>1, <2>2 DEF Foreign
<1>10. ASSUME NEW u \in Callers, DropToken(u) PROVE LeavesAlone(r)
  <2>1. Leaves(r)
    BY <1>0, <1>10 DEF DropToken, Save, Leaves, Foreign, TypeOK
  <2> QED
    BY <1>9, <1>10, <2>1 DEF DropToken, Foreign
<1>11. ASSUME NEW u \in Callers, ForgetToken(u) PROVE LeavesAlone(r)
  <2>1. Leaves(r)
    BY <1>0, <1>11 DEF ForgetToken, Save, Leaves, Foreign, TypeOK
  <2> QED
    BY <1>6, <1>11, <2>1 DEF ForgetToken, Foreign
<1>12. ASSUME NEW u \in Callers, CheckUnused(u) \/ ValidateRule(u) PROVE LeavesAlone(r)
  BY <1>9, <1>12 DEF CheckUnused, ValidateRule, Foreign, Leaves
<1>13. ASSUME NEW u \in Callers, RemoveChannel(u) PROVE LeavesAlone(r)
  <2>1. \A d \in Chans : channels'[d] # r
    BY <1>0, <1>13 DEF RemoveChannel, Foreign, TypeOK
  <2> QED
    BY <1>9, <1>13, <2>1 DEF RemoveChannel, Leaves
<1>14. ASSUME NEW u \in Callers,
              \/ ChannelFails(u) \/ DeleteRefused(u) \/ RuleRefused(u)
              \/ \E q \in Rules : SaveRule(u, q)
       PROVE  LeavesAlone(r)
  BY <1>6, <1>14 DEF ChannelFails, DeleteRefused, RuleRefused, SaveRule, Foreign, Leaves
<1>15. ASSUME NEW u \in Callers, NEW q \in Rules, DeleteRule(u, q) PROVE LeavesAlone(r)
  BY <1>15 DEF DeleteRule, LeavesAlone, Leaves, Foreign
<1>16. CASE Restart
  BY <1>0, <1>16 DEF Restart, LeavesAlone, Leaves, Foreign
<1> QED
  BY <1>3, <1>4, <1>5, <1>7, <1>8, <1>10, <1>11, <1>12, <1>13, <1>14, <1>15, <1>16
  DEF Next, CallerStep

-----------------------------------------------------------------------------
(* Theorems                                                                 *)

\* Every reachable state is well typed.
THEOREM TypeCorrect == Spec => []TypeOK
<1>1. IInv => TypeOK
  BY DEF IInv
<1> QED
  BY Inductive, Alone, <1>1, PTL

\* The row of a channel names a token the store has, for any number of calls, channels
\* and references and through restarts that lose what the file lacks, but for the
\* rotations and the lost tokens ChannelHasToken excepts (UpdateChannel, persist).
THEOREM TokensStay == Spec => []ChannelHasToken
<1>1. IInv => ChannelHasToken
  BY DEF IInv
<1> QED
  BY Inductive, Alone, <1>1, PTL

\* An enabled rule whose last write met no deletion names a channel that exists
\* (DeleteChannel, validateRule).
THEOREM NoneDangles == Spec => []NoDanglingChannel
<1>1. IInv => NoDanglingChannel
  BY DEF IInv
<1> QED
  BY Inductive, Alone, <1>1, PTL

\* The same with other owners of secrets in the one store, as long as they remove only
\* secrets that no channel names. Their saves may put any map into the file: only
\* once a restart finds the file without its token is the channel excepted.
THEOREM SharedStoreIsSafe == SharedSpec => []ChannelHasToken
<1>1. IInv => ChannelHasToken
  BY DEF IInv
<1> QED
  BY Inductive, <1>1, PTL

\* And the channels keep to the same rule: a reference generated for another owner is
\* never named by a channel or a call, and its secret is touched by none of their calls;
\* a restart has what the file had of it, which their saves may have left behind.
THEOREM OthersStay ==
    SharedSpec => [][Next => \A r \in issued \ Named :
                                /\ r \notin Named'
                                /\ secrets'[r] = secrets[r] \/ (Restart /\ secrets'[r] = file[r])]_vars
<1> DEFINE A == Next => \A r \in issued \ Named :
                           /\ r \notin Named'
                           /\ secrets'[r] = secrets[r] \/ (Restart /\ secrets'[r] = file[r])
<1>1. IInv => A
  <2> SUFFICES ASSUME IInv, Next, NEW r \in issued \ Named
               PROVE  r \notin Named' /\ Leaves(r)
    BY DEF Leaves
  <2>1. r \in Refs /\ Foreign(r)
    BY NamedIs DEF IInv, TypeOK
  <2>2. LeavesAlone(r)
    BY <2>1, NextLeavesAlone
  <2> QED
    BY <2>1, <2>2 DEF LeavesAlone, Named, Foreign
<1> QED
  BY Inductive, <1>1, PTL
=============================================================================
