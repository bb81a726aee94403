------------------------- MODULE ConfigSecrets_proofs -------------------------
(***************************************************************************)
(* Safety theorems about ConfigSecrets, for any users, Sources, fields,    *)
(* references and texts.                                                   *)
(***************************************************************************)
EXTENDS ConfigSecrets, TLAPS

USE ConfigSecretsAssumption

Active(u) == call[u].pc # "idle"

\* What an edit carries: references the store has generated.
Shape(c) ==
    /\ c.pc = "idle" => ~c.dropped /\ c.form = Blank /\ c.row = Blank
    /\ c.pc # "idle" => c.source \in created
    /\ c.dropped \/ c.new => c.pc \in {"resolve", "write"}
    /\ c.pc = "form" => ~c.full
    /\ c.pc = "read" => c.todo = Fields
    /\ \A f \in Fields :
          /\ c.form[f] \in Refs => c.form[f] \in issued
          /\ c.row[f] \in Refs => c.row[f] \in issued
          /\ c.full /\ f \in c.todo => c.form[f] \in Texts

Shapes ==
    /\ \A u \in Callers : Shape(call[u])
    /\ \A s \in Sources : sources[s] # None =>
          s \in created /\ \A f \in Fields : sources[s][f] \in Refs => sources[s][f] \in issued

\* An edit knows of another of its Source that is being served.
Meets ==
    \A u, v \in Callers :
        u # v /\ Serving(u) /\ Active(v) /\ call[u].source = call[v].source => call[v].met

\* Every reference belongs to one field of one Source: o says of which Source, p of
\* which field.
OwnedBy(o, p) ==
    /\ \A s \in Sources, f \in Fields : sources[s] # None /\ sources[s][f] \in Refs
          => o[sources[s][f]] = s /\ p[sources[s][f]] = f
    /\ \A u \in Callers, f \in Fields :
          /\ call[u].form[f] \in Refs
                => o[call[u].form[f]] = call[u].source /\ p[call[u].form[f]] = f
          /\ call[u].row[f] \in Refs
                => o[call[u].row[f]] = call[u].source /\ p[call[u].row[f]] = f
Owned == \E o \in [Refs -> Sources \cup {None}], p \in [Refs -> Fields \cup {None}] :
             OwnedBy(o, p)

\* A reference an edit that met no other sends back is the one the row holds.
KeptBy(c) ==
    \A f \in Fields : ~c.met /\ c.form[f] \in Refs =>
        /\ c.pc \in {"form", "read"} /\ sources[c.source] # None
              => c.form[f] = sources[c.source][f]
        /\ c.pc = "resolve" /\ f \in c.todo => c.form[f] = c.row[f]
Kept == \A u \in Callers : KeptBy(call[u])

\* What a field of a form stands for; a row written from it will be sound if the
\* Source is, or if all of the row is new, and every field has been stored.
Means(x) == IF x \in Refs THEN secrets[x] ELSE x
Sound(c) == /\ ~c.met
            /\ c.full \/ c.new \/ (sources[c.source] # None /\ c.source \notin hurt)

\* The row of a sound Source holds references only.
Wrapped ==
    \A s \in Sources \ hurt :
        sources[s] # None => \A f \in Fields : sources[s][f] \notin Texts

\* From the reading of the row on, a field stands for what it will have been told.
ToldBy(c) ==
    c.pc \in {"resolve", "write"} /\ Sound(c)
        => \A f \in Fields : Means(c.form[f]) = c.told[f]
Told == \A u \in Callers : ToldBy(call[u])

IInv ==
    /\ TypeOK /\ Shapes /\ Meets /\ Owned /\ Kept /\ Told /\ Wrapped
    /\ AdapterGetsWhatWasTyped

-----------------------------------------------------------------------------
LEMMA BlankIs == Blank \in Config /\ Blank \in Typed /\ \A f \in Fields : Blank[f] = None
BY DEF Blank, Config, Typed

LEMMA IdleIs ==
    /\ Idle \in Call /\ Idle.pc = "idle" /\ Idle.form = Blank /\ Idle.row = Blank
    /\ ~Idle.dropped /\ ~Idle.full /\ ~Idle.new /\ Idle.todo = {} /\ ~Idle.met
BY BlankIs DEF Idle, Call

LEMMA CallFields ==
    ASSUME NEW c \in Call
    PROVE  /\ c.pc \in {"idle", "form", "read", "resolve", "write"}
           /\ c.new \in BOOLEAN /\ c.source \in Sources \cup {None}
           /\ c.form \in Config /\ c.row \in Config /\ c.told \in Typed
           /\ c.todo \in SUBSET Fields
           /\ c.full \in BOOLEAN /\ c.dropped \in BOOLEAN /\ c.met \in BOOLEAN
           /\ \A f \in Fields : /\ c.form[f] \in Texts \cup Refs \cup {None}
                                /\ c.row[f] \in Texts \cup Refs \cup {None}
                                /\ c.told[f] \in Texts \cup {None}
<1>1. c.form \in Config /\ c.row \in Config /\ c.told \in Typed
  BY DEF Call
<1>2. \A f \in Fields : /\ c.form[f] \in Texts \cup Refs \cup {None}
                        /\ c.row[f] \in Texts \cup Refs \cup {None}
                        /\ c.told[f] \in Texts \cup {None}
  BY <1>1 DEF Config, Typed
<1> QED
  BY <1>1, <1>2 DEF Call

\* A row is never None itself.
LEMMA RowFields ==
    ASSUME TypeOK, NEW s \in Sources
    PROVE  /\ sources[s] # None =>
                 /\ sources[s] \in Config
                 /\ \A f \in Fields : sources[s][f] \in Texts \cup Refs \cup {None}
           /\ typed[s] \in Typed
           /\ \A f \in Fields : typed[s][f] \in Texts \cup {None}
BY DEF TypeOK, Config, Typed

LEMMA InitHolds == Init => IInv
<1> SUFFICES ASSUME Init PROVE IInv
  OBVIOUS
<1>1. /\ \A u \in Callers : call[u] = Idle
      /\ \A s \in Sources : sources[s] = None
  BY DEF Init, InitOwn
<1>2. TypeOK
  <2>1. call \in [Callers -> Call]
    BY IdleIs DEF Init, InitOwn
  <2>2. typed \in [Sources -> Typed]
    BY BlankIs DEF Init, InitOwn
  <2> QED
    BY <2>1, <2>2 DEF Init, InitOwn, TypeOK
<1>3. Shapes /\ Meets /\ Kept /\ Told /\ Wrapped
  <2>1. \A u \in Callers : Shape(call[u])
    BY <1>1, IdleIs, BlankIs DEF Shape
  <2>2. Kept /\ Told /\ Meets /\ Wrapped
    BY <1>1, IdleIs DEF Kept, KeptBy, Told, ToldBy, Meets, Active, Wrapped
  <2> QED
    BY <1>1, <2>1, <2>2 DEF Shapes
<1>4. Owned
  <2>1. /\ [r \in Refs |-> None] \in [Refs -> Sources \cup {None}]
        /\ [r \in Refs |-> None] \in [Refs -> Fields \cup {None}]
    OBVIOUS
  <2>2. \A o, p : OwnedBy(o, p)
    BY <1>1, IdleIs, BlankIs DEF OwnedBy
  <2> QED
    BY <2>1, <2>2 DEF Owned
<1>5. AdapterGetsWhatWasTyped
  BY <1>1 DEF AdapterGetsWhatWasTyped
<1> QED
  BY <1>2, <1>3, <1>4, <1>5 DEF IInv

-----------------------------------------------------------------------------
(* Edits that begin                                                         *)

\* The same edit, which may have met another in the meantime.
Agrees(a, b) ==
    /\ a.pc = b.pc /\ a.new = b.new /\ a.source = b.source /\ a.form = b.form
    /\ a.row = b.row /\ a.told = b.told /\ a.todo = b.todo /\ a.full = b.full
    /\ a.dropped = b.dropped
    /\ b.met => a.met

LEMMA MetAgrees ==
    ASSUME NEW c \in Call, NEW m \in BOOLEAN, c.met => m
    PROVE  [c EXCEPT !.met = m] \in Call /\ Agrees([c EXCEPT !.met = m], c)
           /\ [c EXCEPT !.met = m].met = m
BY DEF Call, Agrees

LEMMA EnterStep ==
    ASSUME TypeOK, Meets, NEW u \in Callers, NEW c \in Call, c.pc # "idle", Enter(u, c)
    PROVE  /\ call' \in [Callers -> Call]
           /\ Agrees(call'[u], c)
           /\ \A v \in Callers \ {u} : Agrees(call'[v], call[v])
           /\ \/ call'[u].met
              \/ \A v \in Callers \ {u} : Serving(v) => call[v].source # c.source
           /\ Meets'
<1> DEFINE same(v) == v # u /\ call[v].pc # "idle" /\ call[v].source = c.source
           m == c.met \/ \E w \in Callers : same(w) /\ Serving(w)
           q(v) == IF c.pc # "form" /\ same(v) THEN [call[v] EXCEPT !.met = TRUE] ELSE call[v]
<1>1. call' = [v \in Callers |-> IF v = u THEN [c EXCEPT !.met = m] ELSE q(v)]
  BY DEF Enter
<1>2. [c EXCEPT !.met = m] \in Call /\ Agrees([c EXCEPT !.met = m], c)
      /\ [c EXCEPT !.met = m].met = m
  <2>1. m \in BOOLEAN /\ (c.met => m)
    BY DEF Call
  <2> HIDE DEF m
  <2> QED
    BY <2>1, MetAgrees
<1>3. \A v \in Callers : /\ q(v) \in Call /\ Agrees(q(v), call[v])
                         /\ c.pc # "form" /\ same(v) => q(v).met = TRUE
  <2> SUFFICES ASSUME NEW v \in Callers
               PROVE  /\ q(v) \in Call /\ Agrees(q(v), call[v])
                      /\ c.pc # "form" /\ same(v) => q(v).met = TRUE
    OBVIOUS
  <2>1. call[v] \in Call
    BY DEF TypeOK
  <2>2. CASE c.pc # "form" /\ same(v)
    BY <2>1, <2>2, MetAgrees
  <2>3. CASE ~(c.pc # "form" /\ same(v))
    BY <2>1, <2>3 DEF Agrees
  <2> QED
    BY <2>2, <2>3
<1> HIDE DEF q
<1>4. call'[u] = [c EXCEPT !.met = m] /\ \A v \in Callers \ {u} : call'[v] = q(v)
  BY <1>1
<1>5. call' \in [Callers -> Call]
  BY <1>1, <1>2, <1>3
<1>6. Agrees(call'[u], c) /\ \A v \in Callers \ {u} : Agrees(call'[v], call[v])
  BY <1>2, <1>3, <1>4
<1>7. Meets'
  <2>1. ASSUME NEW v \in Callers \ {u}, Serving(v)', call'[v].source = call'[u].source
        PROVE  call'[u].met
    <3>1. same(v) /\ Serving(v)
      BY <1>6, <2>1 DEF Agrees, Serving
    <3> QED
      BY <1>2, <1>4, <3>1
  <2>2. ASSUME NEW v \in Callers \ {u}, Serving(u)', call'[v].pc # "idle",
               call'[v].source = call'[u].source
        PROVE  call'[v].met
    <3>1. c.pc # "form" /\ same(v)
      BY <1>6, <2>2 DEF Agrees, Serving
    <3> QED
      BY <1>3, <1>4, <3>1
  <2>3. ASSUME NEW v \in Callers \ {u}, NEW w \in Callers \ {u}, v # w,
               Serving(v)', call'[w].pc # "idle", call'[v].source = call'[w].source
        PROVE  call'[w].met
    BY <1>6, <2>3 DEF Agrees, Meets, Active, Serving
  <2> QED
    BY <2>1, <2>2, <2>3 DEF Meets, Active
<1>8. \/ call'[u].met
      \/ \A v \in Callers \ {u} : Serving(v) => call[v].source # c.source
  BY <1>2, <1>4 DEF Serving
<1> QED
  BY <1>5, <1>6, <1>7, <1>8

\* What an edit starts with.
Entry(c) ==
    /\ c.source \in Sources /\ ~c.met /\ ~c.dropped /\ ~c.full /\ c.row = Blank
    /\ \/ /\ c.pc = "resolve" /\ c.todo = Fields /\ c.form \in Typed /\ c.told = c.form
          /\ c.source \notin created
       \/ /\ c.pc \in {"form", "write"} /\ ~c.new
          /\ sources[c.source] # None
          /\ c.form = sources[c.source]
          /\ c.pc = "write" => c.told = typed[c.source]

LEMMA EnterKeeps ==
    ASSUME IInv, NEW u \in Callers, ~Active(u), NEW c \in Call, Entry(c), Enter(u, c),
           created \subseteq created', created' \subseteq Sources, c.source \in created',
           UNCHANGED <<secrets, issued, file, sources, typed, hurt>>
    PROVE  IInv'
<1>0. TypeOK /\ Shapes /\ Meets /\ c.pc \in {"form", "resolve", "write"} /\ ~c.met
  BY DEF IInv, Entry
<1>1. /\ call' \in [Callers -> Call]
      /\ Agrees(call'[u], c)
      /\ \A v \in Callers \ {u} : Agrees(call'[v], call[v])
      /\ \/ call'[u].met
         \/ \A v \in Callers \ {u} : Serving(v) => call[v].source # c.source
      /\ Meets'
  BY <1>0, EnterStep
<1>2. TypeOK'
  BY <1>0, <1>1 DEF TypeOK
<1>3. \A f \in Fields : /\ c.form[f] \in Refs => /\ c.pc # "resolve"
                                                 /\ sources[c.source] # None
                                                 /\ c.form[f] = sources[c.source][f]
                        /\ c.row[f] = None
  <2>1. c.form \in Typed => \A f \in Fields : c.form[f] \notin Refs
    BY DEF Typed
  <2> QED
    BY <2>1, BlankIs DEF Entry
<1>4. Shapes'
  <2>1. ASSUME NEW v \in Callers \ {u} PROVE Shape(call[v])'
    <3>1. Shape(call[v])
      BY <1>0 DEF Shapes
    <3> QED
      BY <1>1, <3>1 DEF Shape, Agrees
  <2>2. Shape(call[u])'
    <3>1. \A f \in Fields : c.form[f] \in Refs => c.form[f] \in issued
      BY <1>0, <1>3 DEF Shapes, Entry
    <3> QED
      BY <1>0, <1>1, <1>3, <3>1 DEF Shape, Agrees, Entry
  <2> QED
    BY <1>0, <2>1, <2>2 DEF Shapes
<1>5. Owned'
  <2>1. PICK o \in [Refs -> Sources \cup {None}], p \in [Refs -> Fields \cup {None}] :
             OwnedBy(o, p)
    BY DEF IInv, Owned
  <2>2. ASSUME NEW f \in Fields, call'[u].form[f] \in Refs
        PROVE  o[call'[u].form[f]] = call'[u].source /\ p[call'[u].form[f]] = f
    <3>1. call'[u].form[f] = c.form[f] /\ call'[u].source = c.source
      BY <1>1 DEF Agrees
    <3>2. c.source \in Sources /\ sources[c.source] # None
          /\ c.form[f] = sources[c.source][f] /\ sources[c.source][f] \in Refs
      BY <1>3, <2>2, <3>1 DEF Entry
    <3> QED
      BY <2>1, <3>1, <3>2 DEF OwnedBy
  <2>3. OwnedBy(o, p)'
    BY <1>1, <1>3, <2>1, <2>2 DEF OwnedBy, Agrees
  <2> QED
    BY <2>3 DEF Owned
<1>6. Kept'
  <2>1. ASSUME NEW v \in Callers \ {u} PROVE KeptBy(call[v])'
    <3>1. KeptBy(call[v])
      BY DEF IInv, Kept
    <3> QED
      BY <1>1, <3>1 DEF KeptBy, Agrees
  <2>2. KeptBy(call[u])'
    BY <1>1, <1>3 DEF KeptBy, Agrees
  <2> QED
    BY <2>1, <2>2 DEF Kept
<1>7. Told'
  <2>1. ASSUME NEW v \in Callers \ {u} PROVE ToldBy(call[v])'
    <3>1. ToldBy(call[v])
      BY DEF IInv, Told
    <3> QED
      BY <1>1, <3>1 DEF ToldBy, Agrees, Sound, Means
  <2>2. ToldBy(call[u])'
    <3>1. CASE c.pc = "write" /\ c.source \notin hurt
               /\ \A v \in Callers \ {u} : Serving(v) => call[v].source # c.source
      <4>1. ~Replacing(c.source)
        BY <1>0, <3>1 DEF Replacing, Active, Serving, Shapes, Shape
      <4>2. /\ c.source \in Sources /\ sources[c.source] # None
            /\ c.form = sources[c.source] /\ c.told = typed[c.source]
        BY <3>1 DEF Entry
      <4>3. ResolveConfig(c.source) = typed[c.source]
        BY <3>1, <4>1, <4>2 DEF IInv, AdapterGetsWhatWasTyped
      <4>4. ASSUME NEW f \in Fields PROVE Means(c.form[f]) = c.told[f]
        <5>1. sources[c.source][f] \in Refs \cup {None}
          BY <1>0, <3>1, <4>2, RowFields DEF IInv, Wrapped
        <5>2. ResolveConfig(c.source)[f] = typed[c.source][f]
          BY <4>3
        <5> QED
          BY <4>2, <5>1, <5>2 DEF ResolveConfig, Means
      <4> QED
        BY <1>1, <4>4 DEF ToldBy, Agrees, Means
    <3>2. CASE c.pc = "resolve"
      <4>1. c.told = c.form /\ \A f \in Fields : c.form[f] \notin Refs
        BY <1>3, <3>2 DEF Entry
      <4> QED
        BY <1>1, <4>1 DEF ToldBy, Agrees, Means
    <3>3. CASE c.pc # "resolve" /\ (c.pc = "form" \/ c.source \in hurt \/ call'[u].met)
      BY <1>1, <3>3 DEF ToldBy, Agrees, Sound, Entry
    <3> QED
      BY <1>0, <1>1, <3>1, <3>2, <3>3
  <2> QED
    BY <2>1, <2>2 DEF Told
<1>8. AdapterGetsWhatWasTyped' /\ Wrapped'
  <2>1. \A s \in Sources : Replacing(s) => Replacing(s)'
    BY <1>0, <1>1 DEF Replacing, Agrees, Shapes, Shape, Active
  <2>2. \A s \in Sources : ResolveConfig(s)' = ResolveConfig(s)
    BY DEF ResolveConfig
  <2> QED
    BY <2>1, <2>2 DEF IInv, AdapterGetsWhatWasTyped, Wrapped
<1> QED
  BY <1>1, <1>2, <1>4, <1>5, <1>6, <1>7, <1>8 DEF IInv

-----------------------------------------------------------------------------
(* Edits that go on                                                         *)

\* An edit goes on, or ends.
LEMMA CallStep ==
    ASSUME TypeOK, Meets, NEW u \in Callers, NEW r \in Call, call' = [call EXCEPT ![u] = r],
           \/ r.pc = "idle"
           \/ Serving(u) /\ r.source = call[u].source /\ r.met = call[u].met
    PROVE  /\ call' \in [Callers -> Call] /\ call'[u] = r
           /\ \A v \in Callers \ {u} : call'[v] = call[v]
           /\ Meets'
<1>1. /\ call' \in [Callers -> Call] /\ call'[u] = r
      /\ \A v \in Callers \ {u} : call'[v] = call[v]
  BY DEF TypeOK
<1> QED
  BY <1>1 DEF Meets, Active, Serving

\* The references an edit may hold next: its own, and those of the row.
Within(r, c) ==
    \A f \in Fields :
        /\ r.form[f] \in Refs => r.form[f] = c.form[f]
        /\ r.row[f] \in Refs => \/ r.row[f] = c.row[f]
                                \/ sources[c.source] # None /\ r.row[f] = sources[c.source][f]

\* An edit goes on in memory.
LEMMA GoesOn ==
    ASSUME IInv, NEW u \in Callers, NEW r \in Call,
           call' \in [Callers -> Call], Agrees(call'[u], r),
           \A v \in Callers \ {u} : Agrees(call'[v], call[v]), Meets',
           Active(u), r.pc # "idle", r.source = call[u].source,
           r.dropped = call[u].dropped, Within(r, call[u]),
           Shape(r), KeptBy(r), ToldBy(r),
           UNCHANGED <<secrets, issued, file, sources, created, typed, hurt>>
    PROVE  IInv'
<1>0. TypeOK /\ Shapes /\ Meets
  BY DEF IInv
<1>1. /\ call' \in [Callers -> Call] /\ Agrees(call'[u], r)
      /\ \A v \in Callers \ {u} : Agrees(call'[v], call[v])
      /\ Meets'
  OBVIOUS
<1>2. TypeOK'
  BY <1>0, <1>1 DEF TypeOK
<1>3. Shapes'
  BY <1>0, <1>1 DEF Shapes, Shape, Agrees
<1>4. Owned'
  <2>1. PICK o \in [Refs -> Sources \cup {None}], p \in [Refs -> Fields \cup {None}] :
             OwnedBy(o, p)
    BY DEF IInv, Owned
  <2>2. call[u].source \in Sources
    BY <1>0 DEF Shapes, Shape, Active, TypeOK
  <2>3. ASSUME NEW f \in Fields
        PROVE  /\ r.form[f] \in Refs => o[r.form[f]] = r.source /\ p[r.form[f]] = f
               /\ r.row[f] \in Refs => o[r.row[f]] = r.source /\ p[r.row[f]] = f
    BY <2>1, <2>2 DEF OwnedBy, Within
  <2>4. OwnedBy(o, p)'
    BY <1>1, <2>1, <2>3 DEF OwnedBy, Agrees
  <2> QED
    BY <2>4 DEF Owned
<1>5. Kept'
  <2>1. ASSUME NEW v \in Callers \ {u} PROVE KeptBy(call[v])'
    <3>1. KeptBy(call[v])
      BY DEF IInv, Kept
    <3> QED
      BY <1>1, <3>1 DEF KeptBy, Agrees
  <2>2. KeptBy(call[u])'
    BY <1>1 DEF KeptBy, Agrees
  <2> QED
    BY <2>1, <2>2 DEF Kept
<1>6. Told'
  <2>1. ASSUME NEW v \in Callers \ {u} PROVE ToldBy(call[v])'
    <3>1. ToldBy(call[v])
      BY DEF IInv, Told
    <3> QED
      BY <1>1, <3>1 DEF ToldBy, Sound, Means, Agrees
  <2>2. ToldBy(call[u])'
    BY <1>1 DEF ToldBy, Sound, Means, Agrees
  <2> QED
    BY <2>1, <2>2 DEF Told
<1>7. AdapterGetsWhatWasTyped' /\ Wrapped'
  <2>1. \A s \in Sources : Replacing(s)' <=> Replacing(s)
    BY <1>1 DEF Replacing, Agrees
  <2>2. \A s \in Sources : ResolveConfig(s)' = ResolveConfig(s)
    BY DEF ResolveConfig
  <2> QED
    BY <2>1, <2>2 DEF IInv, AdapterGetsWhatWasTyped, Wrapped
<1> QED
  BY <1>1, <1>2, <1>3, <1>4, <1>5, <1>6, <1>7 DEF IInv

\* The same where nobody else learns of it.
LEMMA StepsOn ==
    ASSUME IInv, NEW u \in Callers, NEW r \in Call, call' = [call EXCEPT ![u] = r],
           Serving(u), r.pc # "idle", r.source = call[u].source, r.met = call[u].met,
           r.dropped = call[u].dropped, Within(r, call[u]),
           Shape(r), KeptBy(r), ToldBy(r),
           UNCHANGED <<secrets, issued, file, sources, created, typed, hurt>>
    PROVE  IInv'
<1>1. /\ call' \in [Callers -> Call] /\ call'[u] = r
      /\ \A v \in Callers \ {u} : call'[v] = call[v]
      /\ Meets'
  BY CallStep DEF IInv
<1>2. Agrees(call'[u], r) /\ \A v \in Callers \ {u} : Agrees(call'[v], call[v])
  BY <1>1 DEF Agrees
<1>3. Active(u)
  BY DEF Active, Serving
<1> QED
  BY <1>1, <1>2, <1>3, GoesOn

\* The form is sent.
LEMMA SubmitKeeps ==
    ASSUME IInv, NEW u \in Callers, NEW config \in Config, Submit(u, config)
    PROVE  IInv'
<1> DEFINE c == call[u]
           full == \A f \in Fields : config[f] \in Texts
           r == [c EXCEPT !.pc = "read", !.form = config, !.todo = Fields, !.full = full]
<1>0. /\ TypeOK /\ Meets /\ c \in Call /\ c.pc = "form" /\ Shape(c) /\ KeptBy(c)
      /\ \A f \in Fields : config[f] \in Texts \cup {None, c.form[f]}
  BY DEF Submit, IInv, TypeOK, Shapes, Kept
<1>1. Enter(u, r)
  BY DEF Submit
<1>2. full \in BOOLEAN /\ (full <=> \A f \in Fields : config[f] \in Texts)
  OBVIOUS
<1> HIDE DEF full
<1>3. r \in Call
  BY <1>0, <1>2 DEF Call
<1>4. /\ r.pc = "read" /\ r.form = config /\ r.todo = Fields /\ r.full = full
      /\ r.source = c.source /\ r.row = c.row /\ r.dropped = c.dropped /\ r.met = c.met
      /\ r.new = c.new
  BY <1>0 DEF Call
<1> HIDE DEF r
<1>5. Shape(r)
  BY <1>0, <1>2, <1>4 DEF Shape, Config
<1>6. KeptBy(r) /\ ToldBy(r)
  BY <1>0, <1>4 DEF KeptBy, ToldBy
<1>7. Within(r, c)
  BY <1>0, <1>4 DEF Within
<1>8. /\ call' \in [Callers -> Call] /\ Agrees(call'[u], r)
      /\ \A v \in Callers \ {u} : Agrees(call'[v], call[v])
      /\ Meets'
  BY <1>0, <1>1, <1>3, <1>4, EnterStep
<1> QED
  BY <1>0, <1>3, <1>4, <1>5, <1>6, <1>7, <1>8, GoesOn DEF Submit, Active

\* The row is read: an edit that has met no other finds in it the references it sends.
LEMMA GetKeeps ==
    ASSUME IInv, NEW u \in Callers, Get(u)
    PROVE  IInv'
<1> DEFINE c == call[u]
           s == c.source
           told == [f \in Fields |-> IF c.form[f] \in Refs THEN typed[s][f] ELSE c.form[f]]
           r == [c EXCEPT !.pc = "resolve", !.row = sources[s], !.told = told]
<1>0. /\ TypeOK /\ Shapes /\ Meets /\ c \in Call /\ c.pc = "read" /\ Shape(c) /\ KeptBy(c)
      /\ s \in Sources /\ sources[s] # None
  BY DEF Get, IInv, TypeOK, Shapes, Shape, Kept
<1>1. call' = [call EXCEPT ![u] = r]
  BY DEF Get
<1>2. told \in Typed
  <2>1. \A f \in Fields : (IF c.form[f] \in Refs THEN typed[s][f] ELSE c.form[f])
                              \in Texts \cup {None}
    BY <1>0, CallFields, RowFields
  <2> QED
    BY <2>1 DEF Typed
<1>3. \A f \in Fields : told[f] = IF c.form[f] \in Refs THEN typed[s][f] ELSE c.form[f]
  OBVIOUS
<1>4. sources[s] \in Config
  BY <1>0, RowFields
<1> HIDE DEF told
<1>5. r \in Call
  BY <1>0, <1>2, <1>4 DEF Call
<1>6. /\ r.pc = "resolve" /\ r.form = c.form /\ r.todo = c.todo /\ r.full = c.full
      /\ r.source = s /\ r.row = sources[s] /\ r.dropped = c.dropped /\ r.met = c.met
      /\ r.told = told /\ r.new = c.new
  BY <1>0 DEF Call
<1> HIDE DEF r
<1>7. Shape(r)
  BY <1>0, <1>4, <1>6 DEF Shape, Shapes
<1>8. KeptBy(r)
  BY <1>0, <1>6 DEF KeptBy
<1>9. ToldBy(r)
  <2> SUFFICES ASSUME Sound(c), NEW f \in Fields PROVE Means(c.form[f]) = told[f]
    BY <1>6 DEF ToldBy, Sound
  <2>1. CASE c.form[f] \in Refs
    <3>1. c.form[f] = sources[s][f] /\ s \notin hurt
      <4>1. ~c.full /\ ~c.new
        BY <1>0, <2>1 DEF Shape
      <4> QED
        BY <1>0, <2>1, <4>1 DEF KeptBy, Sound
    <3>2. ~Replacing(s)
      BY <1>0 DEF Replacing, Meets, Active, Serving, Shapes, Shape, Sound
    <3>3. ResolveConfig(s)[f] = typed[s][f]
      BY <1>0, <3>1, <3>2 DEF IInv, AdapterGetsWhatWasTyped
    <3> QED
      BY <1>3, <1>4, <2>1, <3>1, <3>3 DEF ResolveConfig, Means
  <2>2. CASE c.form[f] \notin Refs
    BY <1>3, <2>2 DEF Means
  <2> QED
    BY <2>1, <2>2
<1>10. Within(r, c)
  BY <1>0, <1>6 DEF Within
<1> QED
  BY <1>0, <1>1, <1>5, <1>6, <1>7, <1>8, <1>9, <1>10, StepsOn DEF Get, Serving

\* A field stays as it is, or all of them are resolved.
LEMMA KeepFieldKeeps ==
    ASSUME IInv, NEW u \in Callers, NEW f \in Fields, KeepField(u, f)
    PROVE  IInv'
<1> DEFINE c == call[u]
           r == [c EXCEPT !.todo = c.todo \ {f}]
<1>0. /\ TypeOK /\ c \in Call /\ c.pc = "resolve" /\ Shape(c) /\ KeptBy(c) /\ ToldBy(c)
      /\ f \in c.todo /\ c.form[f] \in {None, c.row[f]}
  BY DEF KeepField, IInv, TypeOK, Shapes, Kept, Told
<1>1. call' = [call EXCEPT ![u] = r]
  BY DEF KeepField
<1>2. r \in Call
  BY <1>0 DEF Call
<1>3. /\ r.pc = "resolve" /\ r.form = c.form /\ r.todo = c.todo \ {f} /\ r.full = c.full
      /\ r.source = c.source /\ r.row = c.row /\ r.dropped = c.dropped /\ r.met = c.met
      /\ r.told = c.told /\ r.new = c.new
  BY <1>0 DEF Call
<1> HIDE DEF r
<1>4. Shape(r) /\ KeptBy(r) /\ ToldBy(r) /\ Within(r, c)
  BY <1>0, <1>3 DEF Shape, KeptBy, ToldBy, Sound, Within
<1> QED
  BY <1>0, <1>1, <1>2, <1>3, <1>4, StepsOn DEF KeepField, Serving

LEMMA WrittenIs ==
    ASSUME NEW c \in Call, c.todo = {}
    PROVE  [c EXCEPT !.pc = "write", !.row = Blank]
              = [c EXCEPT !.pc = "write", !.todo = {}, !.row = Blank]
BY DEF Call

LEMMA ResolvedKeeps ==
    ASSUME IInv, NEW u \in Callers, Resolved(u) \/ SchemaFails(u)
    PROVE  IInv'
<1> DEFINE c == call[u]
           r == [c EXCEPT !.pc = "write", !.todo = {}, !.row = Blank]
<1>0. /\ TypeOK /\ c \in Call /\ c.pc = "resolve" /\ Shape(c) /\ ToldBy(c)
  BY DEF Resolved, SchemaFails, IInv, TypeOK, Shapes, Told
<1>1. call' = [call EXCEPT ![u] = r]
  <2>1. CASE Resolved(u)
    BY <1>0, <2>1, WrittenIs DEF Resolved
  <2>2. CASE SchemaFails(u)
    BY <2>2 DEF SchemaFails
  <2> QED
    BY <2>1, <2>2
<1>2. r \in Call
  BY <1>0, BlankIs DEF Call
<1>3. /\ r.pc = "write" /\ r.form = c.form /\ r.todo = {} /\ r.full = c.full
      /\ r.source = c.source /\ r.row = Blank /\ r.dropped = c.dropped /\ r.met = c.met
      /\ r.told = c.told /\ r.new = c.new
  BY <1>0 DEF Call
<1> HIDE DEF r
<1>4. Shape(r) /\ KeptBy(r) /\ ToldBy(r) /\ Within(r, c)
  BY <1>0, <1>3, BlankIs DEF Shape, KeptBy, ToldBy, Sound, Within
<1> QED
  BY <1>0, <1>1, <1>2, <1>3, <1>4, StepsOn DEF Resolved, SchemaFails, Serving

-----------------------------------------------------------------------------
(* Edits that change the store                                              *)

\* A field is stored under a new reference, which nothing names yet, and the secret
\* that goes with it is that of the field only.
LEMMA StoreFieldKeeps ==
    ASSUME IInv, NEW u \in Callers, NEW f \in Fields, StoreField(u, f)
    PROVE  IInv'
<1> DEFINE c == call[u]
           s == c.source
           n == Fresh
           form == [c.form EXCEPT ![f] = n]
           r == [c EXCEPT !.form = form, !.todo = c.todo \ {f},
                        !.dropped = c.dropped \/ c.row[f] \in Refs]
<1>0. /\ TypeOK /\ Shapes /\ Meets /\ c \in Call /\ c.pc = "resolve" /\ Active(u) /\ Serving(u)
      /\ Shape(c) /\ KeptBy(c) /\ ToldBy(c)
      /\ f \in c.todo /\ c.form[f] \notin {None, c.row[f]} /\ s \in Sources
      /\ issued \subseteq Refs
      /\ UNCHANGED <<sources, created, typed, hurt>>
  BY DEF StoreField, Replace, IInv, TypeOK, Shapes, Shape, Kept, Told, Active, Serving
<1>1. n \in Refs \ issued
  BY <1>0 DEF StoreField, Replace, Fresh
<1>2. /\ call' = [call EXCEPT ![u] = r]
      /\ issued' = issued \cup {n}
      /\ \A q \in Refs : secrets'[q] = IF q = c.row[f] THEN None
                                       ELSE IF q = n THEN c.form[f] ELSE secrets[q]
      /\ secrets' \in [Refs -> Texts \cup Refs \cup {None}]
      /\ file' \in [Refs -> Texts \cup Refs \cup {None}]
  <2> DEFINE put == [secrets EXCEPT ![n] = c.form[f]]
  <2>1. c.form[f] \in Texts \cup Refs \cup {None}
    BY <1>0, CallFields
  <2>2. /\ put \in [Refs -> Texts \cup Refs \cup {None}]
        /\ \A q \in Refs : put[q] = IF q = n THEN c.form[f] ELSE secrets[q]
    BY <1>0, <1>1, <2>1 DEF TypeOK
  <2>3. /\ call' = [call EXCEPT ![u] = r]
        /\ issued' = issued \cup {n}
        /\ secrets' = [q \in Refs |-> IF q = c.row[f] THEN None ELSE put[q]]
        /\ file' \in {secrets', put, file}
    BY <1>0 DEF StoreField, Replace, Call
  <2> HIDE DEF put, r
  <2> QED
    BY <1>0, <2>2, <2>3 DEF TypeOK
<1> HIDE DEF n
<1>3. form \in Config /\ form[f] = n /\ \A g \in Fields \ {f} : form[g] = c.form[g]
  BY <1>0, <1>1, CallFields DEF Config
<1> HIDE DEF form
<1>4. r \in Call
  <2>1. (c.dropped \/ c.row[f] \in Refs) \in BOOLEAN
    OBVIOUS
  <2> QED
    BY <1>0, <1>3, <2>1 DEF Call
<1>5. /\ r.pc = "resolve" /\ r.form = form /\ r.todo = c.todo \ {f} /\ r.full = c.full
      /\ r.source = s /\ r.row = c.row /\ r.met = c.met /\ r.told = c.told
      /\ r.dropped = (c.dropped \/ c.row[f] \in Refs) /\ r.new = c.new
  BY <1>0, <1>4 DEF Call
<1> HIDE DEF r
<1>6. /\ call' \in [Callers -> Call] /\ call'[u] = r
      /\ \A v \in Callers \ {u} : call'[v] = call[v]
      /\ Meets'
  BY <1>0, <1>2, <1>4, <1>5, CallStep
<1>7. TypeOK'
  BY <1>0, <1>1, <1>2, <1>6 DEF TypeOK
<1>8. Shapes'
  <2>1. ASSUME NEW v \in Callers \ {u} PROVE Shape(call[v])'
    <3>1. Shape(call[v])
      BY <1>0 DEF Shapes
    <3> QED
      BY <1>0, <1>2, <1>6, <3>1 DEF Shape
  <2>2. Shape(call[u])'
    BY <1>0, <1>1, <1>2, <1>3, <1>5, <1>6 DEF Shape
  <2> QED
    BY <1>0, <1>2, <2>1, <2>2 DEF Shapes
<1>9. PICK o \in [Refs -> Sources \cup {None}], p \in [Refs -> Fields \cup {None}] :
          OwnedBy(o, p)
  BY DEF IInv, Owned
<1>10. Owned'
  <2>0. PICK o2 \in [Refs -> Sources \cup {None}] :
            o2[n] = s /\ \A q \in issued : o2[q] = o[q]
    <3>1. /\ [o EXCEPT ![n] = s] \in [Refs -> Sources \cup {None}]
          /\ [o EXCEPT ![n] = s][n] = s
          /\ \A q \in issued : [o EXCEPT ![n] = s][q] = o[q]
      BY <1>0, <1>1
    <3> QED
      BY <3>1
  <2>1. PICK p2 \in [Refs -> Fields \cup {None}] :
            p2[n] = f /\ \A q \in issued : p2[q] = p[q]
    <3>1. /\ [p EXCEPT ![n] = f] \in [Refs -> Fields \cup {None}]
          /\ [p EXCEPT ![n] = f][n] = f
          /\ \A q \in issued : [p EXCEPT ![n] = f][q] = p[q]
      BY <1>0, <1>1
    <3> QED
      BY <3>1
  <2>2. \A x \in Sources, g \in Fields : sources'[x] # None /\ sources'[x][g] \in Refs
           => o2[sources'[x][g]] = x /\ p2[sources'[x][g]] = g
    BY <1>0, <1>9, <2>0, <2>1 DEF OwnedBy, Shapes
  <2>3. ASSUME NEW v \in Callers \ {u}, NEW g \in Fields
        PROVE  /\ call'[v].form[g] \in Refs
                     => o2[call'[v].form[g]] = call'[v].source /\ p2[call'[v].form[g]] = g
               /\ call'[v].row[g] \in Refs
                     => o2[call'[v].row[g]] = call'[v].source /\ p2[call'[v].row[g]] = g
    BY <1>0, <1>6, <1>9, <2>0, <2>1 DEF OwnedBy, Shapes, Shape
  <2>4. ASSUME NEW g \in Fields
        PROVE  /\ r.form[g] \in Refs => o2[r.form[g]] = r.source /\ p2[r.form[g]] = g
               /\ r.row[g] \in Refs => o2[r.row[g]] = r.source /\ p2[r.row[g]] = g
    BY <1>0, <1>3, <1>5, <1>9, <2>0, <2>1 DEF OwnedBy, Shape
  <2>5. OwnedBy(o2, p2)'
    BY <1>6, <2>2, <2>3, <2>4 DEF OwnedBy
  <2> QED
    BY <2>1, <2>5 DEF Owned
<1>11. Kept'
  <2>1. ASSUME NEW v \in Callers \ {u} PROVE KeptBy(call[v])'
    <3>1. KeptBy(call[v])
      BY DEF IInv, Kept
    <3> QED
      BY <1>0, <1>6, <3>1 DEF KeptBy
  <2>2. KeptBy(call[u])'
    BY <1>0, <1>3, <1>5, <1>6 DEF KeptBy
  <2> QED
    BY <2>1, <2>2 DEF Kept
\* The secret of any other field stays.
<1>12. \A q \in issued : o[q] # s \/ p[q] # f \/ c.row[f] \notin Refs
                              => secrets'[q] = secrets[q]
  BY <1>0, <1>1, <1>2, <1>9 DEF OwnedBy
<1>13. Told'
  <2>1. ASSUME NEW v \in Callers \ {u} PROVE ToldBy(call[v])'
    <3>1. ToldBy(call[v]) /\ Shape(call[v])
      BY <1>0 DEF IInv, Told, Shapes
    <3> SUFFICES ASSUME call[v].pc \in {"resolve", "write"}, Sound(call[v]), NEW g \in Fields
                 PROVE  Means(call[v].form[g])' = call[v].told[g]
      BY <1>0, <1>6 DEF ToldBy, Sound
    <3>2. call[v].source # s
      BY <1>0, <3>1 DEF Meets, Active, Sound
    <3>3. call[v].form[g] \in Refs => secrets'[call[v].form[g]] = secrets[call[v].form[g]]
      BY <1>9, <1>12, <3>1, <3>2 DEF OwnedBy, Shape
    <3> QED
      BY <1>6, <3>1, <3>3 DEF ToldBy, Means
  <2>2. ToldBy(call[u])'
    <3> SUFFICES ASSUME Sound(c), NEW g \in Fields
                 PROVE  (IF form[g] \in Refs THEN secrets'[form[g]] ELSE form[g]) = c.told[g]
      BY <1>0, <1>5, <1>6 DEF ToldBy, Sound, Means
    <3>1. Means(c.form[g]) = c.told[g]
      BY <1>0 DEF ToldBy
    <3>2. CASE g = f
      <4>1. c.form[f] \notin Refs
        BY <1>0 DEF KeptBy, Sound
      <4> QED
        BY <1>0, <1>1, <1>2, <1>3, <3>1, <3>2, <4>1 DEF Means, Shape
    <3>3. CASE g # f
      <4>1. c.form[g] \in Refs => secrets'[c.form[g]] = secrets[c.form[g]]
        BY <1>0, <1>9, <1>12, <3>3 DEF OwnedBy, Shape
      <4> QED
        BY <1>3, <3>1, <3>3, <4>1 DEF Means
    <3> QED
      BY <3>2, <3>3
  <2> QED
    BY <2>1, <2>2 DEF Told
<1>14. AdapterGetsWhatWasTyped' /\ Wrapped'
  <2> SUFFICES ASSUME NEW x \in Sources, x \notin hurt, sources[x] # None, ~Replacing(x)'
               PROVE  ResolveConfig(x)' = typed[x]
    BY <1>0 DEF AdapterGetsWhatWasTyped, IInv, Wrapped
  <2>1. ~Replacing(x) /\ (x = s => c.row[f] \notin Refs)
    BY <1>5, <1>6 DEF Replacing
  <2>2. ASSUME NEW g \in Fields, sources[x][g] \in Refs
        PROVE  secrets'[sources[x][g]] = secrets[sources[x][g]]
    BY <1>0, <1>9, <1>12, <2>1, <2>2 DEF OwnedBy, Shapes
  <2>3. ResolveConfig(x)' = ResolveConfig(x)
    BY <1>0, <2>2 DEF ResolveConfig
  <2> QED
    BY <2>1, <2>3 DEF IInv, AdapterGetsWhatWasTyped
<1> QED
  BY <1>6, <1>7, <1>8, <1>10, <1>11, <1>13, <1>14 DEF IInv

\* The row is written: what an edit that met no other was told is what the adapter gets.
LEMMA WriteRowKeeps ==
    ASSUME IInv, NEW u \in Callers, WriteRow(u)
    PROVE  IInv'
<1> DEFINE c == call[u]
           s == c.source
<1>0. /\ TypeOK /\ Shapes /\ Meets /\ c \in Call /\ c.pc = "write" /\ Active(u) /\ Serving(u)
      /\ Shape(c) /\ ToldBy(c) /\ s \in Sources
      /\ call' = [call EXCEPT ![u] = Idle]
      /\ sources' = [sources EXCEPT ![s] = c.form]
      /\ typed' = [typed EXCEPT ![s] = c.told]
      /\ c.new \/ sources[s] # None
      /\ hurt' = IF c.met \/ \E f \in Fields : c.form[f] \in Texts
                 THEN hurt \cup {s} ELSE IF c.full THEN hurt \ {s} ELSE hurt
      /\ UNCHANGED <<secrets, issued, file, created>>
  BY DEF WriteRow, Leave, IInv, TypeOK, Shapes, Shape, Told, Active, Serving
<1>1. /\ c.form \in Config /\ c.form # None /\ c.told \in Typed
      /\ \A f \in Fields : c.form[f] \in Texts \cup Refs \cup {None}
  BY <1>0, CallFields
<1>2. /\ call' \in [Callers -> Call] /\ call'[u] = Idle
      /\ \A v \in Callers \ {u} : call'[v] = call[v]
      /\ Meets'
  BY <1>0, IdleIs, CallStep
<1>3. /\ sources' \in [Sources -> Config \cup {None}] /\ typed' \in [Sources -> Typed]
      /\ sources'[s] = c.form /\ typed'[s] = c.told
      /\ \A x \in Sources \ {s} : sources'[x] = sources[x] /\ typed'[x] = typed[x]
  BY <1>0, <1>1 DEF TypeOK
<1>4. TypeOK'
  BY <1>0, <1>2, <1>3 DEF TypeOK
<1>5. Shapes'
  <2>1. \A v \in Callers : Shape(call[v])'
    BY <1>0, <1>2, IdleIs, BlankIs DEF Shapes, Shape
  <2>2. \A x \in Sources : sources'[x] # None =>
           x \in created' /\ \A f \in Fields : sources'[x][f] \in Refs => sources'[x][f] \in issued'
    BY <1>0, <1>1, <1>3 DEF Shapes, Shape
  <2> QED
    BY <2>1, <2>2 DEF Shapes
<1>6. Owned'
  <2>1. PICK o \in [Refs -> Sources \cup {None}], p \in [Refs -> Fields \cup {None}] :
             OwnedBy(o, p)
    BY DEF IInv, Owned
  <2>2. \A x \in Sources, f \in Fields : sources'[x] # None /\ sources'[x][f] \in Refs
           => o[sources'[x][f]] = x /\ p[sources'[x][f]] = f
    BY <1>1, <1>3, <2>1 DEF OwnedBy
  <2>3. \A f \in Fields : Idle.form[f] \notin Refs /\ Idle.row[f] \notin Refs
    BY IdleIs, BlankIs
  <2>4. OwnedBy(o, p)'
    BY <1>2, <2>1, <2>2, <2>3 DEF OwnedBy
  <2> QED
    BY <2>4 DEF Owned
\* An edit that met no other is of another Source.
<1>7. \A v \in Callers \ {u} : Active(v) /\ ~call[v].met =>
         call[v].source \in Sources \ {s}
  BY <1>0 DEF Meets, Active, Serving, Shapes, Shape, TypeOK
<1>8. Kept'
  <2>1. ASSUME NEW v \in Callers \ {u} PROVE KeptBy(call[v])'
    <3>1. KeptBy(call[v])
      BY DEF IInv, Kept
    <3> QED
      BY <1>2, <1>3, <1>7, <3>1 DEF KeptBy, Active
  <2>2. KeptBy(call[u])'
    BY <1>2, IdleIs, BlankIs DEF KeptBy
  <2> QED
    BY <2>1, <2>2 DEF Kept
<1>9. Told'
  <2>1. ASSUME NEW v \in Callers \ {u} PROVE ToldBy(call[v])'
    <3>1. ToldBy(call[v])
      BY DEF IInv, Told
    <3> QED
      BY <1>0, <1>2, <1>7, <3>1 DEF ToldBy, Sound, Means, Active
  <2>2. ToldBy(call[u])'
    BY <1>2, IdleIs DEF ToldBy
  <2> QED
    BY <2>1, <2>2 DEF Told
<1>10. s \notin hurt' => /\ ~c.met /\ \A f \in Fields : c.form[f] \notin Texts
                         /\ Sound(c)
  BY <1>0 DEF Sound
<1>11. \A x \in Sources \ {s} : x \notin hurt' => x \notin hurt
  BY <1>0
<1>12. Wrapped'
  BY <1>0, <1>3, <1>10, <1>11 DEF IInv, Wrapped
<1>13. AdapterGetsWhatWasTyped'
  <2> SUFFICES ASSUME NEW x \in Sources, x \notin hurt', sources'[x] # None, ~Replacing(x)'
               PROVE  ResolveConfig(x)' = typed'[x]
    BY DEF AdapterGetsWhatWasTyped
  <2>1. CASE x = s
    <3>1. \A f \in Fields : Means(c.form[f]) = c.told[f]
      BY <1>0, <1>10, <2>1 DEF ToldBy
    <3>2. \A f \in Fields :
             (IF c.form[f] \in Refs THEN secrets[c.form[f]] ELSE None) = c.told[f]
      BY <1>1, <1>10, <2>1, <3>1 DEF Means
    <3>3. c.told = [f \in Fields |-> c.told[f]]
      BY <1>1 DEF Typed
    <3>4. ResolveConfig(x)' = [f \in Fields |-> c.told[f]]
      BY <1>0, <1>3, <2>1, <3>2 DEF ResolveConfig
    <3> QED
      BY <1>3, <2>1, <3>3, <3>4
  <2>2. CASE x # s
    <3>1. x \notin hurt /\ sources[x] # None
      BY <1>3, <1>11, <2>2
    <3>2. ~Replacing(x)
      BY <1>2, <2>2 DEF Replacing
    <3>3. ResolveConfig(x)' = ResolveConfig(x)
      BY <1>0, <1>3, <2>2 DEF ResolveConfig
    <3> QED
      BY <1>3, <2>2, <3>1, <3>2, <3>3 DEF IInv, AdapterGetsWhatWasTyped
  <2> QED
    BY <2>1, <2>2
<1> QED
  BY <1>2, <1>4, <1>5, <1>6, <1>8, <1>9, <1>12, <1>13 DEF IInv

\* Edits end without a row written, all that are being served if the store changes with
\* it: a Source with a row they leave half done, or whose secrets change, is hurt.
LEMMA EndKeeps ==
    ASSUME IInv, NEW W \in SUBSET Callers,
           call' = [v \in Callers |-> IF v \in W THEN Idle ELSE call[v]],
           hurt \subseteq hurt', hurt' \subseteq Sources,
           \A v \in W : call[v].dropped => \/ call[v].source \in hurt'
                                           \/ sources[call[v].source] = None,
           secrets' \in [Refs -> Texts \cup Refs \cup {None}],
           file' \in [Refs -> Texts \cup Refs \cup {None}],
           secrets' = secrets \/ \A v \in Callers \ W : ~Serving(v),
           \A s \in Sources \ hurt', f \in Fields :
              sources[s] # None /\ ~Replacing(s) /\ sources[s][f] \in Refs
                 => secrets'[sources[s][f]] = secrets[sources[s][f]],
           UNCHANGED <<issued, sources, created, typed>>
    PROVE  IInv'
<1>0. TypeOK /\ Shapes /\ Meets
  BY DEF IInv
<1>1. /\ call' \in [Callers -> Call] /\ \A v \in W : call'[v] = Idle
      /\ \A v \in Callers \ W : call'[v] = call[v]
  BY <1>0, IdleIs DEF TypeOK
<1>2. TypeOK' /\ Meets'
  BY <1>0, <1>1, IdleIs DEF TypeOK, Meets, Active, Serving
<1>3. Shapes'
  BY <1>0, <1>1, IdleIs, BlankIs DEF Shapes, Shape
<1>4. Owned'
  <2>1. PICK o \in [Refs -> Sources \cup {None}], p \in [Refs -> Fields \cup {None}] :
             OwnedBy(o, p)
    BY DEF IInv, Owned
  <2>2. \A f \in Fields : Idle.form[f] \notin Refs /\ Idle.row[f] \notin Refs
    BY IdleIs, BlankIs
  <2>3. OwnedBy(o, p)'
    BY <1>1, <2>1, <2>2 DEF OwnedBy
  <2> QED
    BY <2>3 DEF Owned
<1>5. Kept'
  <2>1. ASSUME NEW v \in Callers \ W PROVE KeptBy(call[v])'
    <3>1. KeptBy(call[v])
      BY DEF IInv, Kept
    <3> QED
      BY <1>1, <3>1 DEF KeptBy
  <2>2. ASSUME NEW v \in W PROVE KeptBy(call[v])'
    BY <1>1, IdleIs, BlankIs DEF KeptBy
  <2> QED
    BY <2>1, <2>2 DEF Kept
<1>6. Told'
  <2>1. ASSUME NEW v \in Callers \ W PROVE ToldBy(call[v])'
    <3>1. ToldBy(call[v])
      BY DEF IInv, Told
    <3>2. secrets' = secrets \/ ~Serving(v)
      OBVIOUS
    <3> QED
      BY <1>1, <3>1, <3>2 DEF ToldBy, Sound, Means, Serving
  <2>2. ASSUME NEW v \in W PROVE ToldBy(call[v])'
    BY <1>1, IdleIs DEF ToldBy
  <2> QED
    BY <2>1, <2>2 DEF Told
<1>7. AdapterGetsWhatWasTyped' /\ Wrapped'
  <2> SUFFICES ASSUME NEW x \in Sources, x \notin hurt', sources[x] # None, ~Replacing(x)'
               PROVE  ResolveConfig(x)' = typed[x]
    BY DEF AdapterGetsWhatWasTyped, IInv, Wrapped
  <2>1. ~Replacing(x)
    BY <1>1 DEF Replacing
  <2>2. ResolveConfig(x)' = ResolveConfig(x)
    BY <2>1 DEF ResolveConfig
  <2> QED
    BY <2>1, <2>2 DEF IInv, AdapterGetsWhatWasTyped
<1> QED
  BY <1>1, <1>2, <1>3, <1>4, <1>5, <1>6, <1>7 DEF IInv

LEMMA LeaveKeeps ==
    ASSUME IInv, NEW u \in Callers, Gone(u) \/ Fails(u)
    PROVE  IInv'
<1>1. call' = [v \in Callers |-> IF v \in {u} THEN Idle ELSE call[v]]
  BY DEF Gone, Fails, Leave, IInv, TypeOK
<1>2. Shape(call[u]) /\ hurt \subseteq Sources /\ created \subseteq Sources
  BY DEF IInv, Shapes, TypeOK
<1>3. call[u].pc # "idle" => call[u].source \in Sources
  BY <1>2 DEF Shape
<1>4. /\ hurt \subseteq hurt' /\ hurt' \subseteq Sources
      /\ call[u].dropped => call[u].source \in hurt' \/ sources[call[u].source] = None
      /\ UNCHANGED <<secrets, issued, file, sources, created, typed>>
  <2>1. CASE Gone(u)
    BY <1>2, <2>1 DEF Gone
  <2>2. CASE Fails(u)
    BY <1>2, <1>3, <2>2 DEF Fails
  <2> QED
    BY <2>1, <2>2
<1>5. {u} \in SUBSET Callers
  OBVIOUS
<1>6. /\ secrets' \in [Refs -> Texts \cup Refs \cup {None}]
      /\ file' \in [Refs -> Texts \cup Refs \cup {None}]
  BY <1>4 DEF IInv, TypeOK
<1> QED
  BY <1>1, <1>4, <1>5, <1>6, EndKeeps

LEMMA RestartKeeps == IInv /\ Restart => IInv'
<1> SUFFICES ASSUME IInv, Restart PROVE IInv'
  OBVIOUS
<1> DEFINE W == {u \in Callers : Serving(u)}
<1>0. TypeOK /\ Shapes
  BY DEF IInv
<1>1. call' = [v \in Callers |-> IF v \in W THEN Idle ELSE call[v]]
  BY DEF Restart
<1>2. hurt' = hurt \cup {s \in Sources : sources[s] # None /\ (Replacing(s) \/ Lost(s))}
  BY DEF Restart
<1>3. \A v \in W : call[v].source \in Sources
  BY <1>0 DEF Shapes, Shape, TypeOK, Serving
<1>4. W \in SUBSET Callers /\ hurt \subseteq Sources /\ \A v \in Callers \ W : ~Serving(v)
  BY <1>0 DEF TypeOK
<1> HIDE DEF W
<1>5. /\ hurt \subseteq hurt' /\ hurt' \subseteq Sources
      /\ \A v \in W : call[v].dropped => \/ call[v].source \in hurt'
                                         \/ sources[call[v].source] = None
  BY <1>2, <1>3, <1>4 DEF Replacing
<1>6. \A s \in Sources \ hurt', f \in Fields :
         sources[s] # None /\ ~Replacing(s) /\ sources[s][f] \in Refs
            => secrets'[sources[s][f]] = secrets[sources[s][f]]
  BY <1>2 DEF Lost, Restart
<1>7. /\ secrets' \in [Refs -> Texts \cup Refs \cup {None}]
      /\ file' \in [Refs -> Texts \cup Refs \cup {None}]
      /\ UNCHANGED <<issued, sources, created, typed>>
  BY <1>0 DEF Restart, TypeOK
<1> QED
  BY <1>1, <1>4, <1>5, <1>6, <1>7, EndKeeps

LEMMA DeleteKeeps ==
    ASSUME IInv, NEW u \in Callers, NEW s \in Sources, Delete(u, s)
    PROVE  IInv'
<1>0. /\ TypeOK /\ Shapes /\ Meets
      /\ sources' = [sources EXCEPT ![s] = None]
      /\ typed' = [typed EXCEPT ![s] = Blank]
      /\ hurt' = hurt \ {s}
      /\ UNCHANGED <<secrets, issued, file, call, created>>
  BY DEF IInv, Delete
<1>1. /\ sources' \in [Sources -> Config \cup {None}]
      /\ typed' \in [Sources -> Typed] /\ \A x \in Sources \ {s} : typed'[x] = typed[x]
      /\ sources'[s] = None
      /\ \A x \in Sources : sources'[x] # None => sources'[x] = sources[x]
      /\ \A x \in Sources : sources[x] = None => sources'[x] = None
  BY <1>0, BlankIs DEF TypeOK
<1>2. TypeOK' /\ Meets'
  BY <1>0, <1>1 DEF TypeOK, Meets, Active, Serving
<1>3. Shapes'
  BY <1>0, <1>1 DEF Shapes, Shape
<1>4. Owned'
  <2>1. PICK o \in [Refs -> Sources \cup {None}], p \in [Refs -> Fields \cup {None}] :
             OwnedBy(o, p)
    BY DEF IInv, Owned
  <2>2. OwnedBy(o, p)'
    BY <1>0, <1>1, <2>1 DEF OwnedBy
  <2> QED
    BY <2>2 DEF Owned
<1>5. Kept'
  <2> SUFFICES ASSUME NEW v \in Callers PROVE KeptBy(call[v])'
    BY DEF Kept
  <2>1. KeptBy(call[v]) /\ Shape(call[v])
    BY <1>0 DEF IInv, Kept, Shapes
  <2>2. call[v].pc # "idle" => call[v].source \in Sources
    BY <1>0, <2>1 DEF Shape, TypeOK
  <2> QED
    BY <1>0, <1>1, <2>1, <2>2 DEF KeptBy
<1>6. Told'
  <2> SUFFICES ASSUME NEW v \in Callers PROVE ToldBy(call[v])'
    BY DEF Told
  <2>1. ToldBy(call[v]) /\ Shape(call[v])
    BY <1>0 DEF IInv, Told, Shapes
  <2>2. call[v].pc # "idle" => call[v].source \in Sources
    BY <1>0, <2>1 DEF Shape, TypeOK
  <2> QED
    BY <1>0, <1>1, <2>1, <2>2 DEF ToldBy, Sound, Means
<1>7. AdapterGetsWhatWasTyped' /\ Wrapped'
  <2>0. \A x \in Sources : sources'[x] # None => x # s /\ (x \notin hurt' => x \notin hurt)
    BY <1>0, <1>1
  <2> SUFFICES ASSUME NEW x \in Sources, x # s, x \notin hurt, sources'[x] # None, ~Replacing(x)'
               PROVE  ResolveConfig(x)' = typed[x]
    BY <1>0, <1>1, <2>0 DEF AdapterGetsWhatWasTyped, IInv, Wrapped
  <2>1. sources'[x] = sources[x] /\ ~Replacing(x)
    BY <1>0, <1>1 DEF Replacing
  <2>2. ResolveConfig(x)' = ResolveConfig(x)
    BY <1>0, <2>1 DEF ResolveConfig
  <2> QED
    BY <2>1, <2>2 DEF IInv, AdapterGetsWhatWasTyped
<1> QED
  BY <1>2, <1>3, <1>4, <1>5, <1>6, <1>7 DEF IInv

-----------------------------------------------------------------------------
(* The other owners of secrets                                              *)

\* The references that rows, and forms under way, name.
Named == {r \in Refs :
            \/ \E s \in Sources, f \in Fields : sources[s] # None /\ sources[s][f] = r
            \/ \E u \in Callers, f \in Fields : call[u].form[f] = r \/ call[u].row[f] = r}

\* What the rest of the program does with the secrets store, such as the notification
\* channels with their tokens: it generates references of its own, and removes or
\* replaces only secrets that no Source and no edit names. Its saves may leave any map in
\* the file: an older one that is renamed over it takes out a secret that was there.
Elsewhere ==
    /\ issued \subseteq issued' /\ issued' \subseteq Refs
    /\ secrets' \in [Refs -> Texts \cup Refs \cup {None}]
    /\ \A r \in Named : secrets'[r] = secrets[r]
    /\ file' \in [Refs -> Texts \cup Refs \cup {None}]
    /\ UNCHANGED own

\* The Sources and the rest of the program on the one store.
SharedSpec == Init /\ [][Next \/ Elsewhere]_vars

LEMMA ElsewhereKeeps == IInv /\ Elsewhere => IInv'
<1> SUFFICES ASSUME IInv, Elsewhere PROVE IInv'
  OBVIOUS
<1>0. /\ TypeOK /\ Shapes /\ Meets
      /\ UNCHANGED <<sources, call, created, typed, hurt>>
  BY DEF IInv, Elsewhere, own
<1>1. TypeOK' /\ Meets' /\ Kept' /\ Wrapped'
  BY <1>0 DEF IInv, TypeOK, Elsewhere, Meets, Active, Serving, Kept, KeptBy, Wrapped
<1>2. Shapes'
  BY <1>0 DEF Shapes, Shape, Elsewhere
<1>3. Owned'
  <2>1. PICK o \in [Refs -> Sources \cup {None}], p \in [Refs -> Fields \cup {None}] :
             OwnedBy(o, p)
    BY DEF IInv, Owned
  <2>2. OwnedBy(o, p)'
    BY <1>0, <2>1 DEF OwnedBy
  <2> QED
    BY <2>2 DEF Owned
<1>4. Told'
  <2> SUFFICES ASSUME NEW v \in Callers PROVE ToldBy(call[v])'
    BY DEF Told
  <2>1. ToldBy(call[v])
    BY DEF IInv, Told
  <2>2. \A f \in Fields : Means(call[v].form[f])' = Means(call[v].form[f])
    BY <1>0 DEF Means, Elsewhere, Named
  <2> QED
    BY <1>0, <2>1, <2>2 DEF ToldBy, Sound
<1>5. AdapterGetsWhatWasTyped'
  <2>1. ASSUME NEW s \in Sources, sources[s] # None
        PROVE  ResolveConfig(s)' = ResolveConfig(s)
    <3>2. \A f \in Fields : sources[s][f] \in Refs
                               => secrets'[sources[s][f]] = secrets[sources[s][f]]
      BY <2>1 DEF Elsewhere, Named
    <3> QED
      BY <1>0, <3>2 DEF ResolveConfig
  <2>2. \A s \in Sources : Replacing(s)' <=> Replacing(s)
    BY <1>0 DEF Replacing
  <2> QED
    BY <1>0, <2>1, <2>2 DEF IInv, AdapterGetsWhatWasTyped
<1> QED
  BY <1>1, <1>2, <1>3, <1>4, <1>5 DEF IInv

-----------------------------------------------------------------------------
(* Every step                                                               *)

\* An edit that begins is Enter of some call.
Begins(u, s) ==
    \/ \E config \in Typed : CreateInProject(u, s, config)
    \/ OpenForm(u, s) \/ BeginSettings(u, s)

LEMMA BeginIsEnter ==
    ASSUME IInv, NEW u \in Callers, NEW s \in Sources, Begins(u, s)
    PROVE  \E c \in Call :
              /\ ~Active(u) /\ Entry(c) /\ Enter(u, c)
              /\ created \subseteq created' /\ created' \subseteq Sources
              /\ c.source \in created'
              /\ UNCHANGED <<secrets, issued, file, sources, typed, hurt>>
<1>0. /\ TypeOK /\ created \subseteq Sources /\ Blank \in Config /\ Blank \in Typed
      /\ sources[s] # None => s \in created
  BY BlankIs DEF IInv, TypeOK, Shapes
<1>1. ASSUME NEW config \in Typed, CreateInProject(u, s, config)
      PROVE  \E c \in Call : Entry(c) /\ Enter(u, c) /\ c.source = s
  <2> DEFINE c == [Idle EXCEPT !.pc = "resolve", !.new = TRUE, !.source = s, !.form = config,
                               !.told = config, !.todo = Fields]
  <2>1. config \in Config
    BY DEF Typed, Config
  <2>2. c \in Call
    BY <2>1, IdleIs DEF Call
  <2>3. /\ c.pc = "resolve" /\ c.source = s /\ c.form = config /\ c.told = config
        /\ c.todo = Fields /\ c.row = Blank /\ ~c.dropped /\ ~c.full /\ ~c.met
    BY IdleIs DEF Call
  <2>4. Enter(u, c)
    BY <1>1 DEF CreateInProject
  <2> HIDE DEF c
  <2>5. Entry(c)
    BY <1>1, <2>3 DEF Entry, CreateInProject
  <2> QED
    BY <2>2, <2>3, <2>4, <2>5
<1>2. ASSUME OpenForm(u, s)
      PROVE  \E c \in Call : Entry(c) /\ Enter(u, c) /\ c.source = s
  <2> DEFINE c == [Idle EXCEPT !.pc = "form", !.source = s, !.form = sources[s]]
  <2>1. sources[s] \in Config
    BY <1>0, <1>2, RowFields DEF OpenForm
  <2>2. c \in Call
    BY <2>1, IdleIs DEF Call
  <2>3. /\ c.pc = "form" /\ c.source = s /\ c.form = sources[s] /\ c.row = Blank
        /\ ~c.dropped /\ ~c.full /\ ~c.met /\ ~c.new
    BY IdleIs DEF Call
  <2>4. Enter(u, c)
    BY <1>2 DEF OpenForm
  <2> HIDE DEF c
  <2>5. Entry(c)
    BY <1>2, <2>3 DEF Entry, OpenForm
  <2> QED
    BY <2>2, <2>3, <2>4, <2>5
<1>3. ASSUME BeginSettings(u, s)
      PROVE  \E c \in Call : Entry(c) /\ Enter(u, c) /\ c.source = s
  <2> DEFINE c == [Idle EXCEPT !.pc = "write", !.source = s, !.form = sources[s],
                               !.told = typed[s]]
  <2>1. sources[s] \in Config /\ typed[s] \in Typed
    BY <1>0, <1>3, RowFields DEF BeginSettings
  <2>2. c \in Call
    BY <2>1, IdleIs DEF Call
  <2>3. /\ c.pc = "write" /\ c.source = s /\ c.form = sources[s] /\ c.row = Blank
        /\ c.told = typed[s] /\ ~c.dropped /\ ~c.full /\ ~c.met /\ ~c.new
    BY IdleIs DEF Call
  <2>4. Enter(u, c)
    BY <1>3 DEF BeginSettings
  <2> HIDE DEF c
  <2>5. Entry(c)
    BY <1>3, <2>3 DEF Entry, BeginSettings
  <2> QED
    BY <2>2, <2>3, <2>4, <2>5
<1>4. /\ ~Active(u) /\ created \subseteq created' /\ created' \subseteq Sources /\ s \in created'
      /\ UNCHANGED <<secrets, issued, file, sources, typed, hurt>>
  BY <1>0 DEF Begins, CreateInProject, OpenForm, BeginSettings, Active
<1> QED
  BY <1>1, <1>2, <1>3, <1>4 DEF Begins

LEMMA NextKeeps == IInv /\ [Next \/ Elsewhere]_vars => IInv'
<1>1. ASSUME IInv, Next PROVE IInv'
  <2>1. ASSUME NEW u \in Callers, CallerStep(u) PROVE IInv'
    <3>1. CASE \E s \in Sources : Begins(u, s)
      BY <1>1, <3>1, BeginIsEnter, EnterKeeps
    <3>2. CASE \E s \in Sources : Delete(u, s)
      BY <1>1, <3>2, DeleteKeeps
    <3>3. CASE \E config \in Config : Submit(u, config)
      BY <1>1, <3>3, SubmitKeeps
    <3>4. CASE \E f \in Fields : KeepField(u, f) \/ StoreField(u, f)
      BY <1>1, <3>4, KeepFieldKeeps, StoreFieldKeeps
    <3>5. CASE Get(u) \/ SchemaFails(u) \/ Resolved(u) \/ WriteRow(u)
      BY <1>1, <3>5, GetKeeps, ResolvedKeeps, WriteRowKeeps
    <3>6. CASE Gone(u) \/ Fails(u)
      BY <1>1, <3>6, LeaveKeeps
    <3> QED
      BY <2>1, <3>1, <3>2, <3>3, <3>4, <3>5, <3>6 DEF CallerStep, Begins
  <2> QED
    BY <1>1, <2>1, RestartKeeps DEF Next
<1>2. ASSUME IInv, UNCHANGED vars PROVE IInv'
  <2>1. UNCHANGED <<secrets, issued, file, sources, call, created, typed, hurt>>
    BY <1>2 DEF vars, own
  <2>2. TypeOK' /\ Shapes' /\ Meets' /\ Kept' /\ Told'
    BY <1>2, <2>1 DEF IInv, TypeOK, Shapes, Shape, Meets, Active, Serving, Kept, KeptBy,
                      Told, ToldBy, Sound, Means
  <2>3. Owned' /\ Wrapped' /\ AdapterGetsWhatWasTyped'
    BY <1>2, <2>1 DEF IInv, Owned, OwnedBy, Wrapped, AdapterGetsWhatWasTyped, Replacing,
                      ResolveConfig
  <2> QED
    BY <2>2, <2>3 DEF IInv
<1> QED
  BY <1>1, <1>2, ElsewhereKeeps

LEMMA Inductive == SharedSpec => []IInv
BY InitHolds, NextKeeps, PTL DEF SharedSpec

\* The Sources on their own are a case of the Sources among others.
LEMMA Alone == Spec => SharedSpec
<1>1. [Next]_vars => [Next \/ Elsewhere]_vars
  OBVIOUS
<1> QED
  BY <1>1, PTL DEF Spec, SharedSpec

\* Nothing names the reference.
Foreign(r) ==
    /\ \A s \in Sources, f \in Fields : sources[s] # None => sources[s][f] # r
    /\ \A u \in Callers, f \in Fields : call[u].form[f] # r /\ call[u].row[f] # r

\* The secret of a reference is left alone; a restart has the one of the file.
Leaves(r) ==
    /\ secrets'[r] = secrets[r] \/ (Restart /\ secrets'[r] = file[r])

\* What belongs to somebody else stays that way, with its secret.
LeavesAlone(r) == Foreign(r)' /\ Leaves(r)

LEMMA NamedIs == \A r \in Refs : r \notin Named <=> Foreign(r)
BY DEF Named, Foreign

LEMMA BeginLeavesAlone ==
    ASSUME IInv, NEW r \in issued, Foreign(r), NEW u \in Callers, NEW s \in Sources,
           Begins(u, s)
    PROVE  LeavesAlone(r)
<1>1. PICK c \in Call : Entry(c) /\ Enter(u, c) /\ UNCHANGED <<secrets, file, sources>>
  BY BeginIsEnter
<1>2. /\ Agrees(call'[u], c)
      /\ \A v \in Callers \ {u} : Agrees(call'[v], call[v])
  <2>1. c.pc # "idle"
    BY <1>1 DEF Entry
  <2> QED
    BY <1>1, <2>1, EnterStep DEF IInv
<1>3. r \in Refs
  BY DEF IInv, TypeOK
<1>4. \A f \in Fields : c.form[f] # r /\ c.row[f] # r
  BY <1>1, <1>3, BlankIs DEF Entry, Foreign, Typed
<1> QED
  BY <1>1, <1>2, <1>4 DEF LeavesAlone, Leaves, Foreign, Agrees

LEMMA NextLeavesAlone ==
    ASSUME IInv, Next, NEW r \in issued, Foreign(r)
    PROVE  LeavesAlone(r)
<1>0. /\ TypeOK /\ call \in [Callers -> Call] /\ r \in Refs /\ issued \subseteq Refs
      /\ \A f \in Fields : Blank[f] # r
      /\ \A f \in Fields : Idle.form[f] # r /\ Idle.row[f] # r
  BY IdleIs, BlankIs DEF IInv, TypeOK
\* A call goes on or ends with no reference but its own and those of its row.
<1>1. ASSUME NEW u \in Callers, NEW c, call' = [call EXCEPT ![u] = c],
             \A f \in Fields : c.form[f] # r /\ c.row[f] # r,
             \A s \in Sources, f \in Fields : sources'[s] # None => sources'[s][f] # r,
             Leaves(r)
      PROVE  LeavesAlone(r)
  <2>1. call'[u] = c /\ \A v \in Callers \ {u} : call'[v] = call[v]
    BY <1>0, <1>1
  <2> QED
    BY <1>1, <2>1 DEF LeavesAlone, Foreign
<1>2. ASSUME NEW u \in Callers, NEW config \in Config, Submit(u, config) PROVE LeavesAlone(r)
  <2> DEFINE full == \A f \in Fields : config[f] \in Texts
             c == [call[u] EXCEPT !.pc = "read", !.form = config, !.todo = Fields,
                                  !.full = full]
  <2>0. full \in BOOLEAN
    OBVIOUS
  <2>1. Enter(u, c) /\ UNCHANGED <<secrets, file, sources>>
    BY <1>2 DEF Submit
  <2> HIDE DEF full
  <2>2. c \in Call /\ c.pc = "read" /\ c.form = config /\ c.row = call[u].row
    BY <1>0, <2>0 DEF Call
  <2>3. \A f \in Fields : config[f] # r
    BY <1>0, <1>2 DEF Submit, Foreign
  <2> HIDE DEF c
  <2>4. /\ Agrees(call'[u], c)
        /\ \A v \in Callers \ {u} : Agrees(call'[v], call[v])
    BY <2>1, <2>2, EnterStep DEF IInv
  <2> QED
    BY <2>1, <2>2, <2>3, <2>4 DEF LeavesAlone, Leaves, Foreign, Agrees
<1>3. ASSUME NEW u \in Callers, Get(u) PROVE LeavesAlone(r)
  <2> DEFINE told == [f \in Fields |-> IF call[u].form[f] \in Refs
                                       THEN typed[call[u].source][f] ELSE call[u].form[f]]
             c == [call[u] EXCEPT !.pc = "resolve", !.row = sources[call[u].source],
                                  !.told = told]
  <2>1. call' = [call EXCEPT ![u] = c] /\ UNCHANGED <<secrets, file, sources>>
    BY <1>3 DEF Get
  <2>2. c.form = call[u].form /\ c.row = sources[call[u].source]
    BY <1>0 DEF Call
  <2>3. call[u].source \in Sources /\ sources[call[u].source] # None
    BY <1>3 DEF Get, IInv, TypeOK, Shapes, Shape
  <2> HIDE DEF c
  <2> QED
    BY <1>1, <2>1, <2>2, <2>3 DEF Foreign, Leaves
<1>4. ASSUME NEW u \in Callers, NEW f \in Fields, KeepField(u, f) PROVE LeavesAlone(r)
  <2> DEFINE c == [call[u] EXCEPT !.todo = call[u].todo \ {f}]
  <2>1. call' = [call EXCEPT ![u] = c] /\ UNCHANGED <<secrets, file, sources>>
    BY <1>4 DEF KeepField
  <2>2. c.form = call[u].form /\ c.row = call[u].row
    BY <1>0 DEF Call
  <2> HIDE DEF c
  <2> QED
    BY <1>1, <2>1, <2>2 DEF Foreign, Leaves
<1>5. ASSUME NEW u \in Callers, NEW f \in Fields, StoreField(u, f) PROVE LeavesAlone(r)
  <2> DEFINE form == [call[u].form EXCEPT ![f] = Fresh]
             c == [call[u] EXCEPT !.form = form, !.todo = call[u].todo \ {f},
                                  !.dropped = call[u].dropped \/ call[u].row[f] \in Refs]
             put == [secrets EXCEPT ![Fresh] = call[u].form[f]]
  <2>1. Fresh \in Refs \ issued
    BY <1>0, <1>5 DEF StoreField, Replace, Fresh
  <2>2. /\ call' = [call EXCEPT ![u] = c] /\ UNCHANGED sources
        /\ secrets' = [q \in Refs |-> IF q = call[u].row[f] THEN None ELSE put[q]]
        /\ file' \in {secrets', put, file}
    BY <1>0, <1>5 DEF StoreField, Replace, Call
  <2>3. c.form = form /\ c.row = call[u].row
    BY <1>0 DEF Call
  <2>4. \A g \in Fields : form[g] # r
    BY <1>0, <2>1, CallFields DEF Foreign, Config
  <2>5. Leaves(r)
    <3>1. put[r] = secrets[r]
      BY <1>0, <2>1 DEF TypeOK
    <3>2. secrets'[r] = secrets[r]
      BY <1>0, <2>2, <3>1 DEF Foreign
    <3> HIDE DEF put
    <3> QED
      BY <2>2, <3>1, <3>2 DEF Leaves
  <2> HIDE DEF c, form
  <2> QED
    BY <1>1, <2>2, <2>3, <2>4, <2>5 DEF Foreign
<1>6. ASSUME NEW u \in Callers, Resolved(u) \/ SchemaFails(u) PROVE LeavesAlone(r)
  <2> DEFINE c == [call[u] EXCEPT !.pc = "write", !.todo = {}, !.row = Blank]
  <2>1. call' = [call EXCEPT ![u] = c] /\ UNCHANGED <<secrets, file, sources>>
    <3>1. CASE Resolved(u)
      BY <1>0, <3>1, WrittenIs DEF Resolved
    <3>2. CASE SchemaFails(u)
      BY <3>2 DEF SchemaFails
    <3> QED
      BY <1>6, <3>1, <3>2
  <2>2. c.form = call[u].form /\ c.row = Blank
    BY <1>0 DEF Call
  <2> HIDE DEF c
  <2> QED
    BY <1>0, <1>1, <2>1, <2>2 DEF Foreign, Leaves
<1>7. ASSUME NEW u \in Callers, WriteRow(u) PROVE LeavesAlone(r)
  <2>1. call' = [call EXCEPT ![u] = Idle] /\ UNCHANGED <<secrets, file>>
    BY <1>7 DEF WriteRow, Leave
  <2>2. \A s \in Sources, f \in Fields : sources'[s] # None => sources'[s][f] # r
    BY <1>7 DEF WriteRow, Foreign, IInv, TypeOK
  <2> QED
    BY <1>0, <1>1, <2>1, <2>2 DEF Leaves
<1>8. ASSUME NEW u \in Callers, Gone(u) \/ Fails(u) PROVE LeavesAlone(r)
  <2>1. call' = [call EXCEPT ![u] = Idle] /\ UNCHANGED <<secrets, file, sources>>
    BY <1>8 DEF Gone, Fails, Leave
  <2> QED
    BY <1>0, <1>1, <2>1 DEF Foreign, Leaves
<1>9. ASSUME NEW u \in Callers, NEW s \in Sources, Delete(u, s) PROVE LeavesAlone(r)
  BY <1>0, <1>9 DEF Delete, LeavesAlone, Leaves, Foreign, TypeOK
<1>10. CASE Restart
  BY <1>0, <1>10 DEF Restart, LeavesAlone, Leaves, Foreign
<1> QED
  BY <1>2, <1>3, <1>4, <1>5, <1>6, <1>7, <1>8, <1>9, <1>10, BeginLeavesAlone
  DEF Next, CallerStep, Begins

-----------------------------------------------------------------------------
(* Theorems                                                                 *)

\* Every reachable state is well typed.
THEOREM TypeCorrect == Spec => []TypeOK
<1>1. IInv => TypeOK
  BY DEF IInv
<1> QED
  BY Inductive, Alone, <1>1, PTL

\* An adapter gets what was last typed into each secret field of its Source, however
\* edits of forms, changes of settings, failures and restarts interleave, except where
\* edits of the Source met, one of them broke off or did not find the schema, or a
\* restart has lost a secret whose save met another (resolveSecrets, Update,
\* ResolveConfig, persist).
THEOREM AdapterGetsTyped == Spec => []AdapterGetsWhatWasTyped
<1>1. IInv => AdapterGetsWhatWasTyped
  BY DEF IInv
<1> QED
  BY Inductive, Alone, <1>1, PTL

\* The same with other owners of secrets in the one store, as long as they remove only
\* secrets that no Source names. Their saves may put any map into the file: only
\* once a restart finds the file without its secret is the Source excepted.
THEOREM SharedStoreIsSafe == SharedSpec => []AdapterGetsWhatWasTyped
<1>1. IInv => AdapterGetsWhatWasTyped
  BY DEF IInv
<1> QED
  BY Inductive, <1>1, PTL

\* And the Sources keep to the same rule: a reference generated for another owner is
\* never named by a Source or an edit, and its secret is touched by none of the edits;
\* a restart has what the file had of it, which their saves may have left behind.
THEOREM OthersStay ==
    SharedSpec => [][Next => \A r \in issued \ Named :
                                /\ r \notin Named'
                                /\ secrets'[r] = secrets[r] \/ (Restart /\ secrets'[r] = file[r])]_vars
<1> DEFINE A == Next => \A r \in issued \ Named :
                           /\ r \notin Named'
                           /\ secrets'[r] = secrets[r] \/ (Restart /\ secrets'[r] = file[r])
<1>1. IInv => A
  <2> SUFFICES ASSUME IInv, Next, NEW r \in issued \ Named
               PROVE  r \notin Named' /\ Leaves(r)
    BY DEF Leaves
  <2>1. r \in Refs /\ Foreign(r)
    BY NamedIs DEF IInv, TypeOK
  <2>2. LeavesAlone(r)
    BY <2>1, NextLeavesAlone
  <2> QED
    BY <2>1, <2>2 DEF LeavesAlone, Named, Foreign
<1> QED
  BY Inductive, <1>1, PTL
=============================================================================
