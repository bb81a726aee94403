----------------------------- MODULE ConfigSecrets -----------------------------
(***************************************************************************)
(* The secret fields of Source configurations.                             *)
(*                                                                         *)
(* What a user types into a field the adapter's schema marks as secret is  *)
(* put into the secrets store and the row keeps the reference. A form that *)
(* edits a Source sends every field back, references included: a field is  *)
(* recognised as untouched by being equal to what the row holds when the   *)
(* request is served. The secret a field had is removed field by field,    *)
(* before the row is written; the reference is turned back into the secret *)
(* when the adapter is scheduled. Where the schema cannot be looked up the *)
(* fields are written as they were sent.                                   *)
(*                                                                         *)
(* The store's file is written as in Channels: a save that overlapped      *)
(* another leaves it as an earlier change has.                             *)
(***************************************************************************)
EXTENDS Naturals, FiniteSets

CONSTANTS
    Callers,    \* users with a form open, and their requests
    Sources,    \* ids of Sources; each is created once
    Fields,     \* the fields config_schema marks as secret
    Refs,       \* references the secrets store can generate
    Texts,      \* what users type
    None        \* no row, no reference, an empty field

VARIABLES
    secrets,    \* the secrets store: what each reference stands for
    issued,     \* references generated so far
    file,       \* what the store's file holds: the map of now or of an earlier time
    sources,    \* the sources table: config_json
    call,       \* the edit each caller is in
    created,    \* history: source ids used
    typed,      \* history: what was last typed and saved into each field
    hurt        \* history: Sources whose last edit met another, broke off or did not find
                \* the schema, or whose secret a restart has lost

own == <<sources, call, created, typed, hurt>>
vars == <<secrets, issued, file, own>>

-----------------------------------------------------------------------------
Config == [Fields -> Texts \cup Refs \cup {None}]
\* What a user may have typed.
Typed == [Fields -> Texts \cup {None}]
Blank == [f \in Fields |-> None]

ASSUME ConfigSecretsAssumption ==
    /\ None \notin Texts \cup Refs \cup Config
    /\ Texts \cap Refs = {}

\* An edit: the form as loaded or filled in, the row read, what each field will have
\* been told, the fields still to be resolved, whether every field was typed, whether
\* a secret has been removed, and whether it has met another edit of the Source: one
\* that was being served at some time since this one's form was opened.
Call == [pc: {"idle", "form", "read", "resolve", "write"}, new: BOOLEAN,
         source: Sources \cup {None}, form: Config, row: Config, told: Typed,
         todo: SUBSET Fields, full: BOOLEAN, dropped: BOOLEAN, met: BOOLEAN]
Idle == [pc |-> "idle", new |-> FALSE, source |-> None, form |-> Blank, row |-> Blank,
         told |-> Blank, todo |-> {}, full |-> FALSE, dropped |-> FALSE, met |-> FALSE]

Serving(v) == call[v].pc \notin {"idle", "form"}

\* Caller u's edit becomes c; it and, when it is being served from now on, the other
\* edits of the Source under way know of each other.
Enter(u, c) ==
    LET same(v) == v # u /\ call[v].pc # "idle" /\ call[v].source = c.source IN
    call' = [v \in Callers |->
               IF v = u THEN [c EXCEPT !.met = c.met \/ \E w \in Callers : same(w) /\ Serving(w)]
               ELSE IF c.pc # "form" /\ same(v) THEN [call[v] EXCEPT !.met = TRUE]
               ELSE call[v]]

Leave(u) == call' = [call EXCEPT ![u] = Idle]

Fresh == CHOOSE r \in Refs : r \notin issued

InitOwn ==
    /\ sources = [s \in Sources |-> None]
    /\ call = [u \in Callers |-> Idle]
    /\ created = {}
    /\ typed = [s \in Sources |-> Blank]
    /\ hurt = {}

Init == secrets = [r \in Refs |-> None] /\ issued = {} /\ file = secrets /\ InitOwn

-----------------------------------------------------------------------------
(* Requests                                                                 *)

\* A new Source: whatever is typed, with the other fields left empty.
CreateInProject(u, s, config) ==
    /\ call[u].pc = "idle"
    /\ s \notin created
    /\ created' = created \cup {s}
    /\ Enter(u, [Idle EXCEPT !.pc = "resolve", !.new = TRUE, !.source = s, !.form = config,
                             !.told = config, !.todo = Fields])
    /\ UNCHANGED <<secrets, issued, file, sources, typed, hurt>>

\* A form is opened on what the row holds.
OpenForm(u, s) ==
    /\ call[u].pc = "idle"
    /\ sources[s] # None
    /\ Enter(u, [Idle EXCEPT !.pc = "form", !.source = s, !.form = sources[s]])
    /\ UNCHANGED <<secrets, issued, file, sources, created, typed, hurt>>

\* It is sent with some fields typed over or emptied, the others as they were loaded.
Submit(u, config) ==
    /\ call[u].pc = "form"
    /\ \A f \in Fields : config[f] \in Texts \cup {None, call[u].form[f]}
    /\ Enter(u, [call[u] EXCEPT !.pc = "read", !.form = config, !.todo = Fields,
                                !.full = \A f \in Fields : config[f] \in Texts])
    /\ UNCHANGED <<secrets, issued, file, sources, created, typed, hurt>>

\* Enable, disable and MarkSeen read the row to write all of it back.
BeginSettings(u, s) ==
    /\ call[u].pc = "idle"
    /\ sources[s] # None
    /\ Enter(u, [Idle EXCEPT !.pc = "write", !.source = s, !.form = sources[s],
                             !.told = typed[s]])
    /\ UNCHANGED <<secrets, issued, file, sources, created, typed, hurt>>

\* Deviation: that there is no row is not looked at.
GetAnyway(u) ==
    LET s == call[u].source IN
    /\ call[u].pc = "read"
    /\ call' = [call EXCEPT ![u] = [@ EXCEPT !.pc = "resolve", !.row = sources[s],
                    !.told = [f \in Fields |-> IF call[u].form[f] \in Refs
                                               THEN typed[s][f] ELSE call[u].form[f]]]]
    /\ UNCHANGED <<secrets, issued, file, sources, created, typed, hurt>>

\* Update reads the row the fields are compared with.
Get(u) ==
    LET s == call[u].source IN
    /\ call[u].pc = "read"
    /\ sources[s] # None
    /\ call' = [call EXCEPT ![u] = [@ EXCEPT !.pc = "resolve", !.row = sources[s],
                    !.told = [f \in Fields |-> IF call[u].form[f] \in Refs
                                               THEN typed[s][f] ELSE call[u].form[f]]]]
    /\ UNCHANGED <<secrets, issued, file, sources, created, typed, hurt>>

-----------------------------------------------------------------------------
(* resolveSecrets, in the order of a map: any                               *)

\* The schema of the adapter is not found: the fields stay as they were sent.
SchemaFails(u) ==
    /\ call[u].pc = "resolve"
    /\ call[u].todo = Fields
    /\ call' = [call EXCEPT ![u].pc = "write", ![u].todo = {}, ![u].row = Blank]
    /\ UNCHANGED <<secrets, issued, file, sources, created, typed, hurt>>

\* A value is put under a new reference and the reference the field had, if it is one,
\* is deleted: the file has got both changes, the first or none.
Replace(u, f) ==
    LET old == call[u].row[f]
        put == [secrets EXCEPT ![Fresh] = call[u].form[f]] IN
    /\ issued # Refs
    /\ issued' = issued \cup {Fresh}
    /\ secrets' = [r \in Refs |-> IF r = old THEN None ELSE put[r]]
    /\ file' \in {secrets', put, file}
    /\ call' = [call EXCEPT ![u].form[f] = Fresh, ![u].todo = @ \ {f},
                            ![u].dropped = @ \/ old \in Refs]
    /\ UNCHANGED <<sources, created, typed, hurt>>

\* An empty field, or one equal to the row's, stays as it is.
KeepField(u, f) ==
    /\ call[u].pc = "resolve"
    /\ f \in call[u].todo
    /\ call[u].form[f] \in {None, call[u].row[f]}
    /\ call' = [call EXCEPT ![u].todo = @ \ {f}]
    /\ UNCHANGED <<secrets, issued, file, sources, created, typed, hurt>>

\* Deviation: what the field had is not compared, so a reference sent back is
\* stored as if it were typed.
WrapField(u, f) ==
    /\ call[u].pc = "resolve"
    /\ f \in call[u].todo
    /\ call[u].form[f] # None
    /\ Replace(u, f)

\* Anything else is stored under a new reference, and the secret the field had is
\* removed; the two are one step, as nobody else knows the new reference yet.
StoreField(u, f) ==
    /\ call[u].pc = "resolve"
    /\ f \in call[u].todo
    /\ call[u].form[f] \notin {None, call[u].row[f]}
    /\ Replace(u, f)

Resolved(u) ==
    /\ call[u].pc = "resolve"
    /\ call[u].todo = {}
    /\ call' = [call EXCEPT ![u].pc = "write", ![u].row = Blank]
    /\ UNCHANGED <<secrets, issued, file, sources, created, typed, hurt>>

-----------------------------------------------------------------------------
(* The row, failures                                                        *)

\* An edit of the Source has removed a secret its row still names.
Replacing(s) == \E u \in Callers : call[u].source = s /\ call[u].dropped

\* The file lacks a secret the row of the Source names.
Lost(s) == \E f \in Fields : sources[s][f] \in Refs
                              /\ file[sources[s][f]] # secrets[sources[s][f]]

\* The row is written whole, if it is still there. An edit that met no other, typed
\* every field and had them all stored leaves the Source sound.
WriteRow(u) ==
    LET s == call[u].source IN
    /\ call[u].pc = "write"
    /\ call[u].new \/ sources[s] # None
    /\ sources' = [sources EXCEPT ![s] = call[u].form]
    /\ typed' = [typed EXCEPT ![s] = call[u].told]
    /\ hurt' = IF call[u].met \/ \E f \in Fields : call[u].form[f] \in Texts
               THEN hurt \cup {s}
               ELSE IF call[u].full THEN hurt \ {s} ELSE hurt
    /\ Leave(u)
    /\ UNCHANGED <<secrets, issued, file, created>>

\* A row that is gone stays gone.
Gone(u) ==
    /\ ~call[u].new
    /\ call[u].pc \in {"read", "write"}
    /\ sources[call[u].source] = None
    /\ Leave(u)
    /\ UNCHANGED <<secrets, issued, file, sources, created, typed, hurt>>

\* The form is closed, Put fails at a field, or a statement fails: secrets the edit
\* has removed by then are gone.
Fails(u) ==
    /\ call[u].pc # "idle"
    /\ hurt' = IF call[u].dropped /\ sources[call[u].source] # None
               THEN hurt \cup {call[u].source} ELSE hurt
    /\ Leave(u)
    /\ UNCHANGED <<secrets, issued, file, sources, created, typed>>

\* The row goes; the secrets it names stay in the store.
Delete(u, s) ==
    /\ call[u].pc = "idle"
    /\ sources[s] # None
    /\ sources' = [sources EXCEPT ![s] = None]
    /\ typed' = [typed EXCEPT ![s] = Blank]
    /\ hurt' = hurt \ {s}
    /\ UNCHANGED <<secrets, issued, file, call, created>>

\* The process dies and starts again on the file: a secret whose save met another may
\* be missing, an edit under way is left half done, the forms stay open.
Restart ==
    /\ secrets' = file
    /\ hurt' = hurt \cup {s \in Sources : /\ sources[s] # None
                                          /\ Replacing(s) \/ Lost(s)}
    /\ call' = [u \in Callers |-> IF Serving(u) THEN Idle ELSE call[u]]
    /\ UNCHANGED <<issued, file, sources, created, typed>>

CallerStep(u) ==
    \/ \E s \in Sources :
          \/ \E config \in Typed : CreateInProject(u, s, config)
          \/ OpenForm(u, s) \/ BeginSettings(u, s) \/ Delete(u, s)
    \/ \E config \in Config : Submit(u, config)
    \/ Get(u) \/ SchemaFails(u)
    \/ \E f \in Fields : KeepField(u, f) \/ StoreField(u, f)
    \/ Resolved(u) \/ WriteRow(u) \/ Gone(u) \/ Fails(u)

Next == (\E u \in Callers : CallerStep(u)) \/ Restart

Spec == Init /\ [][Next]_vars

-----------------------------------------------------------------------------
(* Properties                                                               *)

TypeOK ==
    /\ secrets \in [Refs -> Texts \cup Refs \cup {None}]
    /\ issued \subseteq Refs
    /\ file \in [Refs -> Texts \cup Refs \cup {None}]
    /\ sources \in [Sources -> Config \cup {None}]
    /\ call \in [Callers -> Call]
    /\ created \subseteq Sources
    /\ typed \in [Sources -> Typed]
    /\ hurt \subseteq Sources

\* What the adapter of a Source is started with: None also where Get fails, as it does
\* of a text that is no reference, and it is not started at all.
ResolveConfig(s) ==
    [f \in Fields |-> IF sources[s][f] \in Refs THEN secrets[sources[s][f]] ELSE None]

\* A Source's adapter gets, in every secret field, what was last typed there, through
\* restarts too: never a secret of an older edit, nothing, or a reference. Excepted are
\* a Source whose edit is under way, and, until an edit types every field anew, one with
\* an edit that broke off, met another being served or did not find the schema, or with
\* a secret a restart has lost as its save had met another (resolveSecrets, Update,
\* ResolveConfig, persist).
AdapterGetsWhatWasTyped ==
    \A s \in Sources \ hurt :
        sources[s] # None /\ ~Replacing(s) => ResolveConfig(s) = typed[s]
=============================================================================
