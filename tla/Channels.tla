------------------------------- MODULE Channels -------------------------------
(***************************************************************************)
(* Notification channels, the bot tokens they own in the secrets store and *)
(* the alert rules that name them.                                         *)
(*                                                                         *)
(* A channel's row holds a reference to its token, a rule's row the id of  *)
(* its channel; neither is a foreign key. Every call reads a row, works on *)
(* the store, then writes the whole row back, with other calls in between, *)
(* and any of its statements may fail.                                     *)
(*                                                                         *)
(* The store writes its whole map to a file at every change, without a     *)
(* lock over copying and renaming (SecretsStore): when a save overlapped   *)
(* another owner's, failed or was cut off, the file stays as an earlier    *)
(* change has left it, until a save goes by undisturbed.                   *)
(***************************************************************************)
EXTENDS Naturals, FiniteSets

CONSTANTS
    Callers,    \* HTTP requests served at once
    Chans,      \* ids of channels; each is created once
    Rules,      \* ids of alert rules
    Refs,       \* references the secrets store can generate
    Token,      \* a bot token
    None        \* no row, no reference, no channel

VARIABLES
    secrets,    \* the secrets store: what each reference stands for
    issued,     \* references generated so far
    file,       \* what the store's file holds: the map of now or of an earlier time
    channels,   \* the notification_channels table: the secret_ref of each row
    rules,      \* the alert_rules table
    call,       \* the call each caller is in
    created,    \* history: channel ids used
    hurt,       \* history: channels whose last rotation met another call or broke off,
                \* or whose token a restart may have lost
    loose       \* history: rules whose last write met the deletion of their channel

own == <<channels, rules, call, created, hurt, loose>>
vars == <<secrets, issued, file, own>>

-----------------------------------------------------------------------------
\* The columns of a rule this module is about.
Rule == [channel: Chans \cup {None}, enabled: BOOLEAN]

ASSUME ChannelsAssumption ==
    None \notin Chans \cup Refs \cup Rules \cup Rule \cup {Token}

\* A call: the channel it is about, the reference or the rule it has read and will
\* write, whether it replaces the token, and whether it has met another call.
Call == [kind: {"create", "update", "delete", "rule"},
         pc: {"idle", "rotate", "drop", "write", "check", "remove", "forget",
              "validate", "save"},
         chan: Chans \cup {None}, ref: Refs \cup {None}, old: Refs \cup {None},
         rotate: BOOLEAN, rule: Rules \cup {None}, row: Rule, new: BOOLEAN, met: BOOLEAN]
NoRule == [channel |-> None, enabled |-> FALSE]
Idle == [kind |-> "create", pc |-> "idle", chan |-> None, ref |-> None, old |-> None,
         rotate |-> FALSE, rule |-> None, row |-> NoRule, new |-> FALSE, met |-> FALSE]

\* The kinds of calls on a channel that can undo one another.
Conflicts == {{"update"}, {"update", "delete"}, {"delete", "rule"}}

\* The calls that are in the way of a call like c.
Others(c) == {v \in Callers : /\ call[v].pc # "idle"
                              /\ call[v].chan = c.chan
                              /\ {call[v].kind, c.kind} \in Conflicts}

\* Caller u goes from idle into call c; it and the calls it meets know of it.
Enter(u, c) ==
    /\ call[u].pc = "idle"
    /\ call' = [v \in Callers |->
                  IF v = u THEN [c EXCEPT !.met = Others(c) # {}]
                  ELSE IF v \in Others(c) THEN [call[v] EXCEPT !.met = TRUE]
                  ELSE call[v]]

Leave(u) == call' = [call EXCEPT ![u] = Idle]

\* A reference nobody has had.
Fresh == CHOOSE r \in Refs : r \notin issued

\* The map is changed, and saved: the file becomes what the memory is, or, if another
\* save came in between, remains a map without this change.
Save(r, value) ==
    /\ secrets' = [secrets EXCEPT ![r] = value]
    /\ file' \in {secrets', file}

Put(value) ==
    /\ issued # Refs
    /\ issued' = issued \cup {Fresh}
    /\ Save(Fresh, value)

InitOwn ==
    /\ channels = [c \in Chans |-> None]
    /\ rules = [r \in Rules |-> None]
    /\ call = [u \in Callers |-> Idle]
    /\ created = {}
    /\ hurt = {}
    /\ loose = {}

Init == secrets = [r \in Refs |-> None] /\ issued = {} /\ file = secrets /\ InitOwn

-----------------------------------------------------------------------------
(* CreateChannel                                                            *)

\* Deviation: the row gets the token instead of its reference.
CreatePlain(u, c) ==
    /\ c \notin created
    /\ created' = created \cup {c}
    /\ Enter(u, [Idle EXCEPT !.pc = "write", !.chan = c, !.ref = Token])
    /\ UNCHANGED <<secrets, issued, file, channels, rules, hurt, loose>>

\* The token is stored first.
CreateChannel(u, c) ==
    /\ c \notin created
    /\ created' = created \cup {c}
    /\ Put(Token)
    /\ Enter(u, [Idle EXCEPT !.pc = "write", !.chan = c, !.ref = Fresh])
    /\ UNCHANGED <<channels, rules, hurt, loose>>

InsertChannel(u) ==
    /\ call[u].kind = "create"
    /\ call[u].pc = "write"
    /\ channels' = [channels EXCEPT ![call[u].chan] = call[u].ref]
    /\ Leave(u)
    /\ UNCHANGED <<secrets, issued, file, rules, created, hurt, loose>>

-----------------------------------------------------------------------------
(* UpdateChannel                                                            *)

\* The row is read; the request may rotate the token, or only change the chat id or
\* the enabled flag.
BeginUpdate(u, c, rotate) ==
    /\ channels[c] # None
    /\ Enter(u, [Idle EXCEPT !.kind = "update", !.chan = c, !.ref = channels[c],
                             !.rotate = rotate, !.pc = IF rotate THEN "rotate" ELSE "write"])
    /\ UNCHANGED <<secrets, issued, file, channels, rules, created, hurt, loose>>

StoreToken(u) ==
    /\ call[u].pc = "rotate"
    /\ Put(Token)
    /\ call' = [call EXCEPT ![u].pc = "drop", ![u].old = call[u].ref, ![u].ref = Fresh]
    /\ UNCHANGED <<channels, rules, created, hurt, loose>>

\* The old token goes before the row is written; an error of Delete is dropped, and
\* the reference is gone from memory all the same.
DropToken(u) ==
    /\ call[u].pc = "drop"
    /\ Save(call[u].old, None)
    /\ call' = [call EXCEPT ![u].pc = "write"]
    /\ UNCHANGED <<issued, channels, rules, created, hurt, loose>>

\* A channel that is still there, as a set.
Present(c) == {d \in {c} : channels[d] # None}

\* Deviation: the row keeps the reference it had.
WriteOldRef(u) ==
    LET c == call[u].chan IN
    /\ call[u].kind = "update"
    /\ call[u].pc = "write"
    /\ UNCHANGED channels
    /\ hurt' = IF call[u].met THEN hurt \cup Present(c)
               ELSE IF call[u].rotate THEN hurt \ {c} ELSE hurt
    /\ Leave(u)
    /\ UNCHANGED <<secrets, issued, file, rules, created, loose>>

\* The whole row is written, if it is still there. A rotation that met no other
\* call leaves the channel sound.
WriteChannel(u) ==
    LET c == call[u].chan IN
    /\ call[u].kind = "update"
    /\ call[u].pc = "write"
    /\ channels' = IF channels[c] = None THEN channels
                   ELSE [channels EXCEPT ![c] = call[u].ref]
    /\ hurt' = IF call[u].met THEN hurt \cup Present(c)
               ELSE IF call[u].rotate THEN hurt \ {c} ELSE hurt
    /\ Leave(u)
    /\ UNCHANGED <<secrets, issued, file, rules, created, loose>>

\* Put or the statement fails: the tokens stay as they are by then.
ChannelFails(u) ==
    /\ call[u].kind \in {"create", "update"}
    /\ call[u].pc \in {"rotate", "write"}
    /\ hurt' = IF call[u].rotate THEN hurt \cup Present(call[u].chan) ELSE hurt
    /\ Leave(u)
    /\ UNCHANGED <<secrets, issued, file, channels, rules, created, loose>>

-----------------------------------------------------------------------------
(* DeleteChannel                                                            *)

BeginDelete(u, c) ==
    /\ channels[c] # None
    /\ Enter(u, [Idle EXCEPT !.kind = "delete", !.chan = c, !.ref = channels[c],
                             !.pc = "check"])
    /\ UNCHANGED <<secrets, issued, file, channels, rules, created, hurt, loose>>

ListEnabledByChannel(c) ==
    {r \in Rules : rules[r] # None /\ rules[r].channel = c /\ rules[r].enabled}

\* Deviation: the rules are not asked.
CheckNothing(u) ==
    /\ call[u].pc = "check"
    /\ call' = [call EXCEPT ![u].pc = "remove"]
    /\ UNCHANGED <<secrets, issued, file, channels, rules, created, hurt, loose>>

CheckUnused(u) ==
    /\ call[u].pc = "check"
    /\ ListEnabledByChannel(call[u].chan) = {}
    /\ call' = [call EXCEPT ![u].pc = "remove"]
    /\ UNCHANGED <<secrets, issued, file, channels, rules, created, hurt, loose>>

RemoveChannel(u) ==
    LET c == call[u].chan IN
    /\ call[u].pc = "remove"
    /\ channels[c] # None
    /\ channels' = [channels EXCEPT ![c] = None]
    /\ call' = [call EXCEPT ![u].pc = "forget"]
    /\ hurt' = hurt \ {c}
    /\ UNCHANGED <<secrets, issued, file, rules, created, loose>>

\* The token of the row that was read goes last.
ForgetToken(u) ==
    /\ call[u].pc = "forget"
    /\ Save(call[u].ref, None)
    /\ Leave(u)
    /\ UNCHANGED <<issued, channels, rules, created, hurt, loose>>

\* The channel is in use or gone, or a statement fails.
DeleteRefused(u) ==
    /\ call[u].pc \in {"check", "remove"}
    /\ Leave(u)
    /\ UNCHANGED <<secrets, issued, file, channels, rules, created, hurt, loose>>

-----------------------------------------------------------------------------
(* Rules                                                                    *)

CreateRule(u, r, c) ==
    /\ rules[r] = None
    /\ \A v \in Callers : call[v].rule # r
    /\ Enter(u, [Idle EXCEPT !.kind = "rule", !.pc = "validate", !.chan = c, !.rule = r,
                             !.row = [channel |-> c, enabled |-> TRUE], !.new = TRUE])
    /\ UNCHANGED <<secrets, issued, file, channels, rules, created, hurt, loose>>

\* The row is read and patched: another channel, another enabled flag, or neither.
BeginUpdateRule(u, r, row) ==
    /\ rules[r] # None
    /\ Enter(u, [Idle EXCEPT !.kind = "rule", !.pc = "validate", !.chan = row.channel,
                             !.rule = r, !.row = row])
    /\ UNCHANGED <<secrets, issued, file, channels, rules, created, hurt, loose>>

\* Deviation: only a rule that is disabled has its channel looked up.
ValidateDisabled(u) ==
    LET c == call[u].row.channel IN
    /\ call[u].pc = "validate"
    /\ c # None /\ ~call[u].row.enabled => channels[c] # None
    /\ call' = [call EXCEPT ![u].pc = "save"]
    /\ UNCHANGED <<secrets, issued, file, channels, rules, created, hurt, loose>>

\* The channel a rule names exists, whatever the patch was.
ValidateRule(u) ==
    LET c == call[u].row.channel IN
    /\ call[u].pc = "validate"
    /\ c # None => channels[c] # None
    /\ call' = [call EXCEPT ![u].pc = "save"]
    /\ UNCHANGED <<secrets, issued, file, channels, rules, created, hurt, loose>>

\* An INSERT, or an UPDATE that leaves a rule deleted meanwhile deleted.
SaveRule(u, r) ==
    /\ call[u].pc = "save"
    /\ call[u].rule = r
    /\ rules' = IF call[u].new \/ rules[r] # None
                THEN [rules EXCEPT ![r] = call[u].row] ELSE rules
    /\ loose' = IF call[u].met THEN loose \cup {r} ELSE loose \ {r}
    /\ Leave(u)
    /\ UNCHANGED <<secrets, issued, file, channels, created, hurt>>

\* The channel does not exist, or a statement fails.
RuleRefused(u) ==
    /\ call[u].pc \in {"validate", "save"}
    /\ Leave(u)
    /\ UNCHANGED <<secrets, issued, file, channels, rules, created, hurt, loose>>

DeleteRule(u, r) ==
    /\ call[u].pc = "idle"
    /\ rules[r] # None
    /\ rules' = [rules EXCEPT ![r] = None]
    /\ loose' = loose \ {r}
    /\ UNCHANGED <<secrets, issued, file, channels, call, created, hurt>>

-----------------------------------------------------------------------------
\* The process dies and starts again on the file: a token whose save met another may
\* be missing, or one that was deleted back, and a rotation under way is half done.
Restart ==
    /\ secrets' = file
    /\ hurt' = hurt \cup {c \in Chans : /\ channels[c] # None
                                        /\ \/ file[channels[c]] # secrets[channels[c]]
                                           \/ \E u \in Callers : call[u].chan = c /\ call[u].rotate}
    /\ call' = [u \in Callers |-> Idle]
    /\ UNCHANGED <<issued, file, channels, rules, created, loose>>

CallerStep(u) ==
    \/ \E c \in Chans :
          \/ CreateChannel(u, c)
          \/ \E rotate \in BOOLEAN : BeginUpdate(u, c, rotate)
          \/ BeginDelete(u, c)
    \/ InsertChannel(u)
    \/ StoreToken(u) \/ DropToken(u) \/ WriteChannel(u) \/ ChannelFails(u)
    \/ CheckUnused(u) \/ RemoveChannel(u) \/ ForgetToken(u) \/ DeleteRefused(u)
    \/ \E r \in Rules :
          \/ \E c \in Chans \cup {None} : CreateRule(u, r, c)
          \/ \E row \in Rule : BeginUpdateRule(u, r, row)
          \/ SaveRule(u, r) \/ DeleteRule(u, r)
    \/ ValidateRule(u) \/ RuleRefused(u)

Next == (\E u \in Callers : CallerStep(u)) \/ Restart

Spec == Init /\ [][Next]_vars

-----------------------------------------------------------------------------
(* Properties                                                               *)

TypeOK ==
    /\ secrets \in [Refs -> {Token, None}]
    /\ issued \subseteq Refs
    /\ file \in [Refs -> {Token, None}]
    /\ channels \in [Chans -> Refs \cup {None}]
    /\ rules \in [Rules -> Rule \cup {None}]
    /\ call \in [Callers -> Call]
    /\ created \subseteq Chans
    /\ hurt \subseteq Chans
    /\ loose \subseteq Rules

\* A rotation of the channel's token that has dropped the old one.
Rotating(c) == \E u \in Callers : call[u].chan = c /\ call[u].rotate /\ call[u].pc = "write"

\* The row of a channel names a token the store has, through restarts too, except
\* during a rotation, after one that broke off or met another update or the deletion,
\* and after a restart with a token whose save had met another, until the next clean
\* rotation (UpdateChannel, persist).
ChannelHasToken ==
    \A c \in Chans \ hurt :
        channels[c] # None /\ ~Rotating(c) => secrets[channels[c]] = Token

\* An enabled rule never names a channel that is gone, through any sequence of
\* disabling, deleting and enabling again, unless its last write met the deletion
\* (DeleteChannel, validateRule).
NoDanglingChannel ==
    \A r \in Rules \ loose :
        rules[r] # None /\ rules[r].enabled /\ rules[r].channel # None
            => channels[rules[r].channel] # None
=============================================================================
