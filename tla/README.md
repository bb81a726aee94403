# sre-kit in TLA+

Specifications of the Go core of sre-kit: what its goroutines, HTTP handlers,
adapter subprocesses, SQLite rows and its secrets file do to each other. The
modules are translated from `src/`; TLC checks them on small instances and TLAPS
proves the most important invariants for every value of the constants.

## 1. The system

One Go process (`cmd/server`) serves a REST/WebSocket API, stores everything in
SQLite through one connection, and runs adapters as subprocesses.

| Component | State | Operations | Talks to |
|---|---|---|---|
| Sources service (`internal/sources`) | `sources` table: config, enabled, last_status, last_seen_at | Create, Update/Enable/Disable, Delete, MarkSeen, List | secrets store (secret fields of a config), the OnChange hook |
| Adapter engine (`internal/adapterengine`) | `Scheduler.cancels`, one goroutine per pull source, the subprocess of the current pull | Schedule, Cancel, runLoop/invoke, Runner.RunOnce; Supervisor for stream adapters (not wired) | telemetry (ingest), sources (auto-disable, MarkSeen), alert router (pull outcome) |
| Composition root (`cmd/server/main.go`) | none of its own | reconcileSchedule (the OnChange hook), bootstrap, ReportPullOutcome | all |
| Telemetry (`internal/telemetry`) | `metrics`, `checks`, `events`, `metrics_rollup`, `ingestion_batches`, `maintenance_runs` | Ingest*, push batches, token rotation, maintenance, queries, stream | sources (MarkSeen), alert router, hub, secrets store (push tokens) |
| Alert router (`internal/alertrouter`) | `alerts`, `alert_rules`, `notification_channels`; in memory: pendingRules, sourceStatuses | EvaluateMetric/Check/SourceStatus, rule CRUD, channel CRUD | Telegram, hub, secrets store (bot tokens) |
| Secrets store (`internal/platform/secrets`) | a map in memory and the encrypted file | Open, Get, Put, PutNamed, Delete | sources, alert router, push, auth |
| Hub (`internal/platform/wshub`) | subscribers and their source ids | Register, Unregister, Subscribe, Unsubscribe, Publish | telemetry, alert router, browsers |
| Auth, projects | admin password hash (secrets store); `projects` table | login, rotate; CRUD | secrets store |
| Adapters (`adapters/*`), web frontend | none / client-side caches | print NDJSON lines / REST and WS client | the core |

How they interact. Calls are synchronous: an ingested line runs insert, MarkSeen,
rule evaluation (with a Telegram request) and hub fan-out on the goroutine of the
pull loop or push request it arrived on. The only callback is OnChange: sources
calls reconcileSchedule after a row is written, and the pull loop calls back into
sources when it auto-disables its own source. Shared state is the database (single
statements are atomic because there is one connection; nothing but maintenance uses
a transaction), two mutex-protected maps (`cancels`, the alert router's debounce
maps), the hub's map and the secrets map.

What is hard. Every service operation is a read, a computation and a write in
separate statements, so any two on the same row interleave (lost updates,
check-then-act). In-memory debounce state outlives or is outlived by the rows it
belongs to. Contexts are cancelled while an operation runs under them. A crash
separates any two statements and drops all memory. Adapters and Telegram may never
answer. `PROJECT.json` lists these hazards at their lines.

What makes each component correct:

- sources + scheduler: at most one live loop per source, reachable by Cancel; the
  schedule follows the rows; a cancelled loop stops writing and ends; a deleted
  source stays deleted; MarkSeen does not touch settings.
- alert router: one open alert per rule (and per source for connectivity), one
  notification per transition and in order; an alert opens only after its debounce;
  an unmatched evaluation leaves no open alert; no state for deleted rules; no rule
  with a missing channel; a channel's token exists.
- push: an acknowledged batch is stored until its records are past the retention, a
  batch is applied once, a "duplicate" answer means that it is stored.
- secrets store: an acknowledged write survives a restart; the admin password is
  never lost.
- channels and sources: the reference a row holds stands for what was last typed.
- maintenance: a roll-up never loses samples and never counts one twice; the row of a
  run tells what became of it.
- hub and page: no subscriber is left behind, a publisher always gets through, and a
  page that reconnects ends up subscribed to what it shows.

## 2. Modules

Each component has a module, an `MC` module with the model values TLC needs, and a run;
a `_proofs` module holds its theorems (Telemetry_proofs those of PushIngest and of
Maintenance). How the modules fit together:

- SourceLifecycle is the core: what starts, stops and calls everything else. AlertRules,
  Connectivity and PushIngest are what an ingested line or batch goes through.
- SourceLifecycle implements the abstract LoopSchedule, PushIngest the abstract BatchLog.
- Channels and ConfigSecrets see the secrets store as a map in memory and a file. A change
  of the map is one step; whether the file has it afterwards is left open, since that
  depends on the saves of others. SecretsStore models the saves themselves, and shows when
  the file has what was acknowledged.
- Stream is a composition by itself: browser page, handlers, hub and publishers.

History variables. Where the code gives a guarantee only as long as operations do not
meet (its read and its write are two statements), or as long as none breaks off, the module
has a history variable that records what happened, and the property excepts it. A property
with such an exception does not catch the race it excepts, which is the code's own; it says
that nothing else does the same harm, and, where the code puts it right, that it is right then.
What each of them covers:

| Exception | Enters | Leaves |
|---|---|---|
| `suspect` (SourceLifecycle) | a source two operations were at together, or whose reconcile was skipped | with an operation that meets nobody and reaches the hook, or a restart that schedules it |
| `overlapped` (AlertRules) | a rule two evaluations were at together, harmful or not | when an evaluation alone at the rule finds no open alert |
| `unsure` (AlertRules) | a rule two evaluations were at together, whose condition or debounce was changed, or which a contradicting value went past while its debounce was running or an evaluation was at it | when a contradicting value is told by an evaluation alone at it, with no outdated copy about, or with a restart |
| `overlapped`, `failed` (Connectivity) | evaluations that met; one that failed or a restart cut off | when an evaluation that meets none leaves the table as its report wants it |
| `hurt` (Channels) | a rotation that broke off or met an update or the deletion; a token a restart has lost | with a rotation that meets nobody, or the row |
| `loose` (Channels) | a rule written by a call that met the deletion of its channel | with the next write that meets none |
| `met`, `hurt` (ConfigSecrets) | an edit that was open while another of the source was being served, even if they touched different fields; one that broke off after removing a secret; one that wrote plaintext; a secret a restart has lost | with an edit that meets none and types every field, or the row |
| `abandoned` (PushIngest) | a key whose request went away without releasing it | when the key is forgotten |
| `expired` (PushIngest) | a record past the retention | never: it is past it for good |
| `unmarked` (Maintenance) | a committed run whose row could not be updated | never: the row stays wrong |
| `mixed` (SecretsStore) | saves that overlap | with a save that has the file to itself, or a restart, after which the file is what there is |
| `cut`, `late` (Maintenance) | an hour a cutoff divided; an hour a sample came to, or came to again, past the retention | never: the row stays wrong |

The exceptions of meeting (`met`, `overlapped`) are wider than they would have to be: they
count encounters that happen to do no harm.

Operators under a comment "Deviation" are plausible bugs, used to see that each property
can fail; no action uses them.

### SourceLifecycle and LoopSchedule (with MCSourceLifecycle, SourceLifecycle_proofs)

Composes the sources service, reconcileSchedule, the Scheduler and the Runner for any
number of sources. Every operation is split where another goroutine can run:

| In the code | In the model |
|---|---|
| `repo.Get` in Update, Delete, MarkSeen | BeginUpdate, BeginDelete, BeginSeen (and ReadValid, AutoDisable, Report when the pull loop calls); the copy is kept in `call[p]` |
| `repo.Update`, `repo.Delete` | WriteRow, DeleteRow, WriteFails |
| `notifyChange` / reconcileSchedule | NotifyCancel, NotifySchedule, NotifyPassive, NotifySkip |
| runLoop, invoke, RunOnce of one pull loop | `run[j]`: Spawn, ReadValid, ReadAlert, IngestFails, ReadInvalid, AutoDisable, Exit, Hang, Killed, Report, StaySilent, EndLoop |
| `jobCtx` | `jobs[j].cancelled`; the loop's copy of source and config is `jobs[j]` |
| process death, then main | Restart |

A row is its config and enabled flag; last_status and last_seen_at never influence
scheduling and are left to the Connectivity module. A pull's result is abstracted to
what invoke's switch tells apart. `suspect` is a history variable: the sources whose
schedule an overlap of operations, or a skipped reconcile, may have put out of step.

`LoopSchedule` says what all of this promises of a source, without callers, pulls,
contexts or the identities of loops: its row, the config its loop pulls with (if it has
a loop), the calls still owed to the schedule and the rows a MarkSeen is still to write.
A loop starts, changes its config or ends only by such a call or by a restart.
SourceLifecycle implements it (`ScheduleSpec`) under this mapping:

| LoopSchedule | SourceLifecycle |
|---|---|
| `life`, `rows` | the same |
| `loop` | the configs of the source's loops whose context is not cancelled (LiveConfigs) |
| `asked` | what each operation at its hook will ask for: a config, or no loop (Owed) |
| `held` | the copies of the MarkSeens that have read and not written (Held) |
| Create, Update, Delete | Create, WriteRow of an update, DeleteRow |
| Read, Mark, GiveUp | the reads of a MarkSeen, its WriteRow, its WriteFails |
| Reconcile; Skip | NotifySchedule, NotifyCancel, NotifyPassive; NotifySkip |
| Restart | Restart |
| no step | the reads of an update or a deletion, their WriteFails, every other step of a pull loop |

The mapping reads the loops themselves and not `cancels`, so the refinement is about what
runs and not about what the Scheduler believes to run.

Bounds: `Jobs` is the number of loops alive at once (two: the old and the new one; a
third Schedule waits for a cancelled loop to end), `MaxInvalid` replaces 10 by 1 or 2.

| Run | Question | Instance |
|---|---|---|
| lifecycle_callers | do Schedule and Cancel keep one reachable loop per source, and does the schedule follow the row when operations do not overlap? | 2 callers, 2 loops, 1 pull source, 1 config, reconcile may be skipped |
| lifecycle_late | does the schedule follow a change of config, what do late writes do after a delete or a cancel, and do rows and loops change only as LoopSchedule allows? | 1 caller, 2 loops, a pull source or a passive one, 2 configs, reconcile may be skipped |
| lifecycle_live | does a cancelled loop end? | 1 caller, 2 loops, 2 invalid lines, with fairness |
| lifecycle_auto_disable | is the pull that disables its own source reported? The documentation says so; it is not (section 5) | 1 caller, 2 loops, 2 invalid lines, with fairness |

Two callers, or a caller and the loop, already give every pair of overlapping
operations; a third would only repeat pairs. One source suffices for everything but
the passive adapter, since operations on different sources share no state; where there
are two, `OneSource` (MCSourceLifecycle) lets either of them be created, and not both.

Fairness: each step of an operation and of a pull loop is weakly fair (a runnable
goroutine runs). Two strong-fairness conditions stand for facts of the runtime: a
cancelled context kills the subprocess, so its output ends (`exec.CommandContext`),
and `select` picks among ready cases at random, so a loop that sees a done context
again and again takes that case. Callers and adapters' output are not fair.

Proved (SourceLifecycle_proofs), for any sources, callers, configs and loops:
`TypeOK`, `OneLiveLoop`, `InSyncUnlessSuspect`, `DeletedStaysDeleted`,
`CancelledLoopIsSilent` and the refinement `ScheduleSpec`. `OneLiveLoop` is inductive
with typing. `InSyncUnlessSuspect` is not: it needs IInv, which adds that a loop is inside a service call only where it
waits for one (CallShape), that overlapping operations know it and leave their source
suspect (Overlaps), that the copy a MarkSeen or a hook carries is then still the row
(Copies), and that the schedule lags only between a write and its hook (Synced). The
only assumption is `SourcesAssumption` on the constants. The refinement is proved step
by step from the same IInv: NextForms sorts the steps, `OneLiveLoop` tells the live
configs from the entry before and after each (EntriesTell), and OwedFacts and HeldFacts
follow the one process that moves.

### AlertRules (with MCAlertRules, AlertRules_proofs)

The rules on one target of one source (a metric or a check name), the alerts they open,
and the debounce state in memory. Rules of different targets share nothing.

| In the code | In the model |
|---|---|
| `rules.List` in EvaluateMetric/EvaluateCheck | Begin: the copies are `eval[e].todo`; ListFails |
| the loop over the rules, EvaluateMetricCondition/EvaluateCheckCondition | Take: in the order of ids; a malformed threshold ends the evaluation |
| applyRuleResult, value matches | Debounce (under the mutex), LookOpen (FindOpenByRule), Fire (the INSERT), Tell (publish and notify) |
| applyRuleResult, value does not match | Undo (under the mutex), SeekOpen (FindOpenByRule), Resolve (the UPDATE), Tell |
| an error of any statement | Fail: the ingest drops it, and the rules after this one are not told |
| CreateRule, UpdateRule, DeleteRule | CreateRule; BeginUpdate and WriteUpdate or UpdateFails; DeleteRow and DropDebounce |
| `pendingRules`, a restart | `pending`, Restart |

A condition with its threshold is the set of values it holds of, or `Malformed`. The
message, the severity and the channel are left out; so is whether the notification is
delivered, since notify drops every error.

History. `lastBad` is when a value last contradicted a rule, whether the rule was told or
not: an evaluation that passes over a disabled rule, that ends before a rule (at a malformed
threshold, a failed statement or with the process) or that cannot list the rules says
nothing to it, and the debounce of it, if one is running, runs on. Such a rule is `unsure`;
one whose debounce was not running is not, and `FiresAfterDebounce` holds of it from that
value on. `overlapped` holds the rules two evaluations were at together.

| Run | Question | Instance |
|---|---|---|
| rules | can a restart, a failed statement, an update or a deletion duplicate an alert, make a notification untrue, or let an alert open too early? | 2 rules, 2 evaluators, 1 administrator, 2 alerts, debounce 1, clock to 2 |

Bounds: `MaxTime` 2 lets a debounce of 1 pass and start again; two alerts are what a
duplicate takes; two evaluators are what an encounter takes. Rules influence each other
only in that an evaluation may end at the first before it gets to the second. The
constraint `Bound` of MCAlertRules therefore splits the run: with one rule created,
evaluations, updates and the deletion overlap as they like; with both, evaluations come one
after another, by either evaluator, an alert is left to open, and administrators do nothing
(what they did to the first rule before the second was created stays done). Two rules with
everything overlapping would take longer than a run may; the theorems cover it.

Proved (AlertRules_proofs), for any rules, evaluators, administrators, conditions,
debounces and times: `TypeOK`, `OneOpenUnlessOverlap`, `TellsTheTruth` and
`FiresAfterDebounce`. None but the first is inductive. IInv adds that a copy of a rule
that is not `unsure` agrees with its row (Copies), that `overlapped` and `unsure` record
every encounter while it lasts (Exclusive), that what FindOpenByRule returned still holds
when it is acted upon (Chosen, LooksHold), and that a debounce started after the last
contradicting value and has passed when an alert is about to open (Debounced). That
`overlapped` and `unsure` are taken back is what makes this delicate: Settled says of a
step that forgets an encounter that the rule is then sound, Dated of one that makes a rule
sure again that its debounce is. The only assumption is `RulesAssumption` on the constants.

### Connectivity (with MCConnectivity, Connectivity_proofs)

One source: its `last_status`, and the alert without a rule that the alert router opens
when the source cannot be reached. A pull loop and push requests report at once.

| In the code | In the model |
|---|---|
| IngestMetric/Check/Event, sourceStatusForCheck | Ingest: a critical check is "error", anything else "ok" |
| ReportPullOutcome; a cancelled context | Outcome, which marks the source unless the outcome is "ok" and lines were emitted; Cancelled |
| MarkSeen | Mark; a failure is dropped |
| EvaluateSourceStatus: the time is read, then the mutex taken | Enter, CountReport |
| FindOpenSystemAlert and what follows | FindInOrder, FindWork, then Fire or Resolve; Fail |
| `sourceStatuses`, a restart | `memo`, Restart |

History: `verdict` is the last report counted, `failures` the reports in a row as they
really were (a restart does not reset it), `overlapped` and `failed` the exceptions.

| Run | Question | Instance |
|---|---|---|
| connectivity | with reports from two sides, failing statements and restarts: is there one alert, is it never early, and does the table agree with the last report once reports are quiet? | 1 pull loop, 1 push request, 2 alerts, threshold 2, window 2, clock to 3 |

The code's threshold of 3 and window of 5 minutes become 2 and 2: enough for either to be
reached first, and for a count to start again. Two reporters give every pair of
evaluations, two alerts what a duplicate takes.

Proved, for any reporters, thresholds, windows and times: all four properties. IInv adds
that evaluations which have not met are one at a time (Exclusive), that what
FindOpenSystemAlert returned still holds (Looked), that an evaluation past the mutex is
the one of `verdict` (Latest), that the count in memory never runs ahead of the reports,
neither in number nor in age (Behind: it is theirs, or what a restart left of it), and
that an evaluation about to alert has seen enough (Ready). From `ConnectivityAssumption`.

### PushIngest and BatchLog (with MCPushIngest, Telemetry_proofs)

Pushed batches of one source, with idempotency keys.

| In the code | In the model |
|---|---|
| authorize; the source is read, the body decoded | Authorize; Lookup, or Refuse |
| Reserve (`INSERT OR IGNORE`, RowsAffected) | Reserve, Duplicate |
| the loop over the records | Insert (one that is there already is ignored), InsertFails; Effects for MarkSeen, rules and fan-out |
| Release, whose error is dropped | Release, ReleaseFails |
| `r.Context()` of a client that goes away | Disconnect: no statement after it succeeds |
| the maintenance's one transaction: records by `ts`, keys by `received_at`; a restart | Prune; Restart |

Wrong tokens never get past authorize, so they are not requests of the model; the
rotation of a token is a write of SecretsStore.

`BatchLog` says what a client may rely on: a batch is free, held, applied or stuck; only
a held batch stores records, and it is applied only when all of them are stored or past
their retention. Records expire whatever has become of their batch.

The maintenance deletes records by the time their sender gave them, which may be long ago
(a backfill), and forgets a key by the time it was received. So records of an accepted batch,
or of one in hand, can go while the key stays, and a retry is then answered as a duplicate
with nothing stored. `expired` are the records this has happened to or might have: Prune
may take any, whatever the state of their batch. They are the only ones that
`AcceptedIsStored`, `DuplicateIsStored` and BatchLog allow to be missing.

| Run | Question | Instance |
|---|---|---|
| push | do retries, disconnects, failures and restarts ever store one batch side by side, answer "accepted" or "duplicate" for what is not stored, or break BatchLog? | 3 requests, 2 keys, batches of 2 records and 1, with a record in common |

Three requests are two that compete for a key and one under another key; a batch of two
is the shortest that can be half stored.

"Duplicate" is answered also while the first request is still at work, or after it was
cut off with its key reserved: `DuplicateIsStored` excepts exactly these two.

Proved, for any handlers, keys, records and batches: typing, `OneHolder`, `AcceptedIsStored`,
`DuplicateIsStored` and the refinement `LogSpec` (every step of PushIngest is a step of
BatchLog or none). IInv adds that a holder's key is reserved and the records it is done
with are stored or expired (HoldersReserve), that holders of one key are the same (Alone), and that
every reservation has a reason (Classified). From `PushAssumption`. The proofs
about both telemetry modules, this one and Maintenance, are in Telemetry_proofs.

### SecretsStore (with MCSecretsStore, SecretsStore_proofs)

The map of secrets and its file. A value is the number of the change that made it, so
that "newer" is a comparison.

| In the code | In the model |
|---|---|
| Put, PutNamed, Delete: the map changes under the lock | Put, rotateToken, Delete; EnsureAdminPassword, RotateAdminPassword |
| persist: RLock, snapshot, RUnlock | Snapshot |
| os.WriteFile of the `.tmp` file: create or truncate, then write | Create, Write, WriteFails |
| os.Rename, the return to the caller | Rename, PersistFails |
| Open by the server or by the admin command; the process dies | Open, Crash |

All saves use one temporary name. A file that is open follows its inode: after another
save's rename it is the live file itself (`file = "disk"`), after a second one it has no
name (`"unlinked"`); two saves in one file leave either or a mixture (`Torn`). A file that
cannot be decoded stops the process from starting, as Open does in the code. Encryption
is left out: it changes neither what is written nor when.

| Run | Question | Instance |
|---|---|---|
| secrets | is what was acknowledged in the file, whenever the process dies, and does the admin password survive even overlapping saves? | 3 writers, a reference, a token name and the password, 5 changes |

Three writers are needed: two to overlap and one that starts between the rename of the
first and of the second. Five changes let saves overlap and one follow them.

`mixed` is the exception: saves have overlapped and none has had the file to itself
since. Then an acknowledged secret may be missing from the file (section 5). The admin
password has no exception, since the server saves it before it serves and the admin
command is the only goroutine of its process.

Proved, for any writers, keys and number of changes: typing, `AcknowledgedIsDurable` and
`AdminPasswordStays`. IInv says that versions are only ever made by changes (OnlyMade),
that outside of serving one goroutine saves at a time (OneAtATime), that a save without
overlap has the temporary file to itself (Alone), that memory is never behind what was
acknowledged (MemIsNewest), that no request changes the password (NoPasswordInRequests),
and that every snapshot, and the temporary file, holds the password at least as new as
acknowledged (PasswordInSaves). From `SecretsAssumption`.

### Channels (with MCChannels, Channels_proofs)

Notification channels, the tokens they own and the rules that name them.

| In the code | In the model |
|---|---|
| CreateChannel | CreateChannel (the token), InsertChannel (the row), ChannelFails |
| UpdateChannel: Get, Put, Delete of the old token, UPDATE | BeginUpdate, StoreToken, DropToken, WriteChannel, ChannelFails |
| DeleteChannel: Get, ListEnabledByChannel, DELETE, Delete of the token | BeginDelete, CheckUnused, RemoveChannel, ForgetToken, DeleteRefused |
| CreateRule, UpdateRule with validateRule; DeleteRule | CreateRule, BeginUpdateRule, ValidateRule, SaveRule, RuleRefused; DeleteRule |
| Put, Delete and the persist in them | Save: the map in memory, and perhaps the file |
| a restart: Open reads the file | Restart |

`file` is what a restart finds. A change of the map is in it when its call returns, unless
another save overlapped this one and renamed an older map over it, or this one failed. So
Save lets the file be the map of now or stay what it was; a change that reached the file
and was then overwritten by an older map counts as one that never did, since nobody looks at
the file in between, and a crash in between ends the other save. The next save that goes by
undisturbed brings everything into the file again. A file that two saves have mixed up, which
cannot be decoded, stops the program from starting (SecretsStore) and has no restart here.

History: `hurt` holds the channels whose last rotation broke off or met an update or the
deletion, or whose token was not in the file when the process restarted; `loose` the rules
whose last write met the deletion of their channel.

| Run | Question | Instance |
|---|---|---|
| channels | can calls one after another, failures or overlaps of harmless kinds leave a row without its token, or an enabled rule without its channel? | 2 callers, 2 channels, 1 rule, 3 references |

Two callers give every pair of calls; two channels let a rule change from one to the
other; three references let both have a token and one be rotated.

Proved, for any callers, channels, rules and references: all three properties. IInv says
what a call at each point holds (Shapes, Creating), that calls which met know it (Meets),
that a reference belongs to one channel (Owned) and a fresh one to its call alone
(Private), that a deletion removes only its own token (Removed), that a row read by a
call that met nobody is still the row (Steady), and that a channel checked to be unused
still is (Unused, Validated). From `ChannelsAssumption`.

Channels and Sources keep their secrets in one store. See "One store, two owners" below.

### ConfigSecrets (with MCConfigSecrets, ConfigSecrets_proofs)

The secret fields of a source's configuration, from the form to the adapter.

| In the code | In the model |
|---|---|
| the edit form, loaded with references, sent back whole | OpenForm, Submit |
| Create; Enable, Disable and MarkSeen, which write the row they read | CreateInProject; BeginSettings |
| Update: Get; resolveSecrets field by field in map order, or not at all where the schema is not found; UPDATE | Get; KeepField, StoreField, Resolved, or SchemaFails; WriteRow, Gone, Fails |
| Delete; a restart | Delete; Restart |
| ResolveConfig, when the source is scheduled | the operator ResolveConfig |

The secrets store and its file are those of Channels; Replace is a Put and a Delete, so the
file may have both, the first or neither. Where the lookup of the adapter's schema fails
(resolveSecrets then takes the config as it came), SchemaFails sends the edit on with its
texts, the row holds them as they are, and ResolveConfig fails on them; a later edit finds
the text as what the field had, and replaces it by a reference.

`typed` remembers what was last typed into each field; `hurt` the sources whose last edit
met another being served, broke off or wrote a text, or whose secret was not in the file
when the process restarted.

| Run | Question | Instance |
|---|---|---|
| config_secrets | does the adapter get what was last typed into each field, and never a reference, an older secret or nothing? | 2 users, 1 source, 2 fields, 3 references, 2 texts |

Two fields let an edit break off between them, two users give every pair of edits; three
references are two of a row and one more. The constraint `Bound` of MCConfigSecrets splits
the run: edits (and forms) one after another have all of this; edits that overlap have one
field, the other left empty, and are followed while a reference is left.

Proved, for any users, sources, fields, references and texts: typing and
`AdapterGetsWhatWasTyped`. The latter is far from inductive: a step of an edit changes
rows and secrets that other edits hold copies of. IInv adds what an edit at each point
holds (Shapes), that edits of one source which meet know it (Meets), that a reference
belongs to one field of one source (Owned: removing a superseded secret then hurts nobody
else), that a reference sent back by an edit that met nobody is still the one in the row
(Kept), that a field already resolved stands for what was typed (Told), and that the row of
a source that is not `hurt` holds no text (Wrapped). From
`ConfigSecretsAssumption`: a text is not a reference, since references are random UUIDs
and a text that had the form of one would have to be guessed.

**One store, two owners.** Channels and ConfigSecrets are each a specification of their
own, but the program keeps bot tokens and config secrets in the same map. Both proof
modules therefore also treat a `SharedSpec`, in which every step is one of the module's
or one of the rest of the program (`Elsewhere`): it may generate references, and store,
replace and remove secrets, but none that the module's rows and calls name. It may leave
any map in the file, an older one too. Under it `ChannelHasToken` and
`AdapterGetsWhatWasTyped` still hold (`SharedStoreIsSafe`, twice): what others' saves do to
the file is felt at a restart, and then the owner is `hurt`. And each module is such a rest
to the other: a reference generated elsewhere is never named by it, and its secret is
changed by a restart only, which takes it from the file (`OthersStay`, twice). A restart is
one step of both. So the names of the two stay disjoint, each keeps to what the other
assumes, and the theorems hold of them together; this last step, from the four theorems to
their conjunction, is made here and not by the prover, because the two modules do not share
their variables' types (Channels sees of a stored text only that it is there, its `Token`).

### Maintenance (with MCMaintenance, Telemetry_proofs)

Run: the roll-up of old samples into hours, their deletion, and the row of the run.

| In the code | In the model |
|---|---|
| the row "running" | Begin |
| BeginTx, roll-up, deletions, commit: one transaction on the only connection | Commit, RollBack, BeginTxFails |
| the row "ok", or "error" in the deferred function | MarkOk, MarkOkFails, MarkError; GiveUp |
| samples that arrive meanwhile, with a time stamp of their sender, at most five minutes ahead | Arrive, with `Ahead` |

An hour's row is the set of samples it is computed from; its average and extremes are
functions of that set. A sample that is sent again while the table has it is ignored; one
that was deleted is stored again, under the time stamp it had, and its hour is then `late`:
it is in the hour's row and in the table, and the next run replaces the row. Pruning checks and events is the same DELETE without a roll-up.
What Maintenance and PushIngest would both call by one name carries an M here (MInit,
MNext, MSpec, MTypeOK), since one proof module extends both.

| Run | Question | Instance |
|---|---|---|
| maintenance | through failing and dying runs and late samples: is every deleted sample in its hour's row, none counted twice (but for hours that are `cut` or `late`), and does the row of a run tell what happened? | 3 samples, hours of 2, retention 2, roll-ups kept 4, time stamps up to 1 ahead, clock to 7, 2 runs |

Hours of 2 let a cutoff fall inside one; the clock passes both retentions; two runs are
what it takes to replace a row. No run's bound cuts off an hour: `Hours` has one for every
time stamp. `cut` and `late` are the hours in which the code does
lose samples (section 5).

Proved, for any samples, lengths and number of runs: all four properties. RollupInv says that
a sample is in the hour its time stamp is in (Placed), that the run under way started in
the past (Started), that an hour which is neither `cut` nor `late` is past the retention as a whole once
a sample of it was deleted (Closed), and which row the run under way writes (RowOfRun). From
`MaintenanceAssumption`.

### Stream (with MCStream, Stream_proofs)

Live frames: a browser page, the handlers of its connections, the hub and publishers.

| In the code | In the model |
|---|---|
| ws-stream-store.ts: subscribe, ensureConnected, the open, error and close listeners, scheduleReconnect | Subscribe, Unsubscribe, EnsureConnected, Opened, Errored, Closed, TimerFires |
| stream: accept, Register, the read loop, Unregister | Accept, Register, Read, Apply, ReadFails, Unregister |
| Hub.Publish under RLock, writes with a deadline of five seconds | Publish, RLock, SendFrame, SendTimesOut, RUnlock |
| `sync.RWMutex`: a waiting writer keeps new readers out | Lock, Waiting |
| the network, a page that does not read | Lose, Stall |

| Run | Question | Instance |
|---|---|---|
| stream | is there one socket whatever order close events and timers come in, does a frame go only to who is subscribed then, does Publish end, and do page and hub end up in step? | 2 sources, 2 publishers, 2 sockets, 2 changes of what is shown |

The second socket is the one a reconnect opens; it is not lost and does not stall, so
that "when connections stop changing" happens within the bound. Two publishers and two
sockets make a reader wait for a writer that waits for a reader.

Fairness: browser events and timers and the server's goroutines are weakly fair, and a
lost connection is noticed in the end (by TCP, or by a write that times out). Nobody has
to show, publish, stall or lose anything. `PublishEnds` and `Converges` rest on it.

Proved, for any sources, publishers, sockets and changes: typing, `OneLiveSocket` and
`SentToSubscribers`. IInv adds that no source has more views than were opened (Counted)
and that everyone still to be sent a frame is subscribed (Subscribed), which the lock
keeps true while writes are slow. From `StreamAssumption`.

## 3. What could follow

- The Supervisor of stream adapters, once a command constructs one: restart with
  backoff, heartbeats, Stop against a run under way.
- A module that instantiates Channels and ConfigSecrets on one store, so that the last
  step of "One store, two owners" is the prover's too.
- An abstract alert, as the reader of the notifications sees it, that AlertRules and
  Connectivity implement as long as no evaluations overlap.

## 4. What is proved, what is only checked, what is not modelled

The theorems are listed in `PROJECT.json`; each states a property that a run also checks,
but for the two `OthersStay`, which are about a specification that is only reasoned about.
They hold for every value of the constants that satisfies the module's named assumption,
and rest on nothing else but the theorems of the library on finite sets and sequences.
Every proof has the same course: an inductive invariant (`IInv`; `RollupInv` for
Maintenance), shown to hold initially and to be kept by each action in a lemma of its own,
and the properties as consequences; the two refinements add that every initial state and
every step under the invariant maps to one of the abstract specification, or to no step.

Only model-checked:

- `CancelledLoopEnds`, `PublishEnds` and `Converges`: liveness under fairness is outside
  the prover's reach, and so is ENABLED (`AutoDisableIsReported` is
  refuted and has no theorem);
- whatever is induction over data. No module has a recursive definition.

Not modelled, and why:

- the Supervisor: no command constructs one, `cmd/server` logs that stream scheduling is
  not wired;
- `Scheduler.Shutdown`: not called by the server;
- manifests, discovery, the contract schema, HTTP decoding: parsing without state; models
  see the verdicts;
- the adapters: an environment that prints lines, exits or hangs;
- projects: single statements; the foreign key that refuses the deletion of a project in
  use is SQLite's;
- sessions: one map under one mutex, every operation a single step;
- migrations, configuration, the HTTP server: start-up code;
- the web frontend but for its stream store: presentation.

What the models take from the environment. SQLite runs one statement at a time over one
connection, so a statement is a step and a transaction is one too. A rename is atomic and
a write is not. Timers have no stale ticks (Go 1.23 and later). A crash loses memory and
keeps every committed statement and every renamed file.

## 5. Where the documentation and the code differ

One difference is a run of its own, lifecycle_auto_disable, which TLC refutes: "10
consecutive invalid lines (default) auto-disables the source and raises an 'adapter
misbehaving' Alert" (`docs/SPEC.md:256`), but disabling cancels the context that decides
whether the outcome is reported, so none is.

The most costly of the others is the roll-up's. The documentation keeps hourly roll-ups
for 13 months (`docs/SPEC.md:233`), but each run's cutoff falls somewhere inside an hour:
the samples before it are rolled up and deleted, and the next run, a day later, replaces
the row by the roll-up of the rest alone. The first part of that hour is then in no
table. Dropping `cut` from `RollupHoldsPruned` makes TLC show it in twelve steps.

The others are visible as the exceptions of the properties, or nothing in the code works
against them:

| The documentation or the intent | The code | Where it shows |
|---|---|---|
| pull sources are kept in sync with source state (`cmd/server/main.go:192`) | the hooks of two overlapping updates may run in the opposite order of their writes | `suspect` |
| MarkSeen does not change config or enabled (`internal/sources/application/service.go:264`) | it writes the whole row it read, over an update in between | `suspect`, `hurt` |
| one notification, no repeats while unresolved (`docs/SPEC.md:402`) | two concurrent evaluations both find no open alert and both open one | `overlapped` |
| a pending rule has been true continuously (`internal/alertrouter/application/service.go:33`) | a debounce runs on through a value that contradicts it where the rule is disabled meanwhile, or the evaluation ends before the rule: at an earlier threshold that does not parse, at a failed statement, or because the rules cannot be listed | `unsure` |
| every enabled rule is checked (`internal/alertrouter/application/service.go:94`) | the first threshold that does not parse ends the loop | Take |
| emitted lines give the finer status (`internal/adapterengine/application/ports.go:39`) | the outcome "ok" of a pull resolves the alert its own critical check has opened | Outcome, CountReport |
| a subscriber must not block, since Publish calls it on the publisher's goroutine, and the wrapper of a connection buffers through a channel of its own (`internal/platform/wshub/hub.go:18`) | the wrapper has no channel: Send writes to the connection and blocks for up to five seconds, and Publish holds the read lock meanwhile (`internal/telemetry/interfaces/http/stream.go:28`) | SendFrame, SendTimesOut |
| config_json only ever stores a reference, also where the adapter is not installed yet (`internal/sources/application/service.go:72`, `:83`) | where the adapter's schema is not found the secrets are stored as they were typed, and the source is not scheduled later | SchemaFails, `hurt` |
| a duplicate is of a batch that was applied (`docs/SPEC.md:294`) | records go by their sender's time and keys by the time of receipt, so a retry of a backfill is answered as a duplicate after its records were deleted | `expired` |
| a secret is stored when Put returns | an older snapshot may be renamed over a newer one, and two saves may share the temporary file | `mixed` |
| hourly roll-ups are kept 13 months (`docs/SPEC.md:233`) | an hour a cutoff falls into is rolled up twice, and the second row, of the rest of its samples, replaces the first | `cut`, `late` |
| a token is rotated as a whole | the old token is removed before the row that names it is written | `hurt` of Channels |
| secrets of a source are its own | Delete leaves them in the store | Delete of ConfigSecrets |
| an edit changes the fields typed over | a field cleared to the empty string is stored as such, ResolveConfig fails on it and the source is not scheduled | ResolveConfig |
| hours are UTC (`internal/telemetry/infrastructure/maintenance.go:14`) | pushed time stamps keep their offset in the text the hour is cut from | not modelled: times are numbers |
| a run ends as ok or error | a run whose BeginTx fails, or that a crash cuts off, stays "running"; a committed run whose last UPDATE fails is reported as "error" | `unmarked`, GiveUp |
| a pull has a timeout (`docs/SPEC.md:288`) | its context has no deadline | Hang |
| - | the Telegram client has no request timeout (`internal/notify/telegram/client.go:26`) | - |
| - | an evaluation under way when a rule is deleted may put the rule's debounce entry back (`internal/alertrouter/application/service.go:401`); it is never read again | DropDebounce |
| the snapshot and the frames after it are the whole | a frame between the page's snapshot and the hub's Subscribe is in neither (`web/src/shared/lib/ws-stream-store.ts:76`) | not modelled: frames have no content |
