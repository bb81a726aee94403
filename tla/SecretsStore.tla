----------------------------- MODULE SecretsStore -----------------------------
(***************************************************************************)
(* The encrypted secrets file: one map in memory, written to disk whole    *)
(* after every change.                                                     *)
(*                                                                         *)
(* The lock covers the change and, later, the snapshot; encoding, writing  *)
(* the temporary file and renaming it happen outside of it, and every save *)
(* uses the same temporary name. Saves of concurrent requests therefore    *)
(* overlap, on the map's order and on the file itself. The file is also    *)
(* what survives: the server restarts from it, and the admin command, run  *)
(* while the server is stopped, rewrites it.                               *)
(*                                                                         *)
(* What is kept under a key is the number of the change that last set or   *)
(* removed it, 0 being a key never touched: a larger number is newer.      *)
(***************************************************************************)
EXTENDS Naturals

CONSTANTS
    Writers,    \* goroutines that change the store
    Refs,       \* secrets under a generated reference
    Names,      \* secrets under a fixed name: push token hashes, the password
    Admin,      \* the name of the admin password hash
    MaxWrites   \* bound on the changes made

Keys == Refs \cup Names
Snapshots == [Keys -> Nat]
Untouched == [k \in Keys |-> 0]

\* What a file may hold besides a snapshot; None is no file of that name.
CONSTANTS None, Empty, Torn

ASSUME SecretsAssumption ==
    /\ Admin \in Names
    /\ Names \cap Refs = {}
    /\ MaxWrites \in Nat
    /\ None \notin {Empty, Torn}
    /\ \A c \in {None, Empty, Torn} : c \notin Snapshots

Contents == Snapshots \cup {None, Empty, Torn}

VARIABLES
    proc,       \* the process running: none, the server or the admin command
    serving,    \* the server has its password and takes requests
    mem,        \* Store.secrets
    writes,     \* changes made so far
    writer,     \* the save each goroutine is in
    disk,       \* the file secrets.enc.json
    tmp,        \* the file secrets.enc.json.tmp
    acked,      \* history: the newest change of each key reported as saved
    mixed       \* history: saves have overlapped since the last that had the file to itself

vars == <<proc, serving, mem, writes, writer, disk, tmp, acked, mixed>>

-----------------------------------------------------------------------------
\* A save: what it writes, the change it is for, which name the file it opened
\* has by now, and whether it has overlapped no other.
Save == [pc: {"idle", "snapshot", "open", "write", "rename"},
         key: Keys, version: Nat, snap: Snapshots,
         file: {"tmp", "disk", "unlinked"}, alone: BOOLEAN]
Idle == [pc |-> "idle", key |-> Admin, version |-> 0, snap |-> Untouched,
         file |-> "unlinked", alone |-> TRUE]

AllIdle == \A w \in Writers : writer[w] = Idle
\* Saves between their snapshot and their end.
Saving == {w \in Writers : writer[w].pc \in {"open", "write", "rename"}}

Readable(c) == c \notin {Empty, Torn}

Init ==
    /\ proc = "none"
    /\ serving = FALSE
    /\ mem = Untouched
    /\ writes = 0
    /\ writer = [w \in Writers |-> Idle]
    /\ disk = None
    /\ tmp = None
    /\ acked = Untouched
    /\ mixed = FALSE

-----------------------------------------------------------------------------
(* Changes                                                                  *)

\* The map changes under the lock; the save follows.
Change(w, k) ==
    /\ writer[w].pc = "idle"
    /\ writes < MaxWrites
    /\ writes' = writes + 1
    /\ mem' = [mem EXCEPT ![k] = writes + 1]
    /\ writer' = [writer EXCEPT ![w] = [Idle EXCEPT !.pc = "snapshot", !.key = k,
                                                    !.version = writes + 1]]
    /\ UNCHANGED <<proc, disk, tmp, acked, mixed>>

\* A channel's or a Source's secret gets a reference nobody used before.
Put(w, k) == serving /\ k \in Refs /\ mem[k] = 0 /\ Change(w, k) /\ UNCHANGED serving

\* A push token is replaced: only its hash is kept.
rotateToken(w, k) == serving /\ k \in Names \ {Admin} /\ Change(w, k) /\ UNCHANGED serving

\* Removing a reference that is not there saves the map as well.
Delete(w, k) == serving /\ k \in Refs /\ Change(w, k) /\ UNCHANGED serving

\* The server's first start makes a password and saves it before it serves.
EnsureAdminPassword(w) ==
    /\ proc = "core"
    /\ ~serving
    /\ AllIdle
    /\ IF mem[Admin] # 0
       THEN /\ serving' = TRUE
            /\ UNCHANGED <<proc, mem, writes, writer, disk, tmp, acked, mixed>>
       ELSE Change(w, Admin) /\ UNCHANGED serving

RotateAdminPassword(w) ==
    /\ proc = "admin"
    /\ AllIdle
    /\ Change(w, Admin)
    /\ UNCHANGED serving

-----------------------------------------------------------------------------
(* persist                                                                  *)

\* The map is encoded under the read lock.
Snapshot(w) ==
    LET r == [writer[w] EXCEPT !.pc = "open", !.snap = mem, !.alone = (Saving = {})]
    IN  /\ writer[w].pc = "snapshot"
        /\ writer' = [v \in Writers |->
                        IF v = w THEN r
                        ELSE [writer[v] EXCEPT !.alone = @ /\ v \notin Saving]]
        /\ mixed' = (mixed \/ Saving # {})
        /\ UNCHANGED <<proc, serving, mem, writes, disk, tmp, acked>>

\* The temporary file is created, or emptied if it is there already.
Create(w) ==
    /\ writer[w].pc = "open"
    /\ tmp' = Empty
    /\ writer' = [writer EXCEPT ![w].pc = "write", ![w].file = "tmp"]
    /\ UNCHANGED <<proc, serving, mem, writes, disk, acked, mixed>>

\* Writing over what another save has written leaves the longer one's tail.
Over(c, snap) == IF c = Empty THEN {snap} ELSE {snap, Torn}

\* The file opened is written, whatever its name is by now.
Fill(w, asTmp, asDisk) ==
    /\ tmp' \in IF writer[w].file = "tmp" THEN asTmp ELSE {tmp}
    /\ disk' \in IF writer[w].file = "disk" THEN asDisk ELSE {disk}

\* Deviation: the caller hears of success before the rename.
AckEarly(w) ==
    /\ writer[w].pc = "write"
    /\ Fill(w, Over(tmp, writer[w].snap), Over(disk, writer[w].snap))
    /\ acked' = [acked EXCEPT ![writer[w].key] = writer[w].version]
    /\ writer' = [writer EXCEPT ![w].pc = "rename", ![w].file = "unlinked"]
    /\ UNCHANGED <<proc, serving, mem, writes, mixed>>

Write(w) ==
    /\ writer[w].pc = "write"
    /\ Fill(w, Over(tmp, writer[w].snap), Over(disk, writer[w].snap))
    /\ writer' = [writer EXCEPT ![w].pc = "rename", ![w].file = "unlinked"]
    /\ UNCHANGED <<proc, serving, mem, writes, acked, mixed>>

Newer(a, b) == IF a < b THEN b ELSE a

\* Where the goroutine goes when its save has ended: the admin command exits, the
\* server that was waiting for its password serves, or exits if it has none.
End(saved) ==
    /\ serving' = (proc = "core" /\ (serving \/ saved))
    /\ proc' = IF serving \/ (saved /\ proc = "core") THEN proc ELSE "none"

\* The rename puts whatever the temporary name stands for in place, and the
\* caller hears of success.
Rename(w) ==
    LET k == writer[w].key IN
    /\ writer[w].pc = "rename"
    /\ tmp # None
    /\ disk' = tmp
    /\ tmp' = None
    /\ writer' = [v \in Writers |->
                    IF v = w THEN Idle
                    ELSE [writer[v] EXCEPT !.file = CASE @ = "tmp"  -> "disk"
                                                      [] @ = "disk" -> "unlinked"
                                                      [] OTHER      -> @]]
    /\ acked' = [acked EXCEPT ![k] = Newer(@, writer[w].version)]
    /\ mixed' = (mixed /\ ~writer[w].alone)
    /\ End(TRUE)
    /\ UNCHANGED <<mem, writes>>

\* Deviation: the error of persist is dropped.
ErrorDropped(w) ==
    /\ writer[w].pc \in {"snapshot", "open", "rename"}
    /\ acked' = [acked EXCEPT ![writer[w].key] = writer[w].version]
    /\ writer' = [writer EXCEPT ![w] = Idle]
    /\ End(TRUE)
    /\ UNCHANGED <<mem, writes, disk, tmp, mixed>>

\* A file operation fails, the rename also because another save took the file
\* away: the caller hears of it, the map in memory stays changed.
PersistFails(w) ==
    /\ writer[w].pc \in {"snapshot", "open", "rename"}
    /\ writer' = [writer EXCEPT ![w] = Idle]
    /\ End(FALSE)
    /\ UNCHANGED <<mem, writes, disk, tmp, acked, mixed>>

\* The write stops halfway.
WriteFails(w) ==
    /\ writer[w].pc = "write"
    /\ Fill(w, {tmp, Torn}, {disk, Torn})
    /\ writer' = [writer EXCEPT ![w] = Idle]
    /\ End(FALSE)
    /\ UNCHANGED <<mem, writes, acked, mixed>>

-----------------------------------------------------------------------------
(* Processes                                                                *)

\* Deviation: a missing file is not told from a map.
OpenNothing(p) ==
    /\ proc = "none"
    /\ Readable(disk)
    /\ proc' = p
    /\ mem' = disk
    /\ acked' = IF mixed THEN disk ELSE acked
    /\ mixed' = FALSE
    /\ UNCHANGED <<serving, writes, writer, disk, tmp>>

\* The server or the admin command reads the file; one that cannot be decoded
\* stops both. After saves that overlapped, what the file holds is what is left.
Open(p) ==
    LET file == IF disk = None THEN Untouched ELSE disk IN
    /\ proc = "none"
    /\ Readable(disk)
    /\ proc' = p
    /\ mem' = file
    /\ acked' = IF mixed THEN file ELSE acked
    /\ mixed' = FALSE
    /\ UNCHANGED <<serving, writes, writer, disk, tmp>>

\* The process dies; a write under way is cut off.
Crash ==
    /\ proc # "none"
    /\ proc' = "none"
    /\ serving' = FALSE
    /\ writer' = [w \in Writers |-> Idle]
    /\ UNCHANGED <<mem, writes, disk, tmp, acked, mixed>>

WriterStep(w) ==
    \/ \E k \in Keys : Put(w, k) \/ rotateToken(w, k) \/ Delete(w, k)
    \/ EnsureAdminPassword(w) \/ RotateAdminPassword(w)
    \/ Snapshot(w) \/ Create(w) \/ Write(w) \/ Rename(w)
    \/ PersistFails(w) \/ WriteFails(w)

Next ==
    \/ \E w \in Writers : WriterStep(w)
    \/ \E p \in {"core", "admin"} : Open(p)
    \/ Crash

Spec == Init /\ [][Next]_vars

-----------------------------------------------------------------------------
(* Properties                                                               *)

TypeOK ==
    /\ proc \in {"none", "core", "admin"}
    /\ serving \in BOOLEAN
    /\ mem \in Snapshots
    /\ writes \in 0..MaxWrites
    /\ writer \in [Writers -> Save]
    /\ disk \in Contents
    /\ tmp \in Contents
    /\ acked \in Snapshots
    /\ mixed \in BOOLEAN

\* The version of a key in a file.
OnDisk(k) == IF disk = None THEN 0 ELSE disk[k]

\* Every change a caller was told is saved is in a file that can be read, or one
\* that is newer is, whenever the process dies: unless two saves have overlapped
\* since the last that had the file to itself (persist).
AcknowledgedIsDurable ==
    ~mixed => Readable(disk) /\ \A k \in Keys : OnDisk(k) >= acked[k]

\* The admin password is never lost to an overlap: it is saved before requests are
\* served or after they have stopped, so a file that can be read has the one the
\* owner was last shown, or one newer (EnsureAdminPassword, RotateAdminPassword).
AdminPasswordStays == Readable(disk) => OnDisk(Admin) >= acked[Admin]
=============================================================================
