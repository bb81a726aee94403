------------------------ MODULE SecretsStore_proofs ------------------------
(***************************************************************************)
(* Safety theorems about SecretsStore, for any goroutines, secrets and     *)
(* number of changes.                                                      *)
(***************************************************************************)
EXTENDS SecretsStore, TLAPS

USE SecretsAssumption

\* The map and every file only hold changes that were made.
Made(s) == \A k \in Keys : s[k] <= writes
OnlyMade ==
    /\ Made(mem)
    /\ disk \in Snapshots => Made(disk)
    /\ tmp \in Snapshots => Made(tmp)
    /\ \A w \in Writers : Made(writer[w].snap)

\* Before the server serves, and in the admin command, one goroutine saves; without a
\* process none does.
OneAtATime ==
    /\ serving => proc = "core"
    /\ proc = "none" => \A w \in Writers : writer[w].pc = "idle"
    /\ ~serving => \A v, w \in Writers :
                      writer[v].pc # "idle" /\ writer[w].pc # "idle" => v = w

\* Requests never change the password.
NoPasswordInRequests ==
    serving => \A w \in Writers : writer[w].pc # "idle" => writer[w].key # Admin

\* The map is as new as what was reported saved, and as what is being saved.
MemIsNewest ==
    /\ proc # "none" => \A k \in Keys : acked[k] <= mem[k]
    /\ \A w \in Writers : writer[w].pc # "idle" => writer[w].version <= mem[writer[w].key]

\* A save that overlaps no other has the temporary file to itself, and what it writes
\* is as new as what was reported saved.
AloneSave(w) ==
    /\ Saving = {w}
    /\ \/ writer[w].pc = "open"
       \/ writer[w].pc = "write" /\ writer[w].file = "tmp" /\ tmp = Empty
       \/ writer[w].pc = "rename" /\ tmp = writer[w].snap
    /\ writer[w].version <= writer[w].snap[writer[w].key]
    /\ \A k \in Keys : acked[k] <= writer[w].snap[k]
Alone ==
    /\ \A w \in Saving : writer[w].alone => AloneSave(w)
    /\ \A w \in Saving : ~mixed \/ ~serving => writer[w].alone

\* Whatever is written to a file has the password last reported, or one newer.
PasswordInSaves ==
    /\ \A w \in Saving : acked[Admin] <= writer[w].snap[Admin]
    /\ (\E w \in Writers : writer[w].pc \in {"write", "rename"}) /\ tmp \in Snapshots
          => acked[Admin] <= tmp[Admin]

IInv ==
    /\ TypeOK /\ OnlyMade /\ OneAtATime /\ NoPasswordInRequests /\ MemIsNewest
    /\ Alone /\ PasswordInSaves /\ AcknowledgedIsDurable /\ AdminPasswordStays

-----------------------------------------------------------------------------
LEMMA IdleIsSave ==
    /\ Idle \in Save /\ Idle.snap = Untouched
    /\ Untouched \in Snapshots /\ Admin \in Keys
<1>1. Untouched \in Snapshots /\ Admin \in Keys
  BY DEF Untouched, Snapshots, Keys
<1> QED
  BY <1>1 DEF Idle, Save

\* A goroutine's save has the fields of one.
LEMMA Fields ==
    ASSUME TypeOK, NEW w \in Writers
    PROVE  /\ writer[w] \in Save
           /\ writer[w].pc \in {"idle", "snapshot", "open", "write", "rename"}
           /\ writer[w].key \in Keys /\ writer[w].version \in Nat
           /\ writer[w].snap \in Snapshots
           /\ writer[w].file \in {"tmp", "disk", "unlinked"} /\ writer[w].alone \in BOOLEAN
BY DEF TypeOK, Save

LEMMA InitHolds == Init => IInv
<1> SUFFICES ASSUME Init PROVE IInv
  OBVIOUS
<1>1. TypeOK
  <2>1. writer \in [Writers -> Save]
    BY IdleIsSave DEF Init
  <2>2. mem \in Snapshots /\ acked \in Snapshots /\ writes \in 0..MaxWrites
    BY IdleIsSave DEF Init
  <2>3. disk \in Contents /\ tmp \in Contents
    BY DEF Init, Contents
  <2> QED
    BY <2>1, <2>2, <2>3 DEF Init, TypeOK
<1>2. /\ \A w \in Writers : writer[w] = Idle
      /\ \A k \in Keys : mem[k] = 0 /\ acked[k] = 0
      /\ Saving = {}
  BY DEF Init, Untouched, Saving, Idle
<1>3. OnlyMade /\ OneAtATime /\ NoPasswordInRequests /\ MemIsNewest
  BY <1>2 DEF Init, OnlyMade, Made, OneAtATime, NoPasswordInRequests, MemIsNewest,
              Contents, Idle, Untouched
<1>4. Alone /\ PasswordInSaves
  BY <1>2 DEF Alone, PasswordInSaves, Idle
<1>5. AcknowledgedIsDurable /\ AdminPasswordStays
  BY <1>2, IdleIsSave DEF Init, AcknowledgedIsDurable, AdminPasswordStays, Readable, OnDisk
<1> QED
  BY <1>1, <1>3, <1>4, <1>5 DEF IInv

-----------------------------------------------------------------------------
(* Changes                                                                  *)

\* Who may change the map, and what.
MayChange(k) ==
    \/ serving /\ k \in Keys \ {Admin}
    \/ ~serving /\ proc # "none" /\ AllIdle /\ k \in Keys

LEMMA ChangeKeeps ==
    ASSUME IInv, NEW w \in Writers, NEW k, MayChange(k), Change(w, k), UNCHANGED serving
    PROVE  IInv'
<1> DEFINE r == [Idle EXCEPT !.pc = "snapshot", !.key = k, !.version = writes + 1]
<1>0. /\ k \in Keys /\ proc # "none" /\ writes \in Nat /\ mem \in Snapshots
      /\ acked \in Snapshots
  BY DEF MayChange, IInv, OneAtATime, TypeOK
<1>1. /\ r \in Save /\ r.pc = "snapshot" /\ r.key = k /\ r.version = writes + 1
      /\ r.snap = Untouched
  <2>1. writes + 1 \in Nat
    BY <1>0
  <2> QED
    BY <1>0, <2>1, IdleIsSave DEF Save
<1>2. /\ writer' = [writer EXCEPT ![w] = r] /\ writer[w].pc = "idle"
      /\ mem' = [mem EXCEPT ![k] = writes + 1] /\ writes' = writes + 1
      /\ writes' \in 0..MaxWrites
      /\ UNCHANGED <<proc, serving, disk, tmp, acked, mixed>>
  BY <1>0 DEF Change, IInv, TypeOK
<1> HIDE DEF r
<1>3. /\ writer'[w] = r /\ \A v \in Writers \ {w} : writer'[v] = writer[v]
      /\ mem'[k] = writes + 1 /\ \A j \in Keys \ {k} : mem'[j] = mem[j]
  BY <1>0, <1>2 DEF IInv, TypeOK, Snapshots
<1>4. TypeOK'
  BY <1>0, <1>1, <1>2 DEF IInv, TypeOK, Snapshots
<1>6. OnlyMade'
  <2>1. Made(mem)'
    BY <1>0, <1>2, <1>3 DEF IInv, OnlyMade, Made, Snapshots
  <2>2. \A v \in Writers : Made(writer[v].snap)'
    <3> SUFFICES ASSUME NEW v \in Writers PROVE Made(writer[v].snap)'
      OBVIOUS
    <3>1. CASE v = w
      BY <1>0, <1>1, <1>2, <1>3, <3>1 DEF Made, Untouched
    <3>2. CASE v # w
      BY <1>0, <1>2, <1>3, <3>2, Fields DEF IInv, OnlyMade, Made, Snapshots
    <3> QED
      BY <3>1, <3>2
  <2>3. /\ (disk \in Snapshots => Made(disk))'
        /\ (tmp \in Snapshots => Made(tmp))'
    BY <1>0, <1>2 DEF IInv, OnlyMade, Made, Snapshots
  <2> QED
    BY <2>1, <2>2, <2>3 DEF OnlyMade
<1>7. \A j \in Keys : mem[j] <= mem'[j]
  BY <1>0, <1>3 DEF IInv, OnlyMade, Made, Snapshots
<1>8. MemIsNewest'
  <2>1. \A j \in Keys : acked[j] \in Nat /\ mem[j] \in Nat /\ mem'[j] \in Nat
    BY <1>0, <1>4 DEF TypeOK, Snapshots
  <2>2. \A j \in Keys : acked[j] <= mem'[j]
    BY <1>0, <1>7, <2>1 DEF IInv, MemIsNewest
  <2>3. \A v \in Writers : writer'[v].pc # "idle" => writer'[v].version <= mem'[writer'[v].key]
    <3> SUFFICES ASSUME NEW v \in Writers, writer'[v].pc # "idle"
                 PROVE  writer'[v].version <= mem'[writer'[v].key]
      OBVIOUS
    <3>1. CASE v = w
      BY <1>0, <1>1, <1>3, <3>1
    <3>2. CASE v # w
      BY <1>3, <1>7, <2>1, <3>2, Fields DEF IInv, MemIsNewest
    <3> QED
      BY <3>1, <3>2
  <2> QED
    BY <1>2, <2>2, <2>3 DEF MemIsNewest
<1>9. OneAtATime' /\ NoPasswordInRequests'
  BY <1>0, <1>1, <1>2, <1>3 DEF MayChange, AllIdle, Idle, IInv, OneAtATime, NoPasswordInRequests
<1>10. Saving' = Saving /\ \A v \in Saving : v # w /\ writer'[v] = writer[v]
  BY <1>1, <1>2, <1>3 DEF Saving
<1>11. Alone'
  BY <1>2, <1>10 DEF IInv, Alone, AloneSave, Saving
<1>12. PasswordInSaves'
  BY <1>1, <1>2, <1>3, <1>10 DEF IInv, PasswordInSaves, Saving
<1>13. AcknowledgedIsDurable' /\ AdminPasswordStays'
  BY <1>2 DEF IInv, AcknowledgedIsDurable, AdminPasswordStays, Readable, OnDisk
<1> QED
  BY <1>4, <1>6, <1>8, <1>9, <1>11, <1>12, <1>13 DEF IInv

\* The requests and the password's commands are such changes, or the server serves.
LEMMA CallKeeps ==
    ASSUME IInv, NEW w \in Writers, NEW k \in Keys,
           \/ Put(w, k) \/ rotateToken(w, k) \/ Delete(w, k)
           \/ EnsureAdminPassword(w) \/ RotateAdminPassword(w)
    PROVE  IInv'
<1>1. CASE Put(w, k) \/ rotateToken(w, k) \/ Delete(w, k)
  <2>1. MayChange(k)
    BY <1>1 DEF Put, rotateToken, Delete, MayChange
  <2> QED
    BY <1>1, <2>1, ChangeKeeps DEF Put, rotateToken, Delete
<1>2. CASE RotateAdminPassword(w)
  <2>1. ~serving
    BY <1>2 DEF RotateAdminPassword, IInv, OneAtATime
  <2>2. MayChange(Admin)
    BY <1>2, <2>1, IdleIsSave DEF RotateAdminPassword, MayChange
  <2> QED
    BY <1>2, <2>2, ChangeKeeps DEF RotateAdminPassword
<1>3. CASE EnsureAdminPassword(w) /\ mem[Admin] = 0
  <2>1. MayChange(Admin)
    BY <1>3, IdleIsSave DEF EnsureAdminPassword, MayChange
  <2> QED
    BY <1>3, <2>1, ChangeKeeps DEF EnsureAdminPassword
<1>4. CASE EnsureAdminPassword(w) /\ mem[Admin] # 0
  <2>1. /\ proc = "core" /\ serving' = TRUE /\ AllIdle
        /\ UNCHANGED <<proc, mem, writes, writer, disk, tmp, acked, mixed>>
    BY <1>4 DEF EnsureAdminPassword
  <2>2. /\ \A v \in Writers : writer'[v].pc = "idle" /\ writer[v].pc = "idle"
        /\ Saving' = {} /\ Saving = {}
    BY <2>1 DEF AllIdle, Idle, Saving
  <2>3. TypeOK' /\ OnlyMade' /\ AcknowledgedIsDurable' /\ AdminPasswordStays'
    BY <2>1 DEF IInv, TypeOK, OnlyMade, Made, AcknowledgedIsDurable, AdminPasswordStays,
                Readable, OnDisk
  <2>4. OneAtATime' /\ NoPasswordInRequests' /\ MemIsNewest'
    BY <2>1, <2>2 DEF IInv, OneAtATime, NoPasswordInRequests, MemIsNewest
  <2>5. Alone' /\ PasswordInSaves'
    BY <2>1, <2>2 DEF Alone, IInv, PasswordInSaves
  <2> QED
    BY <2>3, <2>4, <2>5 DEF IInv
<1> QED
  BY <1>1, <1>2, <1>3, <1>4

-----------------------------------------------------------------------------
(* persist                                                                  *)

LEMMA SnapshotKeeps ==
    ASSUME IInv, NEW w \in Writers, Snapshot(w)
    PROVE  IInv'
<1> DEFINE r == [writer[w] EXCEPT !.pc = "open", !.snap = mem, !.alone = (Saving = {})]
           q(v) == [writer[v] EXCEPT !.alone = @ /\ v \notin Saving]
<1>0. TypeOK /\ mem \in Snapshots /\ acked \in Snapshots /\ writer[w].pc = "snapshot"
  BY DEF IInv, TypeOK, Snapshot
<1>1. /\ r \in Save /\ r.pc = "open" /\ r.snap = mem /\ r.alone = (Saving = {})
      /\ r.key = writer[w].key /\ r.version = writer[w].version
  BY <1>0, Fields DEF Save
<1>2. \A v \in Writers : /\ q(v) \in Save /\ q(v).pc = writer[v].pc /\ q(v).key = writer[v].key
                         /\ q(v).version = writer[v].version /\ q(v).snap = writer[v].snap
                         /\ v \in Saving => q(v).alone = FALSE
  BY <1>0, Fields DEF Save
<1>3. /\ writer' = [v \in Writers |-> IF v = w THEN r ELSE q(v)]
      /\ mixed' = (mixed \/ Saving # {})
      /\ UNCHANGED <<proc, serving, mem, writes, disk, tmp, acked>>
  BY DEF Snapshot
<1> HIDE DEF r, q
<1>4. writer'[w] = r /\ \A v \in Writers \ {w} : writer'[v] = q(v)
  BY <1>3
<1>5. w \notin Saving /\ Saving' = Saving \cup {w}
  BY <1>0, <1>1, <1>2, <1>4 DEF Saving
<1>6. proc # "none" /\ \A k \in Keys : acked[k] <= mem[k]
  BY <1>0 DEF IInv, OneAtATime, MemIsNewest
<1>7. TypeOK'
  <2>1. writer' \in [Writers -> Save]
    BY <1>1, <1>2, <1>3
  <2>2. mixed' \in BOOLEAN
    BY <1>3 DEF IInv, TypeOK
  <2> QED
    BY <1>3, <2>1, <2>2 DEF IInv, TypeOK
<1>8. OnlyMade'
  BY <1>1, <1>2, <1>3, <1>4 DEF IInv, OnlyMade, Made
<1>9. OneAtATime' /\ NoPasswordInRequests' /\ MemIsNewest'
  BY <1>0, <1>1, <1>2, <1>3, <1>4 DEF IInv, OneAtATime, NoPasswordInRequests, MemIsNewest
<1>10. Alone'
  <2>1. (\A v \in Saving : writer[v].alone => AloneSave(v))'
    <3> SUFFICES ASSUME NEW v \in Saving', writer'[v].alone PROVE AloneSave(v)'
      OBVIOUS
    <3>1. v = w
      <4>1. v # w => v \in Saving /\ v \in Writers
        BY <1>5 DEF Saving
      <4> QED
        BY <1>2, <1>4, <4>1
    <3>2. Saving = {}
      BY <1>1, <1>4, <3>1
    <3> QED
      BY <1>0, <1>1, <1>3, <1>4, <1>5, <1>6, <3>1, <3>2 DEF AloneSave, IInv, MemIsNewest
  <2>2. (\A v \in Saving : ~mixed \/ ~serving => writer[v].alone)'
    <3> SUFFICES ASSUME NEW v \in Saving', ~mixed' \/ ~serving' PROVE writer'[v].alone
      OBVIOUS
    <3>1. Saving = {}
      BY <1>0, <1>3, <1>5 DEF IInv, OneAtATime, Saving
    <3> QED
      BY <1>1, <1>4, <1>5, <3>1
  <2> QED
    BY <2>1, <2>2 DEF Alone
<1>11. PasswordInSaves'
  BY <1>0, <1>1, <1>2, <1>3, <1>4, <1>5, <1>6, IdleIsSave DEF IInv, PasswordInSaves, Saving
<1>12. AcknowledgedIsDurable' /\ AdminPasswordStays'
  BY <1>3 DEF IInv, AcknowledgedIsDurable, AdminPasswordStays, Readable, OnDisk
<1> QED
  BY <1>7, <1>8, <1>9, <1>10, <1>11, <1>12 DEF IInv

LEMMA CreateKeeps ==
    ASSUME IInv, NEW w \in Writers, Create(w)
    PROVE  IInv'
<1> DEFINE r == [writer[w] EXCEPT !.pc = "write", !.file = "tmp"]
<1>0. TypeOK /\ writer[w].pc = "open"
  BY DEF IInv, Create
<1>1. /\ r \in Save /\ r.pc = "write" /\ r.file = "tmp" /\ r.snap = writer[w].snap
      /\ r.key = writer[w].key /\ r.version = writer[w].version /\ r.alone = writer[w].alone
  BY <1>0, Fields DEF Save
<1>2. /\ writer' = [writer EXCEPT ![w] = r] /\ tmp' = Empty
      /\ UNCHANGED <<proc, serving, mem, writes, disk, acked, mixed>>
  BY DEF Create
<1> HIDE DEF r
<1>3. writer'[w] = r /\ \A v \in Writers \ {w} : writer'[v] = writer[v]
  BY <1>2 DEF IInv, TypeOK
<1>4. w \in Saving /\ Saving' = Saving
  BY <1>0, <1>1, <1>3 DEF Saving
<1>5. TypeOK'
  BY <1>1, <1>2 DEF IInv, TypeOK, Contents
<1>6. OnlyMade'
  BY <1>1, <1>2, <1>3 DEF IInv, OnlyMade, Made
<1>7. OneAtATime' /\ NoPasswordInRequests' /\ MemIsNewest'
  BY <1>0, <1>1, <1>2, <1>3 DEF IInv, OneAtATime, NoPasswordInRequests, MemIsNewest
<1>8. Alone'
  <2>1. (\A v \in Saving : writer[v].alone => AloneSave(v))'
    <3> SUFFICES ASSUME NEW v \in Saving', writer'[v].alone PROVE AloneSave(v)'
      OBVIOUS
    <3>1. v = w /\ AloneSave(w)
      <4>1. v \in Saving /\ writer[v].alone
        BY <1>1, <1>3, <1>4 DEF Saving
      <4>2. AloneSave(v)
        BY <4>1 DEF IInv, Alone
      <4> QED
        BY <1>4, <4>2 DEF AloneSave
    <3> QED
      BY <1>1, <1>2, <1>3, <1>4, <3>1 DEF AloneSave
  <2>2. (\A v \in Saving : ~mixed \/ ~serving => writer[v].alone)'
    BY <1>1, <1>2, <1>3, <1>4 DEF IInv, Alone, Saving
  <2> QED
    BY <2>1, <2>2 DEF Alone
<1>9. PasswordInSaves'
  BY <1>1, <1>2, <1>3, <1>4 DEF IInv, PasswordInSaves, Saving
<1>10. AcknowledgedIsDurable' /\ AdminPasswordStays'
  BY <1>2 DEF IInv, AcknowledgedIsDurable, AdminPasswordStays, Readable, OnDisk
<1> QED
  BY <1>5, <1>6, <1>7, <1>8, <1>9, <1>10 DEF IInv

LEMMA WriteKeeps ==
    ASSUME IInv, NEW w \in Writers, Write(w)
    PROVE  IInv'
<1> DEFINE r == [writer[w] EXCEPT !.pc = "rename", !.file = "unlinked"]
           s == writer[w].snap
<1>0. TypeOK /\ writer[w].pc = "write" /\ s \in Snapshots
  BY Fields DEF IInv, Write
<1>1. /\ r \in Save /\ r.pc = "rename" /\ r.snap = writer[w].snap
      /\ r.key = writer[w].key /\ r.version = writer[w].version /\ r.alone = writer[w].alone
  BY <1>0, Fields DEF Save
<1>2. /\ writer' = [writer EXCEPT ![w] = r]
      /\ UNCHANGED <<proc, serving, mem, writes, acked, mixed>>
  BY DEF Write
<1>3. /\ tmp' \in {tmp, s, Torn} /\ disk' \in {disk, s, Torn}
      /\ writer[w].file = "tmp" => disk' = disk
      /\ writer[w].file = "tmp" /\ tmp = Empty => tmp' = s
  BY DEF Write, Fill, Over
<1> HIDE DEF r
<1>4. writer'[w] = r /\ \A v \in Writers \ {w} : writer'[v] = writer[v]
  BY <1>2 DEF IInv, TypeOK
<1>5. w \in Saving /\ Saving' = Saving
  BY <1>0, <1>1, <1>4 DEF Saving
<1>6. TypeOK'
  <2>1. tmp' \in Contents /\ disk' \in Contents
    BY <1>0, <1>3 DEF IInv, TypeOK, Contents
  <2> QED
    BY <1>1, <1>2, <2>1 DEF IInv, TypeOK
<1>7. OnlyMade'
  <2>1. Made(s)
    BY DEF IInv, OnlyMade
  <2> QED
    BY <1>1, <1>2, <1>3, <1>4, <2>1 DEF IInv, OnlyMade, Made
<1>8. OneAtATime' /\ NoPasswordInRequests' /\ MemIsNewest'
  BY <1>0, <1>1, <1>2, <1>4 DEF IInv, OneAtATime, NoPasswordInRequests, MemIsNewest
<1>9. writer[w].alone => AloneSave(w) /\ writer[w].file = "tmp" /\ tmp = Empty
  BY <1>0, <1>5 DEF IInv, Alone, AloneSave
<1>10. Alone'
  <2>1. (\A v \in Saving : writer[v].alone => AloneSave(v))'
    <3> SUFFICES ASSUME NEW v \in Saving', writer'[v].alone PROVE AloneSave(v)'
      OBVIOUS
    <3>1. v = w /\ writer[w].alone
      BY <1>1, <1>4, <1>5 DEF IInv, Alone, AloneSave, Saving
    <3> QED
      BY <1>1, <1>2, <1>3, <1>4, <1>5, <1>9, <3>1 DEF AloneSave
  <2>2. (\A v \in Saving : ~mixed \/ ~serving => writer[v].alone)'
    BY <1>1, <1>2, <1>4, <1>5 DEF IInv, Alone, Saving
  <2> QED
    BY <2>1, <2>2 DEF Alone
<1>11. acked[Admin] <= s[Admin]
  BY <1>5 DEF IInv, PasswordInSaves
<1>12. PasswordInSaves'
  <2>1. (\A v \in Saving : acked[Admin] <= writer[v].snap[Admin])'
    BY <1>1, <1>2, <1>4, <1>5 DEF IInv, PasswordInSaves, Saving
  <2>2. tmp' \in Snapshots => acked'[Admin] <= tmp'[Admin]
    BY <1>0, <1>2, <1>3, <1>11 DEF IInv, PasswordInSaves
  <2> QED
    BY <2>1, <2>2 DEF PasswordInSaves
<1>13. AcknowledgedIsDurable'
  <2>1. ~mixed => disk' = disk
    BY <1>3, <1>5, <1>9 DEF IInv, Alone
  <2> QED
    BY <1>2, <2>1 DEF IInv, AcknowledgedIsDurable, Readable, OnDisk
<1>14. AdminPasswordStays'
  <2>1. s # None
    BY <1>0
  <2> QED
    BY <1>2, <1>3, <1>11, <2>1 DEF IInv, AdminPasswordStays, Readable, OnDisk
<1> QED
  BY <1>6, <1>7, <1>8, <1>10, <1>12, <1>13, <1>14 DEF IInv

\* A save that ends without success.
LEMMA GiveUpKeeps ==
    ASSUME IInv, NEW w \in Writers, writer[w].pc # "idle",
           writer' = [writer EXCEPT ![w] = Idle], End(FALSE),
           UNCHANGED <<mem, writes, acked, mixed>>,
           tmp' \in {tmp, Torn}, disk' \in {disk, Torn},
           w \notin Saving => UNCHANGED tmp, ~mixed => UNCHANGED disk
    PROVE  IInv'
<1>0. TypeOK
  BY DEF IInv
<1>1. /\ writer'[w] = Idle /\ Idle.pc = "idle" /\ Idle.snap = Untouched
      /\ \A v \in Writers \ {w} : writer'[v] = writer[v]
  BY IdleIsSave DEF IInv, TypeOK, Idle
<1>2. /\ proc' \in {proc, "none"} /\ serving' = serving
      /\ serving => proc' = proc
      /\ proc' = "none" => ~serving
  BY DEF End, IInv, OneAtATime, TypeOK
<1>3. Saving' = Saving \ {w}
  BY <1>1 DEF Saving
<1>4. ~serving => \A v \in Writers : writer'[v].pc = "idle"
  BY <1>1 DEF IInv, OneAtATime
<1>5. TypeOK'
  <2>1. tmp' \in Contents /\ disk' \in Contents
    BY DEF IInv, TypeOK, Contents
  <2>2. writer' \in [Writers -> Save]
    BY IdleIsSave DEF IInv, TypeOK
  <2> QED
    BY <1>2, <2>1, <2>2 DEF IInv, TypeOK
<1>6. OnlyMade'
  <2>1. Made(Untouched)
    BY <1>0 DEF TypeOK, Made, Untouched
  <2> QED
    BY <1>1, <2>1 DEF IInv, OnlyMade, Made
<1>7. OneAtATime'
  BY <1>1, <1>2, <1>4 DEF IInv, OneAtATime
<1>8. NoPasswordInRequests'
  BY <1>1, <1>2 DEF IInv, NoPasswordInRequests
<1>9. MemIsNewest'
  BY <1>1, <1>2 DEF IInv, MemIsNewest
<1>10. Alone'
  <2>1. (\A v \in Saving : writer[v].alone => AloneSave(v))'
    <3> SUFFICES ASSUME NEW v \in Saving', writer'[v].alone PROVE AloneSave(v)'
      OBVIOUS
    <3>1. v \in Saving /\ v # w /\ writer'[v] = writer[v]
      BY <1>1, <1>3 DEF Saving
    <3>2. AloneSave(v)
      BY <3>1 DEF IInv, Alone
    <3>3. w \notin Saving
      BY <3>1, <3>2 DEF AloneSave
    <3> QED
      BY <1>3, <3>1, <3>2, <3>3 DEF AloneSave
  <2>2. (\A v \in Saving : ~mixed \/ ~serving => writer[v].alone)'
    BY <1>1, <1>2, <1>3 DEF IInv, Alone, Saving
  <2> QED
    BY <2>1, <2>2 DEF Alone
<1>11. PasswordInSaves'
  BY <1>1, <1>3 DEF IInv, PasswordInSaves, Saving
<1>12. AcknowledgedIsDurable' /\ AdminPasswordStays'
  BY DEF IInv, AcknowledgedIsDurable, AdminPasswordStays, Readable, OnDisk
<1> QED
  BY <1>5, <1>6, <1>7, <1>8, <1>9, <1>10, <1>11, <1>12 DEF IInv

LEMMA FailKeeps ==
    ASSUME IInv, NEW w \in Writers, PersistFails(w) \/ WriteFails(w)
    PROVE  IInv'
<1>1. CASE PersistFails(w)
  BY <1>1, GiveUpKeeps DEF PersistFails
<1>2. CASE WriteFails(w)
  <2>1. w \in Saving
    BY <1>2 DEF WriteFails, Saving
  <2>2. ~mixed => writer[w].file = "tmp"
    BY <1>2, <2>1 DEF IInv, Alone, AloneSave, WriteFails
  <2>3. /\ tmp' \in {tmp, Torn} /\ disk' \in {disk, Torn}
        /\ ~mixed => UNCHANGED disk
    BY <1>2, <2>2 DEF WriteFails, Fill
  <2> QED
    BY <1>2, <2>1, <2>3, GiveUpKeeps DEF WriteFails
<1> QED
  BY <1>1, <1>2

LEMMA RenameKeeps ==
    ASSUME IInv, NEW w \in Writers, Rename(w)
    PROVE  IInv'
<1> DEFINE k == writer[w].key
           q(v) == [writer[v] EXCEPT !.file = CASE @ = "tmp"  -> "disk"
                                                [] @ = "disk" -> "unlinked"
                                                [] OTHER      -> @]
<1>0. /\ TypeOK /\ writer[w].pc = "rename" /\ tmp # None /\ disk' = tmp /\ tmp' = None
      /\ writer' = [v \in Writers |-> IF v = w THEN Idle ELSE q(v)]
      /\ acked' = [acked EXCEPT ![k] = Newer(@, writer[w].version)]
      /\ mixed' = (mixed /\ ~writer[w].alone)
      /\ End(TRUE)
      /\ UNCHANGED <<mem, writes>>
  BY DEF IInv, Rename
<1>1. \A v \in Writers : /\ q(v) \in Save /\ q(v).pc = writer[v].pc /\ q(v).key = writer[v].key
                         /\ q(v).version = writer[v].version /\ q(v).snap = writer[v].snap
                         /\ q(v).alone = writer[v].alone
  <2> SUFFICES ASSUME NEW v \in Writers
               PROVE  /\ q(v) \in Save /\ q(v).pc = writer[v].pc /\ q(v).key = writer[v].key
                      /\ q(v).version = writer[v].version /\ q(v).snap = writer[v].snap
                      /\ q(v).alone = writer[v].alone
    OBVIOUS
  <2> DEFINE f == CASE writer[v].file = "tmp"  -> "disk"
                    [] writer[v].file = "disk" -> "unlinked"
                    [] OTHER                   -> writer[v].file
  <2>1. f \in {"tmp", "disk", "unlinked"}
    BY <1>0, Fields
  <2>2. q(v) = [writer[v] EXCEPT !.file = f]
    OBVIOUS
  <2> HIDE DEF f
  <2> QED
    BY <1>0, <2>1, <2>2, Fields DEF Save
<1> HIDE DEF q
<1>2. /\ writer'[w] = Idle /\ Idle.pc = "idle" /\ Idle.snap = Untouched
      /\ \A v \in Writers \ {w} : writer'[v] = q(v)
  BY <1>0, IdleIsSave DEF Idle
<1>3. /\ k \in Keys /\ writer[w].version \in Nat /\ acked \in Snapshots /\ mem \in Snapshots
      /\ writer[w].snap \in Snapshots
  BY <1>0, Fields DEF TypeOK
<1>4. /\ acked' \in Snapshots
      /\ acked'[k] = Newer(acked[k], writer[w].version)
      /\ \A j \in Keys \ {k} : acked'[j] = acked[j]
  BY <1>0, <1>3 DEF Snapshots, Newer
<1>5. /\ w \in Saving /\ Saving' = Saving \ {w}
      /\ writer[w].alone => Saving = {w}
  BY <1>0, <1>1, <1>2 DEF Saving, IInv, Alone, AloneSave
<1>6. proc # "none" /\ \A v \in Writers : writer'[v].pc # "idle" => serving
  BY <1>0, <1>1, <1>2 DEF IInv, OneAtATime
<1>7. /\ serving' = (proc = "core")
      /\ serving => proc = "core"
      /\ proc' \in {proc, "none"}
      /\ proc = "core" => proc' = proc
      /\ serving => k # Admin
      /\ proc' = "none" => ~serving
  BY <1>0, <1>6 DEF End, IInv, OneAtATime, NoPasswordInRequests
<1>8. serving => acked'[Admin] = acked[Admin]
  BY <1>4, <1>7, IdleIsSave
<1>9. TypeOK'
  <2>1. writer' \in [Writers -> Save]
    BY <1>0, <1>1, IdleIsSave
  <2>2. mixed' \in BOOLEAN /\ serving' \in BOOLEAN
    BY <1>0, <1>7
  <2>3. disk' \in Contents /\ tmp' \in Contents
    BY <1>0 DEF TypeOK, Contents
  <2> QED
    BY <1>0, <1>4, <1>7, <2>1, <2>2, <2>3 DEF TypeOK
<1>10. OnlyMade'
  <2>1. Made(Untouched)
    BY <1>0 DEF TypeOK, Made, Untouched
  <2>2. None \notin Snapshots
    OBVIOUS
  <2> QED
    BY <1>0, <1>1, <1>2, <2>1, <2>2 DEF IInv, OnlyMade, Made
<1>11. OneAtATime' /\ NoPasswordInRequests'
  <2>1. \A v \in Writers : writer'[v].pc # "idle" => v # w /\ serving /\ writer'[v].key # Admin
    BY <1>1, <1>2, <1>6 DEF IInv, NoPasswordInRequests
  <2>2. /\ serving' => proc' = "core"
        /\ ~serving' => ~serving
    BY <1>7
  <2> QED
    BY <1>7, <2>1, <2>2 DEF OneAtATime, NoPasswordInRequests
<1>12. MemIsNewest'
  <2>1. \A j \in Keys : acked'[j] <= mem[j]
    BY <1>0, <1>3, <1>4, <1>6 DEF IInv, MemIsNewest, Newer
  <2> QED
    BY <1>0, <1>1, <1>2, <2>1 DEF IInv, MemIsNewest
<1>13. Alone'
  <2>1. (\A v \in Saving : writer[v].alone => AloneSave(v))'
    <3> SUFFICES ASSUME NEW v \in Saving', writer'[v].alone PROVE FALSE
      OBVIOUS
    <3>1. v \in Saving /\ v # w /\ writer[v].alone
      BY <1>1, <1>2, <1>5 DEF Saving
    <3> QED
      BY <1>5, <3>1 DEF IInv, Alone, AloneSave
  <2>2. (\A v \in Saving : ~mixed \/ ~serving => writer[v].alone)'
    <3> SUFFICES ASSUME NEW v \in Saving', ~mixed' \/ ~serving' PROVE FALSE
      OBVIOUS
    <3>1. v \in Saving /\ v # w /\ serving
      BY <1>2, <1>5, <1>6 DEF Saving
    <3>2. ~mixed'
      BY <1>7, <3>1
    <3> QED
      BY <1>0, <1>5, <3>1, <3>2 DEF IInv, Alone
  <2> QED
    BY <2>1, <2>2 DEF Alone
<1>14. PasswordInSaves'
  <2>1. \A v \in Saving' : acked'[Admin] <= writer'[v].snap[Admin]
    <3> SUFFICES ASSUME NEW v \in Saving' PROVE acked'[Admin] <= writer'[v].snap[Admin]
      OBVIOUS
    <3>1. v \in Saving /\ v # w /\ v \in Writers /\ writer'[v].pc # "idle"
      BY <1>5, <1>2 DEF Saving
    <3> QED
      BY <1>1, <1>2, <1>6, <1>8, <3>1 DEF IInv, PasswordInSaves
  <2>2. tmp' \notin Snapshots
    BY <1>0
  <2> QED
    BY <2>1, <2>2 DEF PasswordInSaves
<1>15. writer[w].alone => tmp = writer[w].snap /\ \A j \in Keys : acked'[j] <= tmp[j]
  BY <1>0, <1>3, <1>4, <1>5 DEF IInv, Alone, AloneSave, Newer
<1>16. AcknowledgedIsDurable'
  <2> SUFFICES ASSUME ~mixed'
               PROVE  Readable(disk') /\ \A j \in Keys : OnDisk(j)' >= acked'[j]
    BY DEF AcknowledgedIsDurable
  <2>1. writer[w].alone
    BY <1>0, <1>5 DEF IInv, Alone
  <2>2. tmp \in Snapshots /\ tmp \notin {None, Empty, Torn}
    BY <1>3, <1>15, <2>1
  <2>3. \A j \in Keys : acked'[j] \in Nat /\ tmp[j] \in Nat
    BY <1>4, <2>2 DEF Snapshots
  <2> QED
    BY <1>0, <1>15, <2>1, <2>2, <2>3 DEF Readable, OnDisk
<1>17. AdminPasswordStays'
  <2> SUFFICES ASSUME Readable(tmp) PROVE tmp[Admin] >= acked'[Admin]
    BY <1>0 DEF AdminPasswordStays, OnDisk
  <2>1. tmp \in Snapshots /\ tmp[Admin] \in Nat /\ acked'[Admin] \in Nat
    BY <1>0, <1>4, IdleIsSave DEF Readable, TypeOK, Contents, Snapshots
  <2>2. acked'[Admin] <= tmp[Admin]
    <3>1. CASE serving
      BY <1>0, <1>8, <2>1, <3>1 DEF IInv, PasswordInSaves
    <3>2. CASE ~serving
      BY <1>5, <1>15, <3>2, IdleIsSave DEF IInv, Alone
    <3> QED
      BY <3>1, <3>2
  <2> QED
    BY <2>1, <2>2
<1> QED
  BY <1>9, <1>10, <1>11, <1>12, <1>13, <1>14, <1>16, <1>17 DEF IInv

-----------------------------------------------------------------------------
(* Processes                                                                *)

LEMMA OpenKeeps ==
    ASSUME IInv, NEW p \in {"core", "admin"}, Open(p)
    PROVE  IInv'
<1> DEFINE file == IF disk = None THEN Untouched ELSE disk
<1>0. /\ TypeOK /\ proc = "none" /\ Readable(disk) /\ proc' = p /\ mem' = file
      /\ acked' = (IF mixed THEN file ELSE acked) /\ mixed' = FALSE
      /\ UNCHANGED <<serving, writes, writer, disk, tmp>>
  BY DEF IInv, Open
<1>1. file \in Snapshots /\ \A k \in Keys : file[k] = OnDisk(k) /\ file[k] \in Nat
  BY <1>0, IdleIsSave DEF TypeOK, Contents, Readable, OnDisk, Untouched, Snapshots
<1>2. Made(file)
  <2>1. Made(Untouched)
    BY <1>0 DEF TypeOK, Made, Untouched
  <2> QED
    BY <1>1, <2>1 DEF IInv, OnlyMade
<1>3. \A k \in Keys : acked'[k] <= file[k] /\ acked'[k] \in Nat
  <2>1. CASE mixed
    BY <1>0, <1>1, <2>1
  <2>2. CASE ~mixed
    BY <1>0, <1>1, <2>2 DEF TypeOK, Snapshots, IInv, AcknowledgedIsDurable
  <2> QED
    BY <2>1, <2>2
<1>4. /\ ~serving /\ \A w \in Writers : writer[w].pc = "idle" /\ writer'[w].pc = "idle"
      /\ Saving = {} /\ Saving' = {}
  BY <1>0 DEF IInv, OneAtATime, Saving
<1>5. \A k \in Keys : OnDisk(k)' = file[k]
  BY <1>0, <1>1 DEF OnDisk
<1> HIDE DEF file
<1>6. TypeOK'
  BY <1>0, <1>1 DEF TypeOK
<1>7. OnlyMade'
  BY <1>0, <1>2 DEF IInv, OnlyMade, Made
<1>8. OneAtATime' /\ NoPasswordInRequests' /\ MemIsNewest'
  BY <1>0, <1>3, <1>4 DEF OneAtATime, NoPasswordInRequests, MemIsNewest
<1>9. Alone' /\ PasswordInSaves'
  BY <1>4 DEF Alone, PasswordInSaves
<1>10. AcknowledgedIsDurable' /\ AdminPasswordStays'
  BY <1>0, <1>1, <1>3, <1>5, IdleIsSave DEF AcknowledgedIsDurable, AdminPasswordStays, Readable
<1> QED
  BY <1>6, <1>7, <1>8, <1>9, <1>10 DEF IInv

LEMMA CrashKeeps == IInv /\ Crash => IInv'
<1> SUFFICES ASSUME IInv, Crash PROVE IInv'
  OBVIOUS
<1>1. /\ \A w \in Writers : writer'[w] = Idle /\ writer'[w].pc = "idle"
      /\ Saving' = {} /\ proc' = "none" /\ serving' = FALSE
      /\ UNCHANGED <<mem, writes, disk, tmp, acked, mixed>>
      /\ Idle.snap = Untouched
  BY IdleIsSave DEF Crash, Idle, Saving
<1>2. TypeOK'
  <2>1. writer' \in [Writers -> Save]
    BY IdleIsSave DEF Crash
  <2> QED
    BY <1>1, <2>1 DEF IInv, TypeOK
<1>3. OnlyMade'
  <2>1. Made(Untouched)
    BY DEF IInv, TypeOK, Made, Untouched
  <2> QED
    BY <1>1, <2>1 DEF IInv, OnlyMade, Made
<1>4. OneAtATime' /\ NoPasswordInRequests' /\ MemIsNewest'
  BY <1>1 DEF OneAtATime, NoPasswordInRequests, MemIsNewest
<1>5. Alone' /\ PasswordInSaves'
  BY <1>1 DEF Alone, PasswordInSaves
<1>6. AcknowledgedIsDurable' /\ AdminPasswordStays'
  BY <1>1 DEF IInv, AcknowledgedIsDurable, AdminPasswordStays, Readable, OnDisk
<1> QED
  BY <1>2, <1>3, <1>4, <1>5, <1>6 DEF IInv

-----------------------------------------------------------------------------
LEMMA Inductive == Spec => []IInv
<1>1. IInv /\ [Next]_vars => IInv'
  <2> SUFFICES ASSUME IInv, [Next]_vars PROVE IInv'
    OBVIOUS
  <2>1. ASSUME NEW w \in Writers, WriterStep(w) PROVE IInv'
    BY <2>1, CallKeeps, SnapshotKeeps, CreateKeeps, WriteKeeps, RenameKeeps, FailKeeps,
       IdleIsSave DEF WriterStep
  <2>2. CASE UNCHANGED vars
    BY <2>2 DEF vars, IInv, TypeOK, OnlyMade, Made, OneAtATime, NoPasswordInRequests,
                MemIsNewest, Alone, AloneSave, Saving, PasswordInSaves,
                AcknowledgedIsDurable, AdminPasswordStays, Readable, OnDisk
  <2> QED
    BY <2>1, <2>2, OpenKeeps, CrashKeeps DEF Next
<1> QED
  BY InitHolds, <1>1, PTL DEF Spec

\* Every reachable state is well typed.
THEOREM TypeCorrect == Spec => []TypeOK
<1>1. IInv => TypeOK
  BY DEF IInv
<1> QED
  BY Inductive, <1>1, PTL

\* What was reported as saved survives any crash, failure and restart, unless saves
\* overlapped, for any number of goroutines and secrets (persist).
THEOREM SavedSurvives == Spec => []AcknowledgedIsDurable
<1>1. IInv => AcknowledgedIsDurable
  BY DEF IInv
<1> QED
  BY Inductive, <1>1, PTL

\* The admin password last shown is never replaced by an older one, even by saves that
\* overlapped (EnsureAdminPassword, RotateAdminPassword).
THEOREM PasswordSurvives == Spec => []AdminPasswordStays
<1>1. IInv => AdminPasswordStays
  BY DEF IInv
<1> QED
  BY Inductive, <1>1, PTL
=============================================================================
