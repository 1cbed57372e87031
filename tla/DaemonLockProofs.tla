-------------------------- MODULE DaemonLockProofs --------------------------
(***************************************************************************)
(* Proofs about DaemonLock: its type invariant, for any number of callers; *)
(* and, as long as one process at a time asks for a daemon, that whoever   *)
(* acts on the lock has it, so that there is one daemon at most up to      *)
(* where it removes its files, and that a daemon that serves loses a file  *)
(* only to the late unlink of a stopping one; for any number of processes, *)
(* kills and failures.  With two callers the first is false                *)
(* (DaemonLockRace.cfg), so the hypothesis MaxClients <= 1 is part of what *)
(* is proved.  That asking always brings a daemon back stays with TLC.     *)
(***************************************************************************)
EXTENDS DaemonLock, FiniteSetTheorems, TLAPS

Stages == {"dead"} \cup ClientStages \cup DaemonStages

\* What a process counts is still to do where it goes by the count.
Counts(p) ==
    /\ stage[p] \notin {"clear", "release", "spawn", "await", "publish", "serve",
                        "close", "remove"} => at[p] = 0
    /\ stage[p] \in {"clear", "publish"} => at[p] < 3

Base == TypeOK /\ \A p \in Pids : Counts(p)

\* One process at a time asks for a daemon.
OneClient == \A c, e \in Pids : stage[c] \in ClientStages /\ stage[e] \in ClientStages => c = e

\* A stopping daemon that will unlink the lock, or may yet find that it should.
Claims(p) == owned[p]["lock"] # None \/ "lock" \in passed[p]

\* Each name is checked once.
Once(p) == "lock" \in passed[p] => owned[p]["lock"] = None

\* The lock is of whoever goes by it, up to its unlink; and of nobody who runs
\* when a reclaimer is about to unlink it.
LockOK ==
    \A p \in Pids :
        /\ stage[p] \in HolderStages \/ Claims(p) => files["lock"] = p
        /\ Claims(p) => stage[p] \in {"close", "remove"}
        /\ Once(p)
        /\ stage[p] = "unlink" => files["lock"] \in Pids /\ stage[files["lock"]] = "dead"

IInv == Base /\ OneClient /\ LockOK
-----------------------------------------------------------------------------
LEMMA Constants ==
    /\ None \notin Pids /\ MaxFaults \in Nat /\ MaxClients \in Nat /\ IsFiniteSet(Pids)
    /\ "lock" \in Files /\ Len(Artifacts) = 3
    /\ \A i \in 1..3 : Artifacts[i] \in Files \ {"lock"}
    /\ \A f \in Files \ {"lock"} : \E i \in 1..3 : f = Artifacts[i]
    /\ \A i, k \in 1..3 : Artifacts[i] = Artifacts[k] => i = k
    /\ Nothing \in [Files -> Pids \cup {None}] /\ \A f \in Files : Nothing[f] = None
<1>1. /\ Artifacts[1] = "socket" /\ Artifacts[2] = "token" /\ Artifacts[3] = "record"
      /\ Len(Artifacts) = 3
  BY DEF Artifacts
<1>2. \A i \in 1..3 : i = 1 \/ i = 2 \/ i = 3
  OBVIOUS
<1>3. \A i \in 1..3 : Artifacts[i] \in Files \ {"lock"}
  BY <1>1, <1>2 DEF Files
<1>4. \A f \in Files \ {"lock"} : \E i \in 1..3 : f = Artifacts[i]
  <2>1. 1 \in 1..3 /\ 2 \in 1..3 /\ 3 \in 1..3
    OBVIOUS
  <2>. QED  BY <1>1, <2>1 DEF Files
<1>5. Nothing \in [Files -> Pids \cup {None}] /\ \A f \in Files : Nothing[f] = None
  BY DEF Nothing
<1>6. \A i, k \in 1..3 : Artifacts[i] = Artifacts[k] => i = k
  BY <1>1, <1>2
<1>. QED  BY <1>1, <1>3, <1>4, <1>5, <1>6, LockAssumption DEF Files

DiskOK ==
    /\ files \in [Files -> Pids \cup {None}] /\ signed \in BOOLEAN
    /\ signed => files["lock"] # None

LEMMA SameDisk == ASSUME TypeOK, UNCHANGED disk PROVE DiskOK'
BY DEF TypeOK, DiskOK, disk

LEMMA FaultCounts == ASSUME TypeOK, Fault PROVE faults' \in 0..MaxFaults
BY Constants DEF TypeOK, Fault

\* What a process forgets when it ends.
LEMMA EndFacts ==
    ASSUME TypeOK, NEW p \in Pids, End(p)
    PROVE  /\ stage' \in [Pids -> Stages] /\ at' \in [Pids -> 0..3]
           /\ child' \in [Pids -> Pids \cup {None}]
           /\ owned' \in [Pids -> [Files -> Pids \cup {None}]]
           /\ passed' \in [Pids -> SUBSET Files]
           /\ stage'[p] = "dead" /\ at'[p] = 0 /\ owned'[p] = Nothing /\ passed'[p] = {}
           /\ \A q \in Pids : q # p =>
                  /\ stage'[q] = stage[q] /\ at'[q] = at[q]
                  /\ owned'[q] = owned[q] /\ passed'[q] = passed[q]
BY Constants DEF TypeOK, End, Goto, Stages

LEMMA GotoFacts ==
    ASSUME TypeOK, NEW p \in Pids, NEW s \in Stages, Goto(p, s)
    PROVE  /\ stage' \in [Pids -> Stages] /\ stage'[p] = s
           /\ \A q \in Pids : q # p => stage'[q] = stage[q]
BY DEF TypeOK, Goto, Stages

LEMMA MakeFacts ==
    ASSUME TypeOK, NEW p \in Pids, NEW f \in Files, Make(f, p)
    PROVE  /\ files' \in [Files -> Pids \cup {None}] /\ files'[f] = p
           /\ \A h \in Files : h # f => files'[h] = files[h]
BY DEF TypeOK, Make

LEMMA UnlinkFacts ==
    ASSUME TypeOK, NEW f \in Files, Unlink(f)
    PROVE  /\ files' \in [Files -> Pids \cup {None}] /\ files'[f] = None
           /\ \A h \in Files : h # f => files'[h] = files[h]
           /\ DiskOK'
<1>1. /\ files' \in [Files -> Pids \cup {None}] /\ files'[f] = None
      /\ \A h \in Files : h # f => files'[h] = files[h]
  BY DEF TypeOK, Unlink
<1>2. signed' = (signed /\ f # "lock")
  BY DEF Unlink
<1>3. signed' \in BOOLEAN
  BY <1>2 DEF TypeOK
<1>4. signed' => files'["lock"] # None
  BY <1>1, <1>2, Constants DEF TypeOK
<1>. QED  BY <1>1, <1>3, <1>4 DEF DiskOK
-----------------------------------------------------------------------------
\* A step of one process.
LEMMA BaseStep ==
    ASSUME Base, DiskOK', faults' \in 0..MaxFaults, NEW p \in Pids,
           stage' \in [Pids -> Stages], at' \in [Pids -> 0..3],
           child' \in [Pids -> Pids \cup {None}],
           owned' \in [Pids -> [Files -> Pids \cup {None}]], passed' \in [Pids -> SUBSET Files],
           \A q \in Pids : q # p => stage'[q] = stage[q] /\ at'[q] = at[q], Counts(p)'
    PROVE  Base'
<1>1. \A q \in Pids : Counts(q)'
  <2>. SUFFICES ASSUME NEW q \in Pids PROVE Counts(q)'
    OBVIOUS
  <2>1. CASE q = p
    BY <2>1
  <2>2. CASE q # p
    BY <2>2 DEF Base, Counts
  <2>. QED  BY <2>1, <2>2
<1>2. TypeOK'
  BY DEF TypeOK, DiskOK, Stages
<1>. QED  BY <1>1, <1>2 DEF Base

LEMMA EndBase ==
    ASSUME Base, DiskOK', faults' \in 0..MaxFaults, NEW p \in Pids, End(p)
    PROVE  Base'
<1>1. Counts(p)'
  BY EndFacts DEF Base, Counts
<1>. QED  BY <1>1, EndFacts, BaseStep DEF Base

LEMMA GotoBase ==
    ASSUME Base, DiskOK', faults' \in 0..MaxFaults, NEW p \in Pids, NEW s \in Stages,
           Goto(p, s), UNCHANGED memory,
           s \notin {"clear", "release", "spawn", "await", "publish", "serve", "close",
                     "remove"} => at[p] = 0,
           s \in {"clear", "publish"} => at[p] < 3
    PROVE  Base'
<1>1. UNCHANGED <<at, child, owned, passed>>
  BY DEF memory
<1>2. Counts(p)'
  BY <1>1, GotoFacts DEF Base, Counts
<1>. QED  BY <1>1, <1>2, GotoFacts, BaseStep DEF Base, TypeOK

\* The steps that leave the disk as it is: the process goes on or ends.
Further(p) ==
    \E s \in Stages \ {"dead"} :
        /\ Goto(p, s) /\ UNCHANGED <<disk, memory>>
        /\ \/ /\ stage[p] = "dead" /\ s = "ask"
              /\ Fresh(p) /\ Cardinality(Clients) < MaxClients
           \/ stage[p] = "ask" /\ s = "look"
           \/ stage[p] = "look" /\ s \in {"spawn", "readRecord"}
           \/ stage[p] = "readRecord" /\ s = "readLock"
           \/ stage[p] = "readLock" /\ s = "take"
           \/ /\ stage[p] = "readLock" /\ s = "unlink"
              /\ files["lock"] # None /\ files["lock"] \notin Live
           \/ stage[p] = "open" /\ s = "publish"
           \/ stage[p] = "close" /\ s = "remove"

\* The steps of Next by what they do to the disk.
Quiet(p) ==
    \/ Call(p) \/ Ask(p) \/ Look(p) \/ ReadRecord(p) \/ ReadLock(p) \/ Await(p) \/ Open(p)
    \/ Close(p) \/ Exit(p) \/ NoBun(p) \/ Doubt(p) \/ OpenFails(p) \/ ExitLate(p) \/ Kill(p)

LEMMA QuietFacts ==
    ASSUME TypeOK, NEW p \in Pids, Quiet(p)
    PROVE  /\ faults' \in 0..MaxFaults /\ UNCHANGED disk
           /\ Further(p) \/ (End(p) /\ stage[p] # "dead")
<1>1. faults \in 0..MaxFaults
  BY DEF TypeOK
<1>2. CASE Call(p)
  BY <1>1, <1>2 DEF Call, New, Fresh, Further, Stages, ClientStages
<1>3. CASE Ask(p)
  BY <1>1, <1>3 DEF Ask, Further, Stages, ClientStages
<1>4. CASE Look(p)
  <2>1. Goto(p, "spawn") \/ Goto(p, "readRecord")
    BY <1>4 DEF Look
  <2>. QED  BY <1>1, <1>4, <2>1 DEF Look, Further, Stages, ClientStages
<1>5. CASE ReadRecord(p)
  BY <1>1, <1>5 DEF ReadRecord, Further, Stages, ClientStages
<1>6. CASE ReadLock(p)
  BY <1>1, <1>6 DEF ReadLock, Further, Stages, ClientStages
<1>7. CASE Await(p) \/ Exit(p)
  BY <1>1, <1>7 DEF Await, Exit
<1>8. CASE Open(p)
  BY <1>1, <1>8 DEF Open, Further, Stages, DaemonStages, WriterStages
<1>9. CASE Close(p)
  BY <1>1, <1>9 DEF Close, Further, Stages, DaemonStages, WriterStages
<1>10. CASE NoBun(p) \/ Doubt(p) \/ OpenFails(p) \/ ExitLate(p) \/ Kill(p)
  BY <1>10, FaultCounts DEF NoBun, Doubt, OpenFails, ExitLate, Kill, Live
<1>. QED  BY <1>2, <1>3, <1>4, <1>5, <1>6, <1>7, <1>8, <1>9, <1>10 DEF Quiet

LEMMA QuietBase == ASSUME Base, NEW p \in Pids, Quiet(p) PROVE Base'
<1>1. faults' \in 0..MaxFaults /\ DiskOK' /\ (Further(p) \/ End(p))
  BY QuietFacts, SameDisk DEF Base
<1>2. CASE Further(p)
  <2>1. PICK s \in Stages \ {"dead"} :
            /\ Goto(p, s) /\ UNCHANGED memory
            /\ \/ stage[p] = "dead" /\ s = "ask"
               \/ stage[p] = "ask" /\ s = "look"
               \/ stage[p] = "look" /\ s \in {"spawn", "readRecord"}
               \/ stage[p] = "readRecord" /\ s = "readLock"
               \/ stage[p] = "readLock" /\ s \in {"take", "unlink"}
               \/ stage[p] = "open" /\ s = "publish"
               \/ stage[p] = "close" /\ s = "remove"
    BY <1>2 DEF Further
  <2>2. Counts(p)
    BY DEF Base
  <2>3. /\ s \notin {"clear", "release", "spawn", "await", "publish", "serve", "close",
                     "remove"} => at[p] = 0
        /\ s \in {"clear", "publish"} => at[p] < 3
    BY <2>1, <2>2 DEF Counts
  <2>. QED  BY <1>1, <2>1, <2>3, GotoBase
<1>3. CASE End(p)
  BY <1>1, <1>3, EndBase
<1>. QED  BY <1>1, <1>2, <1>3

\* Signing, unlinking and making the lock, and going on.
LEMMA LockBase ==
    ASSUME Base, NEW p \in Pids,
           Sign(p) \/ SignLock(p) \/ UnlinkLock(p) \/ Release(p) \/ Take(p) \/ Boot(p)
    PROVE  Base'
<1>0. /\ TypeOK /\ faults \in 0..MaxFaults /\ Counts(p) /\ DiskOK
  BY DEF Base, TypeOK, DiskOK
<1>1. CASE Sign(p) \/ SignLock(p)
  <2>1. /\ UNCHANGED <<files, memory, faults>> /\ signed' = (signed \/ files["lock"] = p)
        /\ \/ stage[p] = "sign" /\ Goto(p, "clear")
           \/ stage[p] = "signLock" /\ Goto(p, "open")
    BY <1>1 DEF Sign, SignLock
  <2>2. DiskOK'
    <3>1. signed' \in BOOLEAN
      BY <1>0, <2>1 DEF DiskOK
    <3>2. signed' => files["lock"] # None
      BY <1>0, <2>1, Constants DEF DiskOK
    <3>. QED  BY <1>0, <2>1, <3>1, <3>2 DEF DiskOK
  <2>3. at[p] = 0
    BY <1>0, <2>1 DEF Counts
  <2>. QED  BY <1>0, <2>1, <2>2, <2>3, GotoBase DEF Stages, ClientStages, DaemonStages
<1>2. CASE UnlinkLock(p) \/ Release(p)
  <2>1. /\ UNCHANGED <<memory, faults>> /\ Unlink("lock")
        /\ \/ stage[p] = "unlink" /\ Goto(p, "take")
           \/ stage[p] = "release" /\ Goto(p, "spawn")
    BY <1>2 DEF UnlinkLock, Release
  <2>2. DiskOK'
    BY <1>0, <2>1, UnlinkFacts, Constants
  <2>3. stage[p] = "unlink" => at[p] = 0
    BY <1>0 DEF Counts
  <2>. QED  BY <1>0, <2>1, <2>2, <2>3, GotoBase DEF Stages, ClientStages
<1>3. CASE Take(p) \/ Boot(p)
  <2>1. /\ UNCHANGED <<signed, faults>>
        /\ \/ End(p) /\ UNCHANGED files
           \/ /\ Make("lock", p) /\ UNCHANGED memory
              /\ \/ stage[p] = "take" /\ Goto(p, "sign")
                 \/ stage[p] = "boot" /\ Goto(p, "signLock")
    BY <1>3 DEF Take, Boot
  <2>2. CASE End(p) /\ UNCHANGED files
    BY <1>0, <2>1, <2>2, SameDisk, EndBase DEF disk
  <2>3. CASE /\ Make("lock", p) /\ UNCHANGED memory
             /\ \/ stage[p] = "take" /\ Goto(p, "sign")
                \/ stage[p] = "boot" /\ Goto(p, "signLock")
    <3>1. DiskOK'
      BY <1>0, <2>1, <2>3, MakeFacts, Constants DEF DiskOK
    <3>2. at[p] = 0
      BY <1>0, <2>3 DEF Counts
    <3>. QED  BY <1>0, <2>1, <2>3, <3>1, <3>2, GotoBase DEF Stages, ClientStages, DaemonStages
  <2>. QED  BY <2>1, <2>2, <2>3
<1>. QED  BY <1>1, <1>2, <1>3

LEMMA ClearBase == ASSUME Base, NEW p \in Pids, Clear(p) PROVE Base'
<1>1. /\ stage[p] = "clear" /\ Unlink(Artifacts[at[p] + 1]) /\ at' = [at EXCEPT ![p] = @ + 1]
      /\ Goto(p, IF at[p] + 1 = Len(Artifacts) THEN "release" ELSE "clear")
      /\ UNCHANGED <<child, owned, passed, faults>>
  BY DEF Clear
<1>2. at \in [Pids -> 0..3] /\ at[p] \in 0..2 /\ at[p] + 1 \in 1..3
  BY <1>1 DEF Base, TypeOK, Counts
<1>3. PICK s \in {"release", "clear"} : Goto(p, s) /\ (at[p] + 1 = 3 => s = "release")
  BY <1>1, Constants
<1>4. s \in Stages
  BY DEF Stages, ClientStages
<1>5. DiskOK'
  BY <1>1, <1>2, UnlinkFacts, Constants DEF Base
<1>6. at' \in [Pids -> 0..3] /\ at'[p] = at[p] + 1 /\ \A q \in Pids : q # p => at'[q] = at[q]
  BY <1>1, <1>2
<1>7. Counts(p)'
  BY <1>2, <1>3, <1>4, <1>6, GotoFacts DEF Base, Counts
<1>. QED  BY <1>1, <1>3, <1>4, <1>5, <1>6, <1>7, GotoFacts, BaseStep DEF Base, TypeOK

\* A client's child boots: two processes go on at once.
LEMMA SpawnFacts ==
    ASSUME TypeOK, NEW c \in Pids, NEW d \in Pids, Spawn(c, d)
    PROVE  /\ stage[c] = "spawn" /\ stage[d] = "dead" /\ c # d
           /\ UNCHANGED <<disk, at, owned, passed, faults>>
           /\ stage' \in [Pids -> Stages] /\ stage'[c] = "await" /\ stage'[d] = "boot"
           /\ \A q \in Pids : q \notin {c, d} => stage'[q] = stage[q]
           /\ \A f \in Files : files[f] # d
           /\ \A q \in Pids, f \in Files : owned[q][f] # d
BY DEF Spawn, New, Fresh, TypeOK, Stages, ClientStages, DaemonStages

LEMMA SpawnBase == ASSUME Base, NEW c \in Pids, NEW d \in Pids, Spawn(c, d) PROVE Base'
<1>1. /\ stage[c] = "spawn" /\ stage[d] = "dead" /\ c # d
      /\ UNCHANGED <<disk, at, owned, passed, faults>>
      /\ stage' \in [Pids -> Stages] /\ stage'[c] = "await" /\ stage'[d] = "boot"
      /\ \A q \in Pids : q \notin {c, d} => stage'[q] = stage[q]
  BY SpawnFacts DEF Base
<1>2. TypeOK'
  BY <1>1 DEF Base, TypeOK, Spawn, disk, Stages
<1>3. \A q \in Pids : Counts(q)'
  BY <1>1 DEF Base, Counts
<1>. QED  BY <1>2, <1>3 DEF Base

\* A daemon publishes one file after the other, or stops where it may not.
LEMMA PublishFacts ==
    ASSUME Base, NEW d \in Pids, Publish(d)
    PROVE  /\ stage[d] = "publish" /\ UNCHANGED <<signed, faults>>
           /\ \/ Stop(d) /\ UNCHANGED files
              \/ /\ at[d] \in 0..2 /\ Make(Artifacts[at[d] + 1], d)
                 /\ UNCHANGED <<child, owned, passed>>
                 /\ at' \in [Pids -> 0..3] /\ at'[d] = at[d] + 1
                 /\ \A q \in Pids : q # d => at'[q] = at[q]
                 /\ \/ at[d] = 2 /\ Goto(d, "serve")
                    \/ at[d] < 2 /\ Goto(d, "publish")
<1>1. stage[d] = "publish" /\ at \in [Pids -> 0..3] /\ at[d] \in 0..2
  BY DEF Publish, Base, TypeOK, Counts
<1>. QED  BY <1>1, Constants DEF Publish

LEMMA StopFacts ==
    ASSUME TypeOK, NEW d \in Pids, Stop(d)
    PROVE  /\ stage' \in [Pids -> Stages] /\ stage'[d] = "close"
           /\ owned' \in [Pids -> [Files -> Pids \cup {None}]] /\ owned'[d] = files
           /\ \A q \in Pids : q # d => stage'[q] = stage[q] /\ owned'[q] = owned[q]
           /\ at' = at /\ child' = child /\ passed' = passed
BY DEF Stop, Goto, TypeOK, Stages, DaemonStages, WriterStages

LEMMA StopBase ==
    ASSUME Base, NEW d \in Pids, Stop(d), UNCHANGED disk, faults' \in 0..MaxFaults
    PROVE  Base'
<1>1. Counts(d)'
  BY StopFacts DEF Base, Counts
<1>. QED  BY <1>1, SameDisk, StopFacts, BaseStep DEF Base, TypeOK

LEMMA PublishBase == ASSUME Base, NEW d \in Pids, Publish(d) PROVE Base'
<1>1. UNCHANGED <<signed, faults>> /\ faults \in 0..MaxFaults
  BY DEF Publish, Base, TypeOK
<1>2. CASE Stop(d) /\ UNCHANGED files
  BY <1>1, <1>2, StopBase DEF disk
<1>3. CASE ~(Stop(d) /\ UNCHANGED files)
  <2>1. /\ at[d] \in 0..2 /\ Make(Artifacts[at[d] + 1], d)
        /\ UNCHANGED <<child, owned, passed>>
        /\ at' \in [Pids -> 0..3] /\ at'[d] = at[d] + 1
        /\ \A q \in Pids : q # d => at'[q] = at[q]
        /\ \/ at[d] = 2 /\ Goto(d, "serve")
           \/ at[d] < 2 /\ Goto(d, "publish")
    BY <1>3, PublishFacts
  <2>2. PICK s \in {"serve", "publish"} : Goto(d, s) /\ (at[d] = 2 => s = "serve")
    BY <2>1
  <2>3. s \in Stages
    BY DEF Stages, DaemonStages, WriterStages
  <2>4. Artifacts[at[d] + 1] \in Files \ {"lock"}
    BY <2>1, Constants
  <2>5. DiskOK'
    BY <1>1, <2>1, <2>4, MakeFacts, Constants DEF Base, TypeOK, DiskOK
  <2>6. Counts(d)'
    BY <2>1, <2>2, <2>3, GotoFacts DEF Base, Counts
  <2>. QED  BY <1>1, <2>1, <2>2, <2>3, <2>5, <2>6, GotoFacts, BaseStep DEF Base, TypeOK
<1>. QED  BY <1>2, <1>3

\* An early crash only leaves the lock to unlink.
LEMMA CrashFacts ==
    ASSUME TypeOK, NEW d \in Pids, CrashEarly(d)
    PROVE  /\ stage[d] = "publish" /\ UNCHANGED <<disk, at, child, owned>>
           /\ stage' \in [Pids -> Stages] /\ stage'[d] = "remove"
           /\ passed' \in [Pids -> SUBSET Files] /\ passed'[d] = {"lock"}
           /\ \A q \in Pids : q # d => stage'[q] = stage[q] /\ passed'[q] = passed[q]
BY Constants DEF CrashEarly, Goto, TypeOK, Stages, DaemonStages, WriterStages

LEMMA ShutdownBase ==
    ASSUME Base, NEW d \in Pids, Shutdown(d) \/ CrashEarly(d)
    PROVE  Base'
<1>1. faults' \in 0..MaxFaults
  BY FaultCounts DEF Shutdown, CrashEarly, Base
<1>2. CASE Shutdown(d)
  BY <1>1, <1>2, StopBase DEF Shutdown
<1>3. CASE CrashEarly(d)
  <2>1. Counts(d)'
    BY <1>3, CrashFacts DEF Base, Counts
  <2>. QED  BY <1>1, <1>3, <2>1, CrashFacts, SameDisk, BaseStep DEF Base, TypeOK
<1>. QED  BY <1>2, <1>3

\* A check settles one name of those that were found.
LEMMA CheckFacts ==
    ASSUME TypeOK, NEW d \in Pids, NEW f \in Files, Check(d, f)
    PROVE  /\ stage[d] = "remove" /\ owned[d][f] # None
           /\ UNCHANGED <<disk, stage, at, child, faults>>
           /\ owned' \in [Pids -> [Files -> Pids \cup {None}]]
           /\ \A h \in Files : owned'[d][h] # None => h # f /\ owned[d][h] # None
           /\ passed' \in [Pids -> SUBSET Files] /\ passed'[d] \subseteq passed[d] \cup {f}
           /\ \A q \in Pids : q # d => owned'[q] = owned[q] /\ passed'[q] = passed[q]
BY DEF Check, TypeOK

LEMMA RemoveFacts ==
    ASSUME TypeOK, NEW d \in Pids, NEW f \in Files, Remove(d, f)
    PROVE  /\ stage[d] = "remove" /\ f \in passed[d] /\ Unlink(f)
           /\ UNCHANGED <<stage, at, child, owned, faults>>
           /\ passed' \in [Pids -> SUBSET Files] /\ passed'[d] = passed[d] \ {f}
           /\ \A q \in Pids : q # d => passed'[q] = passed[q]
BY DEF Remove, TypeOK

LEMMA RemoveBase ==
    ASSUME Base, NEW d \in Pids, NEW f \in Files, Check(d, f) \/ Remove(d, f)
    PROVE  Base'
<1>1. CASE Check(d, f)
  <2>1. DiskOK' /\ Counts(d)'
    BY <1>1, CheckFacts, SameDisk DEF Base, Counts
  <2>. QED  BY <1>1, <2>1, CheckFacts, BaseStep DEF Base, TypeOK, Stages
<1>2. CASE Remove(d, f)
  <2>1. DiskOK' /\ Counts(d)'
    BY <1>2, RemoveFacts, UnlinkFacts DEF Base, Counts
  <2>. QED  BY <1>2, <2>1, RemoveFacts, BaseStep DEF Base, TypeOK, Stages
<1>. QED  BY <1>1, <1>2

LEMMA NextBase == ASSUME Base, [Next]_vars PROVE Base'
<1>1. CASE Next
  BY <1>1, QuietBase, LockBase, ClearBase, SpawnBase, PublishBase, ShutdownBase, RemoveBase
     DEF Next, ClientStep, DaemonStep, Quiet
<1>2. CASE UNCHANGED vars
  BY <1>2 DEF vars, Base, TypeOK, Counts
<1>. QED  BY <1>1, <1>2

LEMMA InitBase == ASSUME Init PROVE Base
<1>1. TypeOK
  <2>1. signed \in BOOLEAN /\ ~signed
    BY DEF Init
  <2>2. faults \in 0..MaxFaults /\ files \in [Files -> Pids \cup {None}]
    BY Constants DEF Init
  <2>3. /\ at \in [Pids -> 0..3] /\ stage \in [Pids -> {"dead"} \cup ClientStages \cup DaemonStages]
        /\ child \in [Pids -> Pids \cup {None}]
        /\ owned \in [Pids -> [Files -> Pids \cup {None}]]
        /\ passed \in [Pids -> SUBSET Files]
    BY Constants DEF Init
  <2>. QED  BY <2>1, <2>2, <2>3 DEF TypeOK
<1>. QED  BY <1>1 DEF Init, Base, Counts
-----------------------------------------------------------------------------
\* Whoever has the lock and runs is alone with it.
LEMMA Alone ==
    ASSUME IInv, NEW p \in Pids, files["lock"] = p
    PROVE  /\ \A q \in Pids : q # p => stage[q] \notin HolderStages /\ ~Claims(q)
           /\ stage[p] # "dead" => \A q \in Pids : stage[q] # "unlink"
BY DEF IInv, LockOK

\* Nobody goes by a lock that is not there, or whose maker is dead.
LEMMA Unheld ==
    ASSUME IInv, files["lock"] = None \/ stage[files["lock"]] = "dead"
    PROVE  \A q \in Pids : stage[q] \notin HolderStages /\ ~Claims(q)
<1>. SUFFICES ASSUME NEW q \in Pids PROVE stage[q] \notin HolderStages /\ ~Claims(q)
  OBVIOUS
<1>1. CASE files["lock"] = q
  <2>1. stage[q] = "dead"
    BY <1>1, Constants
  <2>. QED  BY <2>1 DEF HolderStages, IInv, LockOK
<1>2. CASE files["lock"] # q
  BY <1>2 DEF IInv, LockOK
<1>. QED  BY <1>1, <1>2

\* Every process but one is where it was, and the client, if any, is the same.
LEMMA SameClient ==
    ASSUME OneClient, NEW p \in Pids, stage' \in [Pids -> Stages],
           \A q \in Pids : q # p => stage'[q] = stage[q],
           stage'[p] \in ClientStages => stage[p] \in ClientStages
    PROVE  OneClient'
BY DEF OneClient

\* A process goes on; the lock stays, or nobody else goes by it.
LEMMA StepInv ==
    ASSUME IInv, Base', OneClient', NEW p \in Pids,
           stage[p] = "dead" => Fresh(p),
           \A q \in Pids : q # p =>
               stage'[q] = stage[q] /\ owned'[q] = owned[q] /\ passed'[q] = passed[q],
           \/ files'["lock"] = files["lock"]
           \/ \A q \in Pids : q # p =>
                  stage[q] \notin HolderStages /\ ~Claims(q) /\ stage[q] # "unlink",
           stage'[p] \in HolderStages \/ Claims(p)' => files'["lock"] = p,
           Claims(p)' => stage'[p] \in {"close", "remove"}, Once(p)',
           stage'[p] = "unlink" => /\ files'["lock"] \in Pids \ {p}
                                   /\ stage[files'["lock"]] = "dead"
    PROVE  IInv'
<1>. SUFFICES ASSUME NEW q \in Pids
              PROVE  /\ stage'[q] \in HolderStages \/ Claims(q)' => files'["lock"] = q
                     /\ Claims(q)' => stage'[q] \in {"close", "remove"}
                     /\ Once(q)'
                     /\ stage'[q] = "unlink" =>
                            files'["lock"] \in Pids /\ stage'[files'["lock"]] = "dead"
  BY DEF IInv, LockOK, Claims, Once
<1>1. CASE q = p
  BY <1>1
<1>2. CASE q # p
  <2>1. stage'[q] = stage[q] /\ (Claims(q)' <=> Claims(q)) /\ (Once(q)' <=> Once(q))
    BY <1>2 DEF Claims, Once
  <2>2. CASE stage[q] = "unlink"
    <3>1. /\ files["lock"] \in Pids /\ stage[files["lock"]] = "dead"
          /\ files'["lock"] = files["lock"]
      BY <1>2, <2>2 DEF IInv, LockOK
    <3>2. files["lock"] # p
      BY <3>1, Constants DEF Fresh
    <3>3. stage'[files["lock"]] = "dead"
      BY <3>1, <3>2
    <3>. QED  BY <2>1, <2>2, <3>1, <3>3 DEF IInv, LockOK, HolderStages
  <2>3. CASE stage[q] # "unlink"
    BY <1>2, <2>1, <2>3 DEF IInv, LockOK
  <2>. QED  BY <2>2, <2>3
<1>. QED  BY <1>1, <1>2

\* A process ends.
LEMMA EndInv ==
    ASSUME IInv, Base', NEW p \in Pids, End(p), UNCHANGED files, stage[p] # "dead"
    PROVE  IInv'
<1>1. /\ stage' \in [Pids -> Stages] /\ stage'[p] = "dead"
      /\ owned'[p] = Nothing /\ passed'[p] = {}
      /\ \A q \in Pids : q # p =>
             stage'[q] = stage[q] /\ owned'[q] = owned[q] /\ passed'[q] = passed[q]
  BY EndFacts DEF IInv, Base
<1>2. OneClient'
  BY <1>1, SameClient DEF IInv, ClientStages
<1>3. ~Claims(p)' /\ Once(p)' /\ stage'[p] \notin HolderStages
  BY <1>1, Constants DEF Claims, Once, HolderStages
<1>. QED  BY <1>1, <1>2, <1>3, StepInv

\* A process goes on and remembers what it did.
LEMMA GotoInv ==
    ASSUME IInv, Base', NEW p \in Pids, NEW s \in Stages, Goto(p, s), UNCHANGED <<owned, passed>>,
           s \in ClientStages => stage[p] \in ClientStages,
           stage[p] \notin {"dead", "close", "remove"} \/ (stage[p] = "close" /\ s = "remove"),
           \/ files'["lock"] = files["lock"]
           \/ \A q \in Pids : q # p =>
                  stage[q] \notin HolderStages /\ ~Claims(q) /\ stage[q] # "unlink",
           s \in HolderStages => files'["lock"] = p,
           s = "remove" => files'["lock"] = p,
           s = "unlink" => files'["lock"] \in Pids \ {p} /\ stage[files'["lock"]] = "dead"
    PROVE  IInv'
<1>1. /\ stage' \in [Pids -> Stages] /\ stage'[p] = s
      /\ \A q \in Pids : q # p => stage'[q] = stage[q]
  BY GotoFacts DEF IInv, Base
<1>2. OneClient'
  BY <1>1, SameClient DEF IInv
<1>3. Once(p)' /\ (Claims(p)' => s = "remove" /\ files'["lock"] = p)
  BY DEF IInv, LockOK, Claims, Once
<1>. QED  BY <1>1, <1>2, <1>3, StepInv

\* With one caller at most, there is none when another comes.
LEMMA NoClient ==
    ASSUME MaxClients <= 1, Cardinality(Clients) < MaxClients
    PROVE  \A q \in Pids : stage[q] \notin ClientStages
<1>1. IsFiniteSet(Clients) /\ Cardinality(Clients) \in Nat
  BY Constants, FS_Subset, FS_CardinalityType DEF Clients
<1>2. Cardinality(Clients) = 0
  BY <1>1, Constants
<1>3. Clients = {}
  BY <1>1, <1>2, FS_EmptySet
<1>. QED  BY <1>3 DEF Clients

LEMMA QuietInv ==
    ASSUME IInv, MaxClients <= 1, NEW p \in Pids, Quiet(p)
    PROVE  IInv'
<1>1. Base' /\ UNCHANGED files /\ (Further(p) \/ (End(p) /\ stage[p] # "dead"))
  BY QuietBase, QuietFacts DEF IInv, Base, disk
<1>2. CASE End(p) /\ stage[p] # "dead"
  BY <1>1, <1>2, EndInv
<1>3. CASE Further(p)
  <2>1. PICK s \in Stages \ {"dead"} :
            /\ Goto(p, s) /\ UNCHANGED <<files, owned, passed>>
            /\ \/ /\ stage[p] = "dead" /\ s = "ask"
                  /\ Fresh(p) /\ Cardinality(Clients) < MaxClients
               \/ stage[p] = "ask" /\ s = "look"
               \/ stage[p] = "look" /\ s \in {"spawn", "readRecord"}
               \/ stage[p] = "readRecord" /\ s = "readLock"
               \/ stage[p] = "readLock" /\ s = "take"
               \/ /\ stage[p] = "readLock" /\ s = "unlink"
                  /\ files["lock"] # None /\ files["lock"] \notin Live
               \/ stage[p] = "open" /\ s = "publish"
               \/ stage[p] = "close" /\ s = "remove"
    BY <1>3 DEF Further, disk, memory
  <2>2. CASE stage[p] = "dead"
    <3>1. /\ stage' \in [Pids -> Stages] /\ stage'[p] = "ask"
          /\ \A q \in Pids : q # p => stage'[q] = stage[q]
      BY <2>1, <2>2, GotoFacts DEF IInv, Base
    <3>2. \A q \in Pids : stage[q] \notin ClientStages
      BY <2>1, <2>2, NoClient
    <3>3. OneClient'
      BY <3>1, <3>2 DEF OneClient
    <3>4. ~Claims(p)' /\ Once(p)'
      BY <2>1, <2>2 DEF IInv, LockOK, Claims, Once
    <3>. QED  BY <1>1, <2>1, <2>2, <3>1, <3>3, <3>4, StepInv DEF HolderStages
  <2>3. CASE stage[p] # "dead"
    <3>1. s = "unlink" => files["lock"] \in Pids \ {p} /\ stage[files["lock"]] = "dead"
      <4>1. files["lock"] \in Pids \cup {None}
        BY Constants DEF IInv, Base, TypeOK
      <4>. QED  BY <2>1, <4>1 DEF Live
    <3>2. s \in HolderStages \/ s = "remove" => files["lock"] = p
      BY <2>1, <2>3 DEF HolderStages, IInv, LockOK
    <3>3. s \in ClientStages => stage[p] \in ClientStages
      BY <2>1, <2>3 DEF ClientStages
    <3>. QED  BY <1>1, <2>1, <2>3, <3>1, <3>2, <3>3, GotoInv
  <2>. QED  BY <2>2, <2>3
<1>. QED  BY <1>1, <1>2, <1>3

LEMMA SignInv ==
    ASSUME IInv, NEW p \in Pids, Sign(p) \/ SignLock(p)
    PROVE  IInv'
<1>1. PICK s \in {"clear", "open"} :
          /\ Goto(p, s) /\ UNCHANGED <<files, owned, passed>>
          /\ \/ stage[p] = "sign" /\ s = "clear"
             \/ stage[p] = "signLock" /\ s = "open"
  BY DEF Sign, SignLock, memory
<1>2. s \in Stages /\ (s \in ClientStages => stage[p] \in ClientStages)
  BY <1>1 DEF Stages, ClientStages, DaemonStages
<1>3. files["lock"] = p
  BY <1>1 DEF IInv, LockOK, HolderStages
<1>4. Base'
  BY LockBase DEF IInv
<1>. QED  BY <1>1, <1>2, <1>3, <1>4, GotoInv

\* The lock goes by its name: with one caller it is a dead one, or its own.
LEMMA UnlinkInv ==
    ASSUME IInv, NEW p \in Pids, UnlinkLock(p) \/ Release(p)
    PROVE  IInv'
<1>1. PICK s \in {"take", "spawn"} :
          /\ Goto(p, s) /\ UNCHANGED <<owned, passed>>
          /\ \/ stage[p] = "unlink" /\ s = "take"
             \/ stage[p] = "release" /\ s = "spawn"
  BY DEF UnlinkLock, Release, memory
<1>2. s \in Stages /\ stage[p] \in ClientStages /\ s \notin HolderStages
  BY <1>1 DEF Stages, ClientStages, HolderStages
<1>3. \A q \in Pids : q # p =>
          stage[q] \notin HolderStages /\ ~Claims(q) /\ stage[q] # "unlink"
  <2>1. CASE stage[p] = "unlink"
    <3>1. stage[files["lock"]] = "dead"
      BY <2>1 DEF IInv, LockOK
    <3>2. \A q \in Pids : stage[q] = "unlink" => q = p
      BY <2>1 DEF IInv, OneClient, ClientStages
    <3>. QED  BY <3>1, <3>2, Unheld
  <2>2. CASE stage[p] = "release"
    <3>1. files["lock"] = p
      BY <2>2 DEF IInv, LockOK, HolderStages
    <3>. QED  BY <2>2, <3>1, Alone
  <2>. QED  BY <1>1, <2>1, <2>2
<1>4. Base'
  BY LockBase DEF IInv
<1>. QED  BY <1>1, <1>2, <1>3, <1>4, GotoInv

\* A reclaimer that has the lock clears other names.
LEMMA ClearInv ==
    ASSUME IInv, NEW p \in Pids, Clear(p)
    PROVE  IInv'
<1>1. PICK s \in {"release", "clear"} : Goto(p, s) /\ UNCHANGED <<owned, passed>>
  BY DEF Clear
<1>2. /\ stage[p] = "clear" /\ at[p] + 1 \in 1..3 /\ Unlink(Artifacts[at[p] + 1])
  BY DEF Clear, IInv, Base, TypeOK, Counts
<1>3. files'["lock"] = files["lock"]
  BY <1>2, UnlinkFacts, Constants DEF IInv, Base
<1>4. files["lock"] = p
  BY <1>2 DEF IInv, LockOK, HolderStages
<1>5. s \in Stages /\ stage[p] \in ClientStages
  BY <1>2 DEF Stages, ClientStages
<1>6. Base'
  BY ClearBase DEF IInv
<1>. QED  BY <1>1, <1>2, <1>3, <1>4, <1>5, <1>6, GotoInv

\* O_EXCL: who makes the lock finds none, so nobody goes by it.
LEMMA MakeInv ==
    ASSUME IInv, NEW p \in Pids, Take(p) \/ Boot(p)
    PROVE  IInv'
<1>0. Base' /\ stage[p] \in {"take", "boot"}
  BY LockBase DEF IInv, Take, Boot
<1>1. CASE End(p) /\ UNCHANGED files
  BY <1>0, <1>1, EndInv
<1>2. CASE ~(End(p) /\ UNCHANGED files)
  <2>1. PICK s \in {"sign", "signLock"} :
            /\ Make("lock", p) /\ UNCHANGED <<owned, passed>> /\ files["lock"] = None
            /\ Goto(p, s)
            /\ \/ stage[p] = "take" /\ s = "sign"
               \/ stage[p] = "boot" /\ s = "signLock"
    BY <1>2 DEF Take, Boot, memory
  <2>2. s \in Stages /\ (s \in ClientStages => stage[p] \in ClientStages)
    BY <2>1 DEF Stages, ClientStages, DaemonStages
  <2>3. files'["lock"] = p
    BY <2>1, MakeFacts, Constants DEF IInv, Base
  <2>4. \A q \in Pids : stage[q] \notin HolderStages /\ ~Claims(q)
    BY <2>1, Unheld
  <2>5. \A q \in Pids : stage[q] # "unlink"
    BY <2>1, Constants DEF IInv, LockOK
  <2>. QED  BY <1>0, <2>1, <2>2, <2>3, <2>4, <2>5, GotoInv
<1>. QED  BY <1>1, <1>2

\* A new process is remembered nowhere.
LEMMA SpawnInv ==
    ASSUME IInv, NEW c \in Pids, NEW d \in Pids, Spawn(c, d)
    PROVE  IInv'
<1>1. /\ stage[c] = "spawn" /\ stage[d] = "dead" /\ c # d
      /\ UNCHANGED <<files, at, owned, passed>>
      /\ stage' \in [Pids -> Stages] /\ stage'[c] = "await" /\ stage'[d] = "boot"
      /\ \A q \in Pids : q \notin {c, d} => stage'[q] = stage[q]
      /\ \A f \in Files : files[f] # d
  BY SpawnFacts DEF IInv, Base, disk
<1>2. Base'
  BY SpawnBase DEF IInv
<1>3. OneClient'
  <2>1. stage'[d] \notin ClientStages /\ stage[c] \in ClientStages
    BY <1>1 DEF ClientStages
  <2>. QED  BY <1>1, <2>1 DEF IInv, OneClient
<1>4. LockOK'
  <2>. SUFFICES ASSUME NEW q \in Pids
                PROVE  /\ stage'[q] \in HolderStages \/ Claims(q) => files["lock"] = q
                       /\ Claims(q) => stage'[q] \in {"close", "remove"}
                       /\ Once(q)
                       /\ stage'[q] = "unlink" =>
                              files["lock"] \in Pids /\ stage'[files["lock"]] = "dead"
    BY <1>1 DEF LockOK, Claims, Once
  <2>1. CASE q \in {c, d}
    BY <1>1, <2>1 DEF IInv, LockOK, HolderStages
  <2>2. CASE q \notin {c, d}
    <3>1. stage[q] = "unlink" => files["lock"] \in Pids /\ stage[files["lock"]] = "dead"
      BY DEF IInv, LockOK
    <3>2. stage[q] = "unlink" => files["lock"] \notin {c, d}
      BY <1>1, <3>1, Constants
    <3>. QED  BY <1>1, <2>2, <3>1, <3>2 DEF IInv, LockOK
  <2>. QED  BY <2>1, <2>2
<1>. QED  BY <1>2, <1>3, <1>4 DEF IInv

\* A daemon that stops, or dies before it served, has the lock: what it will
\* unlink under that name is its own.
LEMMA StopInv ==
    ASSUME IInv, Base', NEW d \in Pids, Stop(d), UNCHANGED files,
           stage[d] \in {"publish", "serve"}
    PROVE  IInv'
<1>1. /\ stage' \in [Pids -> Stages] /\ stage'[d] = "close" /\ passed' = passed
      /\ \A q \in Pids : q # d => stage'[q] = stage[q] /\ owned'[q] = owned[q]
  BY StopFacts DEF IInv, Base
<1>2. files["lock"] = d
  BY DEF IInv, LockOK, HolderStages
<1>3. OneClient'
  BY <1>1, SameClient DEF ClientStages, IInv
<1>4. Once(d)'
  BY <1>1 DEF IInv, LockOK, Claims, Once
<1>. QED  BY <1>1, <1>2, <1>3, <1>4, StepInv

LEMMA CrashInv ==
    ASSUME IInv, NEW d \in Pids, Shutdown(d) \/ CrashEarly(d)
    PROVE  IInv'
<1>1. Base'
  BY ShutdownBase DEF IInv
<1>2. CASE Shutdown(d)
  BY <1>1, <1>2, StopInv DEF Shutdown, disk
<1>3. CASE CrashEarly(d)
  <2>1. /\ stage[d] = "publish" /\ UNCHANGED <<files, owned>>
        /\ stage' \in [Pids -> Stages] /\ stage'[d] = "remove"
        /\ \A q \in Pids : q # d => stage'[q] = stage[q] /\ passed'[q] = passed[q]
    BY <1>3, CrashFacts DEF IInv, Base, disk
  <2>2. files["lock"] = d
    BY <2>1 DEF IInv, LockOK, HolderStages
  <2>3. OneClient'
    BY <2>1, SameClient DEF ClientStages, IInv
  <2>4. Once(d)'
    BY <2>1 DEF IInv, LockOK, Claims, Once
  <2>. QED  BY <1>1, <2>1, <2>2, <2>3, <2>4, StepInv
<1>. QED  BY <1>2, <1>3

LEMMA PublishInv ==
    ASSUME IInv, NEW d \in Pids, Publish(d)
    PROVE  IInv'
<1>0. Base' /\ stage[d] = "publish"
  BY PublishBase DEF IInv, Publish
<1>1. CASE Stop(d) /\ UNCHANGED files
  BY <1>0, <1>1, StopInv
<1>2. CASE ~(Stop(d) /\ UNCHANGED files)
  <2>1. /\ at[d] \in 0..2 /\ Make(Artifacts[at[d] + 1], d) /\ UNCHANGED <<owned, passed>>
        /\ Goto(d, "serve") \/ Goto(d, "publish")
    BY <1>2, PublishFacts DEF IInv
  <2>2. PICK s \in {"serve", "publish"} : Goto(d, s)
    BY <2>1
  <2>3. at[d] + 1 \in 1..3
    BY <2>1
  <2>4. Artifacts[at[d] + 1] \in Files \ {"lock"}
    BY <2>3, Constants
  <2>5. files'["lock"] = files["lock"]
    BY <2>1, <2>4, MakeFacts, Constants DEF IInv, Base
  <2>6. files["lock"] = d
    BY <1>0 DEF IInv, LockOK, HolderStages
  <2>7. s \in Stages /\ s \notin ClientStages
    BY DEF Stages, ClientStages, DaemonStages, WriterStages
  <2>. QED  BY <1>0, <2>1, <2>2, <2>5, <2>6, <2>7, GotoInv
<1>. QED  BY <1>1, <1>2

\* The removal of the lock is on its way only as long as it is the daemon's.
LEMMA RemoveInv ==
    ASSUME IInv, NEW d \in Pids, NEW f \in Files, Check(d, f) \/ Remove(d, f)
    PROVE  IInv'
<1>1. Base' /\ OneClient'
  BY RemoveBase DEF IInv, OneClient, Check, Remove
<1>2. CASE Check(d, f)
  <2>1. /\ stage[d] = "remove" /\ UNCHANGED <<files, stage>>
        /\ \A q \in Pids : q # d => owned'[q] = owned[q] /\ passed'[q] = passed[q]
        /\ Claims(d)' => Claims(d)
    BY <1>2, CheckFacts, Constants DEF IInv, Base, disk, Claims
  <2>2. Once(d)'
    BY <1>2, CheckFacts, Constants DEF IInv, Base, LockOK, Once
  <2>. QED  BY <1>1, <2>1, <2>2, StepInv DEF IInv, LockOK
<1>3. CASE Remove(d, f)
  <2>1. /\ stage[d] = "remove" /\ f \in passed[d] /\ UNCHANGED <<stage, owned>>
        /\ \A q \in Pids : q # d => passed'[q] = passed[q]
        /\ \A h \in Files : h # f => files'[h] = files[h]
        /\ passed'[d] = passed[d] \ {f}
    BY <1>3, RemoveFacts, UnlinkFacts DEF IInv, Base
  <2>2. Once(d)' /\ (Claims(d)' => Claims(d))
    BY <2>1 DEF Claims, Once, IInv, LockOK
  <2>3. CASE f # "lock"
    <3>1. files'["lock"] = files["lock"]
      BY <2>1, <2>3, Constants
    <3>. QED  BY <1>1, <2>1, <2>2, <3>1, StepInv DEF IInv, LockOK
  <2>4. CASE f = "lock"
    <3>1. Claims(d)
      BY <2>1, <2>4 DEF Claims
    <3>2. files["lock"] = d
      BY <3>1 DEF IInv, LockOK
    <3>3. \A q \in Pids : q # d =>
              stage[q] \notin HolderStages /\ ~Claims(q) /\ stage[q] # "unlink"
      BY <2>1, <3>2, Alone
    <3>4. ~Claims(d)' /\ stage'[d] \notin HolderStages
      BY <2>1, <2>4 DEF Claims, Once, IInv, LockOK, HolderStages
    <3>. QED  BY <1>1, <2>1, <2>2, <3>3, <3>4, StepInv
  <2>. QED  BY <2>3, <2>4
<1>. QED  BY <1>2, <1>3
-----------------------------------------------------------------------------
LEMMA InitInv == ASSUME Init PROVE IInv
<1>1. /\ \A p \in Pids : stage[p] = "dead" /\ owned[p] = Nothing /\ passed[p] = {}
      /\ files["lock"] = None
  BY Constants DEF Init
<1>2. OneClient /\ LockOK
  BY <1>1, Constants DEF OneClient, LockOK, Claims, Once, HolderStages, ClientStages
<1>. QED  BY <1>2, InitBase DEF IInv

LEMMA NextInv == ASSUME IInv, MaxClients <= 1, [Next]_vars PROVE IInv'
<1>1. CASE Next
  BY <1>1, QuietInv, SignInv, UnlinkInv, ClearInv, MakeInv, SpawnInv, PublishInv, RemoveInv,
     CrashInv DEF Next, ClientStep, DaemonStep, Quiet
<1>2. CASE UNCHANGED vars
  <2>1. Base'
    BY <1>2, NextBase DEF IInv
  <2>. QED
    BY <1>2, <2>1 DEF vars, IInv, OneClient, LockOK, Claims, Once
<1>. QED  BY <1>1, <1>2

LEMMA Invariance == ASSUME MaxClients <= 1 PROVE Spec => []IInv
<1>1. Init => IInv
  BY InitInv
<1>2. IInv /\ [Next]_vars => IInv'
  BY NextInv
<1>. QED  BY <1>1, <1>2, PTL DEF Spec

\* What a step can do to a file of a daemon that serves.
LEMMA ServingStep ==
    ASSUME IInv, Next, NEW d \in Pids, NEW f \in Files, stage[d] = "serve", files[f] = d,
           \A e \in Pids : f \notin passed[e]
    PROVE  files'[f] = d
<1>1. /\ files["lock"] = d
      /\ \A q \in Pids : q # d => stage[q] \notin HolderStages
      /\ \A q \in Pids : stage[q] # "unlink"
  <2>1. files["lock"] = d
    BY DEF IInv, LockOK, HolderStages
  <2>. QED  BY <2>1, Alone
<1>2. PICK p \in Pids :
          \/ Quiet(p) \/ Sign(p) \/ SignLock(p) \/ UnlinkLock(p) \/ Release(p) \/ Take(p)
          \/ Boot(p) \/ Clear(p) \/ Publish(p) \/ Shutdown(p) \/ CrashEarly(p)
          \/ (\E c \in Pids : Spawn(p, c)) \/ (\E h \in Files : Check(p, h) \/ Remove(p, h))
  BY DEF Next, ClientStep, DaemonStep, Quiet
<1>3. CASE Quiet(p)
  BY <1>3, QuietFacts DEF IInv, Base, disk
<1>4. CASE Sign(p) \/ SignLock(p) \/ Shutdown(p) \/ CrashEarly(p) \/ \E c \in Pids : Spawn(p, c)
  BY <1>4 DEF Sign, SignLock, Shutdown, CrashEarly, Spawn, disk
<1>5. CASE UnlinkLock(p) \/ Release(p) \/ Clear(p) \/ Publish(p)
  BY <1>1, <1>5 DEF UnlinkLock, Release, Clear, Publish, HolderStages
<1>6. CASE Take(p) \/ Boot(p)
  BY <1>1, <1>6, Constants DEF Take, Boot
<1>7. CASE \E h \in Files : Check(p, h) \/ Remove(p, h)
  <2>1. PICK h \in Files : Check(p, h) \/ Remove(p, h)
    BY <1>7
  <2>2. CASE Check(p, h)
    BY <2>2, CheckFacts DEF IInv, Base, disk
  <2>3. CASE Remove(p, h)
    BY <2>3, RemoveFacts, UnlinkFacts DEF IInv, Base
  <2>. QED  BY <2>1, <2>2, <2>3
<1>. QED  BY <1>2, <1>3, <1>4, <1>5, <1>6, <1>7
-----------------------------------------------------------------------------
\* Every variable keeps its type, however many processes ask for a daemon at
\* once: no reclaimer clears and no daemon publishes more files than there are,
\* and an identity is only ever in a lock file that is there.
THEOREM TypeCorrect == Spec => []TypeOK
<1>1. Init => Base
  BY InitBase
<1>2. Base /\ [Next]_vars => Base'
  BY NextBase
<1>3. Base => TypeOK
  BY DEF Base
<1>. QED  BY <1>1, <1>2, <1>3, PTL DEF Spec

\* As long as one process at a time asks for a daemon, whoever acts on the
\* authority of the lock has it, whatever reclaims, starts and late unlinks of
\* earlier daemons are under way, and whichever of them are killed.
THEOREM TheLockIsHeld == ASSUME MaxClients <= 1 PROVE Spec => []HoldersHaveTheLock
<1>1. IInv => HoldersHaveTheLock
  BY DEF IInv, LockOK, HoldersHaveTheLock, Holders
<1>. QED  BY <1>1, Invariance, PTL

\* So, under the same hypothesis, one daemon at most has the ledger open and is
\* not yet removing its files; with two callers a second one comes up.
THEOREM OneDaemonAtATime == ASSUME MaxClients <= 1 PROVE Spec => []OneDaemon
<1>1. IInv => OneDaemon
  <2>. SUFFICES ASSUME IInv PROVE Cardinality(Writers \cap Holders) <= 1
    BY DEF OneDaemon
  <2>1. \A d, e \in Writers \cap Holders : d = e
    BY DEF Holders, IInv, LockOK
  <2>2. CASE Writers \cap Holders = {}
    BY <2>2, FS_EmptySet
  <2>3. CASE Writers \cap Holders # {}
    <3>1. PICK d : d \in Writers \cap Holders
      BY <2>3
    <3>2. Writers \cap Holders = {d}
      BY <2>1, <3>1
    <3>. QED  BY <3>2, FS_Singleton
  <2>. QED  BY <2>2, <2>3
<1>. QED  BY <1>1, Invariance, PTL

\* And a daemon that serves loses none of its four files, except to a stopping
\* daemon whose check of that name passed before (which DaemonLockUnlinked.cfg
\* shows to happen).
THEOREM OnlyALateUnlinkTakes == ASSUME MaxClients <= 1 PROVE Spec => ServingKeepsItsFiles
<1>1. ASSUME IInv, [Next]_vars
      PROVE  [\A d \in Pids, f \in Files :
                 stage[d] = "serve" /\ stage'[d] = "serve" /\ files[f] = d =>
                     files'[f] = d \/ \E e \in Pids : f \in passed[e]]_vars
  BY <1>1, ServingStep
<1>. QED  BY <1>1, Invariance, PTL DEF Spec, ServingKeepsItsFiles
=============================================================================
