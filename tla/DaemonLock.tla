----------------------------- MODULE DaemonLock -----------------------------
(***************************************************************************)
(* How one state directory comes to have one daemon: ensureDaemon and      *)
(* reclaimDeadDaemon of src/core/control.mjs, the start of src/daemon.mjs  *)
(* and shutdownResources of src/core/shutdown.mjs.  The files of the       *)
(* directory are what the processes share; each step below is one system   *)
(* call on them, so the steps of several processes interleave, and any     *)
(* process may be killed between two.  A file is known by the process that *)
(* made it, which is what its inode, or the pid and start time in it, say. *)
(***************************************************************************)
EXTENDS Naturals, Sequences, FiniteSets

CONSTANTS Pids,        \* process identities: a pid with its start time
          None,        \* no process, or a file that is not there
          MaxClients,  \* bound: ensureDaemon calls at once
          MaxFaults    \* bound: kills, stops, failed starts, reused pids

ASSUME LockAssumption ==
    /\ None \notin Pids /\ IsFiniteSet(Pids)
    /\ MaxClients \in Nat /\ MaxFaults \in Nat

\* Published in this order by a daemon, cleared in this order by a reclaimer.
MutArtifacts == <<"socket", "token", "record", "lock">>
Artifacts == <<"socket", "token", "record">>
Files == {"lock", "socket", "token", "record"}

ClientStages == {"ask", "look", "readRecord", "readLock", "unlink", "take",
                 "sign", "clear", "release", "spawn", "await"}
\* From the moment it has opened the ledger until its process ends: nothing
\* stops the handlers that still run from appending (EventStore.close only waits
\* for the writes it finds queued).
WriterStages == {"publish", "serve", "close", "remove"}
DaemonStages == {"boot", "signLock", "open"} \cup WriterStages
\* What is done on the authority of the lock: clearing another's files, and
\* being the daemon up to where its own files are removed.
HolderStages == {"sign", "clear", "release", "signLock", "open", "publish", "serve", "close"}

VARIABLES files,    \* who made each file that is there
          signed,   \* the lock file holds its maker's identity
          stage,    \* where each process stands
          at,       \* how many artifacts it has published or cleared
          child,    \* the daemon a client waits for
          owned,    \* what a stopping daemon found, file by file, and has not checked
          passed,   \* the names whose check has passed: the unlink is on its way
          faults

vars == <<files, signed, stage, at, child, owned, passed, faults>>

Live == {p \in Pids : stage[p] # "dead"}
Clients == {p \in Pids : stage[p] \in ClientStages}
Writers == {p \in Pids : stage[p] \in WriterStages}
Holders == {p \in Pids : stage[p] \in HolderStages}
Nothing == [f \in Files |-> None]

Init ==
    /\ files = Nothing /\ signed = FALSE
    /\ stage = [p \in Pids |-> "dead"] /\ at = [p \in Pids |-> 0]
    /\ child = [p \in Pids |-> None] /\ owned = [p \in Pids |-> Nothing]
    /\ passed = [p \in Pids |-> {}] /\ faults = 0

\* An identity no file and no process remembers stands for a new one.
Fresh(p) ==
    /\ stage[p] = "dead"
    /\ \A f \in Files : files[f] # p
    /\ \A q \in Pids : child[q] # p /\ \A f \in Files : owned[q][f] # p

\* Which of the new identities a process gets makes no difference.
New(p) == Fresh(p) /\ p = CHOOSE q \in Pids : Fresh(q)

Goto(p, s) == stage' = [stage EXCEPT ![p] = s]

\* A process ends: its memory is gone, its files stay.
End(p) ==
    /\ Goto(p, "dead")
    /\ at' = [at EXCEPT ![p] = 0]
    /\ child' = [child EXCEPT ![p] = None]
    /\ owned' = [owned EXCEPT ![p] = Nothing]
    /\ passed' = [passed EXCEPT ![p] = {}]

Fault == faults < MaxFaults /\ faults' = faults + 1

Make(f, p) == files' = [files EXCEPT ![f] = p]
Unlink(f) == files' = [files EXCEPT ![f] = None] /\ signed' = (signed /\ f # "lock")

memory == <<at, child, owned, passed>>
disk == <<files, signed>>
-----------------------------------------------------------------------------
\* ensureDaemon is called by a process that will wait for a daemon.
Call(c) ==
    /\ New(c) /\ Cardinality(Clients) < MaxClients
    /\ Goto(c, "ask")
    /\ UNCHANGED <<disk, memory, faults>>

\* readLive: the record names a running process and the socket is there.
Reachable == files["record"] \in Live /\ files["socket"] # None

Ask(c) ==
    /\ stage[c] = "ask"
    /\ IF Reachable THEN End(c) ELSE Goto(c, "look") /\ UNCHANGED memory
    /\ UNCHANGED <<disk, faults>>

\* A machine without bun cannot start a daemon, and its caller is told so
\* before a trace of the last one is deleted.
NoBun(c) ==
    /\ stage[c] = "look"
    /\ Fault
    /\ End(c)
    /\ UNCHANGED disk

\* A directory with none of the files has nothing to reclaim.
Look(c) ==
    /\ stage[c] = "look"
    /\ Goto(c, IF files = Nothing THEN "spawn" ELSE "readRecord")
    /\ UNCHANGED <<disk, memory, faults>>

\* A record of a running process stops the reclaim.
ReadRecord(c) ==
    /\ stage[c] = "readRecord"
    /\ IF files["record"] \in Live THEN End(c) ELSE Goto(c, "readLock") /\ UNCHANGED memory
    /\ UNCHANGED <<disk, faults>>

\* A lock that cannot be read, or of a running process, stops it too.
ReadLock(c) ==
    /\ stage[c] = "readLock"
    /\ IF files["lock"] = None THEN Goto(c, "take") /\ UNCHANGED memory
       ELSE IF ~signed \/ files["lock"] \in Live THEN End(c)
       ELSE Goto(c, "unlink") /\ UNCHANGED memory
    /\ UNCHANGED <<disk, faults>>

\* The recorded pid answers with another start time: doubt, so it stops.
Doubt(c) ==
    /\ \/ stage[c] = "readRecord" /\ files["record"] \notin Live \cup {None}
       \/ stage[c] = "readLock" /\ files["lock"] \notin Live \cup {None} /\ signed
    /\ Fault
    /\ End(c)
    /\ UNCHANGED disk

\* The dead lock is removed by its name, whatever the name means by now.
MutUnlinkLock(c) ==
    /\ stage[c] = "unlink"
    /\ Goto(c, "take")
    /\ UNCHANGED <<disk, memory, faults>>
UnlinkLock(c) ==
    /\ stage[c] = "unlink"
    /\ Unlink("lock")
    /\ Goto(c, "take")
    /\ UNCHANGED <<memory, faults>>

\* O_EXCL: a lock that is there again means somebody else won.
Take(c) ==
    /\ stage[c] = "take"
    /\ IF files["lock"] = None
       THEN Make("lock", c) /\ Goto(c, "sign") /\ UNCHANGED memory
       ELSE End(c) /\ UNCHANGED files
    /\ UNCHANGED <<signed, faults>>

\* The identity goes into the file that was opened, not into its name.
MutSign(c) ==
    /\ stage[c] = "sign"
    /\ Unlink("lock")
    /\ Goto(c, "clear")
    /\ UNCHANGED <<memory, faults>>
Sign(c) ==
    /\ stage[c] = "sign"
    /\ signed' = (signed \/ files["lock"] = c)
    /\ Goto(c, "clear")
    /\ UNCHANGED <<files, memory, faults>>

\* Socket, token and record are removed one by one.
Clear(c) ==
    /\ stage[c] = "clear"
    /\ Unlink(Artifacts[at[c] + 1])
    /\ at' = [at EXCEPT ![c] = @ + 1]
    /\ Goto(c, IF at[c] + 1 = Len(Artifacts) THEN "release" ELSE "clear")
    /\ UNCHANGED <<child, owned, passed, faults>>

\* The lock is given up after the last of them, again by its name.
Release(c) ==
    /\ stage[c] = "release"
    /\ Unlink("lock")
    /\ Goto(c, "spawn")
    /\ UNCHANGED <<memory, faults>>

Spawn(c, d) ==
    /\ stage[c] = "spawn" /\ New(d)
    /\ stage' = [stage EXCEPT ![c] = "await", ![d] = "boot"]
    /\ child' = [child EXCEPT ![c] = d]
    /\ UNCHANGED <<disk, at, owned, passed, faults>>

\* It ends when a daemon answers, its child has died, or after timeoutMs.
Await(c) ==
    /\ stage[c] = "await"
    /\ End(c)
    /\ UNCHANGED <<disk, faults>>
-----------------------------------------------------------------------------
\* daemon.mjs opens the lock with O_EXCL before anything else, or exits.
MutBoot(d) ==
    /\ stage[d] = "boot"
    /\ Make("lock", d) /\ Goto(d, "signLock") /\ UNCHANGED memory
    /\ UNCHANGED <<signed, faults>>
Boot(d) ==
    /\ stage[d] = "boot"
    /\ IF files["lock"] = None
       THEN Make("lock", d) /\ Goto(d, "signLock") /\ UNCHANGED memory
       ELSE End(d) /\ UNCHANGED files
    /\ UNCHANGED <<signed, faults>>

SignLock(d) ==
    /\ stage[d] = "signLock"
    /\ signed' = (signed \/ files["lock"] = d)
    /\ Goto(d, "open")
    /\ UNCHANGED <<files, memory, faults>>

\* The table is read and the ledger opened: from here it is a writer.
Open(d) ==
    /\ stage[d] = "open"
    /\ Goto(d, "publish")
    /\ UNCHANGED <<disk, memory, faults>>

\* An unreadable table or ledger ends the process; the lock stays.
OpenFails(d) ==
    /\ stage[d] = "open"
    /\ Fault
    /\ End(d)
    /\ UNCHANGED disk

\* Stopping begins by noting which files are there, and whose they are.
Stop(d) ==
    /\ owned' = [owned EXCEPT ![d] = files]
    /\ Goto(d, "close")
    /\ UNCHANGED <<at, child, passed>>

\* The socket is bound only where there is none (EADDRINUSE ends the start);
\* token and record are renamed into place over whatever is there.
Publish(d) ==
    /\ stage[d] = "publish"
    /\ IF at[d] = 0 /\ files["socket"] # None
       THEN Stop(d) /\ UNCHANGED files
       ELSE /\ Make(Artifacts[at[d] + 1], d)
            /\ at' = [at EXCEPT ![d] = @ + 1]
            /\ Goto(d, IF at[d] + 1 = Len(Artifacts) THEN "serve" ELSE "publish")
            /\ UNCHANGED <<child, owned, passed>>
    /\ UNCHANGED <<signed, faults>>

\* An exception in the start, before the server exists: only the lock goes, by
\* its name and unchecked, and then the process.
CrashEarly(d) ==
    /\ stage[d] = "publish" /\ at[d] = 0
    /\ Fault
    /\ passed' = [passed EXCEPT ![d] = {"lock"}]
    /\ Goto(d, "remove")
    /\ UNCHANGED <<disk, at, child, owned>>

\* SIGTERM, SIGINT, daemon_shutdown or an exception nothing caught.
Shutdown(d) ==
    /\ stage[d] = "serve" \/ (stage[d] = "publish" /\ at[d] > 0)
    /\ Fault
    /\ Stop(d)
    /\ UNCHANGED disk

\* Server, receiver and ledger are waited for, each of them to the common bound
\* at most, and the removals begin.
Close(d) ==
    /\ stage[d] = "close"
    /\ Goto(d, "remove")
    /\ UNCHANGED <<disk, memory, faults>>

\* unlinkOwned looks at each name again: it stands for the file that was found,
\* or the removal of that name is given up.
Check(d, f) ==
    /\ stage[d] = "remove" /\ owned[d][f] # None
    /\ passed' = [passed EXCEPT ![d] = IF files[f] = owned[d][f] THEN @ \cup {f} ELSE @]
    /\ owned' = [owned EXCEPT ![d][f] = None]
    /\ UNCHANGED <<disk, stage, at, child, faults>>

\* Then it unlinks the name, whatever the name means by now.
Remove(d, f) ==
    /\ stage[d] = "remove" /\ f \in passed[d]
    /\ Unlink(f)
    /\ passed' = [passed EXCEPT ![d] = @ \ {f}]
    /\ UNCHANGED <<stage, at, child, owned, faults>>

Exit(d) ==
    /\ stage[d] = "remove" /\ owned[d] = Nothing /\ passed[d] = {}
    /\ End(d)
    /\ UNCHANGED <<disk, faults>>

\* The bound has elapsed: the process exits with the removals where they are.
ExitLate(d) ==
    /\ stage[d] = "remove"
    /\ Fault
    /\ End(d)
    /\ UNCHANGED disk

\* SIGKILL, or the machine goes down, between any two steps.
Kill(p) ==
    /\ p \in Live
    /\ Fault
    /\ End(p)
    /\ UNCHANGED disk
-----------------------------------------------------------------------------
ClientStep(c) ==
    \/ Ask(c) \/ Look(c) \/ ReadRecord(c) \/ ReadLock(c) \/ UnlinkLock(c)
    \/ Take(c) \/ Sign(c) \/ Clear(c) \/ Release(c)
    \/ \E d \in Pids : Spawn(c, d)
    \/ Await(c)

DaemonStep(d) ==
    \/ Boot(d) \/ SignLock(d) \/ Open(d) \/ Publish(d) \/ Close(d)
    \/ \E f \in Files : Check(d, f) \/ Remove(d, f)
    \/ Exit(d)

Next ==
    \E p \in Pids :
        \/ Call(p) \/ ClientStep(p) \/ DaemonStep(p)
        \/ NoBun(p) \/ Doubt(p) \/ OpenFails(p) \/ CrashEarly(p) \/ Shutdown(p)
        \/ ExitLate(p) \/ Kill(p)

Spec == Init /\ [][Next]_vars

\* Every process that runs goes on, and somebody keeps asking for a daemon:
\* each control call of the stdio server begins with ensureDaemon.
FairSpec ==
    /\ Spec
    /\ \A p \in Pids : WF_vars(ClientStep(p)) /\ WF_vars(DaemonStep(p))
    /\ WF_vars(\E p \in Pids : Call(p))
-----------------------------------------------------------------------------
\* The shape of every variable, and files that are there belong to somebody.
TypeOK ==
    /\ files \in [Files -> Pids \cup {None}] /\ signed \in BOOLEAN
    /\ stage \in [Pids -> {"dead"} \cup ClientStages \cup DaemonStages]
    /\ at \in [Pids -> 0..3] /\ child \in [Pids -> Pids \cup {None}]
    /\ owned \in [Pids -> [Files -> Pids \cup {None}]]
    /\ passed \in [Pids -> SUBSET Files]
    /\ faults \in 0..MaxFaults
    /\ signed => files["lock"] # None

\* Whoever clears another's files, or is the daemon and not yet removing its
\* own, has the lock: so no two processes ever do either at once, whatever
\* reclaimers, late unlinks and kills there are (the first lines of
\* reclaimDeadDaemon).
HoldersHaveTheLock == \A p \in Holders : files["lock"] = p

\* A daemon that serves loses a file only to a stopping daemon whose check of
\* that name passed before: never to a reclaimer that works from what it read
\* earlier, nor to a daemon that starts beside it.
ServingKeepsItsFiles ==
    [][\A d \in Pids, f \in Files :
          stage[d] = "serve" /\ stage'[d] = "serve" /\ files[f] = d =>
              files'[f] = d \/ \E e \in Pids : f \in passed[e]]_vars

\* A daemon that serves has its socket, token and record where its clients
\* look for them ("publishes its token and its record, and has them deleted
\* under it" is what src/core/control.mjs means to exclude).
ServingIsPublished ==
    \A d \in Pids : stage[d] = "serve" => \A f \in Files : files[f] = d

\* At most one daemon of a state directory has its ledger open and is not yet
\* removing its files.
OneDaemon == Cardinality(Writers \cap Holders) <= 1

\* At most one process writes the append-only ledger of a state directory ("a
\* second writer on one append-only ledger, which is the one failure this
\* ledger cannot survive", src/core/control.mjs).
OneWriter == Cardinality(Writers) <= 1

\* Whatever is killed, wherever, somebody who keeps asking gets a daemon that
\* serves again; except that a lock whose maker died before it signed stays until it
\* is removed by hand.
Recovers ==
    []<>(\/ \E d \in Pids : stage[d] = "serve"
         \/ files["lock"] \notin Live \cup {None} /\ ~signed)
=============================================================================
