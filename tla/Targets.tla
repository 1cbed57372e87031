------------------------------ MODULE Targets ------------------------------
(***************************************************************************)
(* Who an alias names: the operator's table of Claude sessions and the     *)
(* table of Codex threads beside it (peer-directory.mjs, target-config.mjs),*)
(* the copy a daemon enforces and refreshes at each request                *)
(* (target-table.mjs), and the succession that points an alias at the      *)
(* session that resumed the one it named (session-rebind.mjs, registry.mjs).*)
(* Requests run concurrently in one daemon and interleave at each await;   *)
(* the writers of the tables run one at a time in a queue.  Sessions are   *)
(* processes that advertise an id and carry a receipt, `--resume <id>`, in *)
(* their arguments.  They are all in one directory and well formed; what   *)
(* else may fail about one makes a resolution fail at any time.            *)
(***************************************************************************)
EXTENDS Naturals, FiniteSets

CONSTANTS Aliases, Requests,
          MaxSession,   \* bound: session ids
          MaxProcess,   \* bound: processes that are ever launched
          MaxWork       \* bound: launches, requests, edits, /clears and crashes together

ASSUME TargetsAssumption ==
    /\ MaxSession \in Nat \ {0} /\ MaxProcess \in Nat \ {0}
    /\ MaxWork \in Nat \ {0} /\ "free" \notin Requests

None == 0
Sessions == 1..MaxSession
Processes == 1..MaxProcess

VARIABLES
    claude, codex, stamp, \* targets.json, the aliases in codex-peers.json, the former's version
    history,              \* targets-rebind.json: ids that each alias named before
    process, launched,    \* the sessions that run, and how many were launched
    born,                 \* session ids that exist: 1..born
    up, table, watch,     \* the daemon, the table it enforces, the version it last looked at
    unreadable,           \* the last version it looked at could not be loaded
    queue,                \* the request whose turn it is in the writers' queue, or "free"
    req,                  \* each request: what it asks and where it stands
    seen,                 \* per id, the process that last proved to be it: registered or rebound
    sentTo,               \* per alias and id, the process that the last send to it was for
    registered, receipts, \* history: who was registered as what; receipts ever carried
    overlapped,           \* history: two readings of the table overlapped in this daemon
    asks, faults

fileVars == <<claude, codex, stamp, history>>
processVars == <<process, launched, born, receipts>>
daemonVars == <<up, table, watch, unreadable, queue, overlapped>>
ledgerVars == <<seen, sentTo, registered>>
countVars == <<asks, faults>>
vars == <<fileVars, processVars, daemonVars, req, ledgerVars, countVars>>

NoProcess == [id |-> None, resumes |-> None, fork |-> FALSE]
Idle == [kind |-> "none", alias |-> None, by |-> None, replace |-> FALSE, pc |-> "idle",
         after |-> "idle", read |-> <<>>, checked |-> <<>>, rebind |-> None, expected |-> None, found |-> None]

Init ==
    /\ \E a \in Aliases :
           /\ claude = [x \in Aliases |-> IF x = a THEN 1 ELSE None]
           /\ registered = {[alias |-> a, id |-> 1]}
    /\ codex = {} /\ stamp = 1 /\ history = [x \in Aliases |-> {}]
    /\ process = [p \in Processes |-> IF p = 1 THEN [NoProcess EXCEPT !.id = 1] ELSE NoProcess]
    /\ launched = 1 /\ born = 1 /\ receipts = {}
    /\ up = TRUE /\ table = claude /\ watch = stamp /\ unreadable = FALSE
    /\ queue = "free" /\ overlapped = FALSE
    /\ req = [r \in Requests |-> Idle]
    /\ seen = [s \in Sessions |-> None]
    /\ sentTo = [a \in Aliases |-> [s \in Sessions |-> None]]
    /\ asks = 0 /\ faults = 0

Room == launched + asks + faults < MaxWork
\* A row of the sessions' directory whose process is the one it names; those that advertise an
\* id; those that may succeed one; the aliases that a table gives to an id.
Live(p) == process[p].id # None
Holders(s) == {p \in Processes : process[p].id = s}
Lane(s) == {p \in Processes : Live(p) /\ process[p].id # s}
Named(t, s) == {a \in Aliases : t[a] = s}

\* A request goes on to a step, or ends; after it changed a table it reads that again first.
Go(r, pc) ==
    req' = [req EXCEPT ![r] = IF pc = "idle" THEN Idle
                              ELSE [@ EXCEPT !.pc = pc, !.rebind = None, !.expected = None]]
Finish(r) == Go(r, "idle")
Reread(r, pc) == req' = [req EXCEPT ![r].pc = "observe", ![r].after = pc,
                                    ![r].rebind = None, ![r].expected = None]
-----------------------------------------------------------------------------
Kinds == {"send", "register", "register_codex", "unregister"}
Sends == {"send", "ring"}

\* A send resolves its alias and a Claude caller is identified by the table; the Codex host and
\* the operator's terminal are proven without it.
First(kind) == IF kind \in {"send", "register"} THEN "start" ELSE "enter"

\* controlCall: what a process asks, and the table that the caller of a send has read.
Request(kind, a, p, replace) ==
    [Idle EXCEPT !.kind = kind, !.alias = a, !.by = p, !.replace = replace,
                 !.checked = IF kind = "send" THEN claude ELSE <<>>]

\* A control request arrives; the daemon reads the table before anything is done.
Ask(r, kind, a, p, replace) ==
    /\ up /\ req[r].pc = "idle" /\ Room
    /\ kind = "register" => Live(p)
    /\ kind # "register" => p = 1
    /\ kind \in {"send", "unregister"} => ~replace
    /\ req' = [req EXCEPT ![r] = [Request(kind, a, p, replace) EXCEPT !.pc = "observe",
                                                                     !.after = First(kind)]]
    /\ asks' = asks + 1
    /\ UNCHANGED <<fileVars, processVars, daemonVars, ledgerVars, faults>>

\* A doorbell is rung or an acknowledgement sent by the daemon itself: no reading, no check.
Ring(r, a) ==
    /\ up /\ req[r].pc = "idle" /\ Room
    /\ req' = [req EXCEPT ![r] = [Request("ring", a, 1, FALSE) EXCEPT !.pc = "start"]]
    /\ asks' = asks + 1
    /\ UNCHANGED <<fileVars, processVars, daemonVars, ledgerVars, faults>>

Reading(r) == req[r].pc \in {"read", "assign"}

\* The fingerprint of the file is the one that was read last.
Unchanged == watch = stamp

\* TargetTableWatch.read: a version it has seen is not read again ...
Observe(r) ==
    /\ req[r].pc = "observe"
    /\ IF Unchanged THEN Go(r, req[r].after) /\ UNCHANGED <<watch, unreadable>>
       ELSE Go(r, "read") /\ watch' = stamp /\ unreadable' = FALSE
    /\ overlapped' = (overlapped \/ \E q \in Requests : Reading(q))
    /\ UNCHANGED <<fileVars, processVars, up, table, queue, ledgerVars, countVars>>

\* ... another one is read, and enforced when the directories it names are resolved.
ReadTable(r) ==
    /\ req[r].pc = "read"
    /\ req' = [req EXCEPT ![r].pc = "assign", ![r].read = claude]
    /\ UNCHANGED <<fileVars, processVars, daemonVars, ledgerVars, countVars>>

EndReading(r) ==
    /\ req[r].pc = "assign"
    /\ LET after == req[r].after IN
       req' = [req EXCEPT ![r] = IF after = "idle" THEN Idle
                                 ELSE [@ EXCEPT !.pc = after, !.read = <<>>]]

MutAssign(r) ==
    /\ EndReading(r) /\ table' = req[r].read /\ watch' = stamp
    /\ UNCHANGED <<fileVars, processVars, up, unreadable, queue, overlapped, ledgerVars, countVars>>
Assign(r) ==
    /\ EndReading(r) /\ table' = req[r].read
    /\ UNCHANGED <<fileVars, processVars, up, watch, unreadable, queue, overlapped, ledgerVars,
                   countVars>>

\* A directory that cannot be resolved now, or anything else that keeps the file from being
\* loaded: the last good table stays, and the version counts as looked at.
LoadFails(r) ==
    /\ EndReading(r) /\ unreadable' = TRUE
    /\ UNCHANGED <<fileVars, processVars, up, table, watch, queue, overlapped, ledgerVars, countVars>>
-----------------------------------------------------------------------------
Start(r) == req[r].pc = "start"

\* What a control request sends goes by the table that its caller checked, or not at all.
Checked(r) == req[r].kind = "send" => table = req[r].checked

\* The one live session with the id that the table names is the target; an id that nothing
\* advertises starts a succession.
Resolve(r) ==
    /\ Start(r) /\ req[r].kind \in Sends /\ Checked(r)
    /\ LET a == req[r].alias
           s == table[a] IN
       /\ s # None
       /\ \/ /\ Cardinality(Holders(s)) = 1
             /\ sentTo' = [sentTo EXCEPT ![a][s] = CHOOSE p \in Holders(s) : TRUE]
             /\ Finish(r)
          \/ /\ Holders(s) = {}
             /\ req' = [req EXCEPT ![r].pc = "find", ![r].rebind = a, ![r].expected = s]
             /\ UNCHANGED sentTo
    /\ UNCHANGED <<fileVars, processVars, daemonVars, seen, registered, countVars>>

\* Anything else about the session, the alias or the table that is not as it must be fails it.
Unverified(r) ==
    /\ Start(r) /\ req[r].kind \in Sends /\ Finish(r)
    /\ UNCHANGED <<fileVars, processVars, daemonVars, ledgerVars, countVars>>

\* The ids that the arguments of a calling session resume.
Claims(p) == {process[p].resumes} \ {None}

\* The aliases it claims by them: the current id of one, or an older id of another.
Claimed(p) ==
    {a \in Aliases : table[a] # None /\ Claims(p) \cap ({table[a]} \cup history[a]) # {}}

\* The caller is the session of a row, or claims exactly one alias and is offered to the
\* succession, or is a session that no row names.
Identify(r) ==
    /\ Start(r) /\ req[r].kind = "register"
    /\ LET p == req[r].by IN
       \/ ~Live(p) /\ Finish(r)
       \/ Live(p) /\ Named(table, process[p].id) # {} /\ Go(r, "enter")
       \/ /\ Live(p) /\ Named(table, process[p].id) = {}
          /\ IF Cardinality(Claimed(p)) = 1 /\ ~process[p].fork
                THEN LET a == CHOOSE x \in Claimed(p) : TRUE IN
                     IF seen[table[a]] = p THEN Go(r, "enter")
                     ELSE req' = [req EXCEPT ![r].pc = "find", ![r].rebind = a,
                                             ![r].expected = table[a]]
                ELSE Go(r, "enter")
    /\ UNCHANGED <<fileVars, processVars, daemonVars, ledgerVars, countVars>>
-----------------------------------------------------------------------------
\* Where a request goes on when its succession has failed, or succeeded: a caller is registered
\* in either case.
AfterRefusal(r) == IF req[r].kind \in Sends THEN "idle" ELSE "enter"
AfterRebind(r) == IF req[r].kind \in Sends THEN "sent" ELSE "rebound"

\* A receipt: the arguments of the process resume the id and do not fork it.
MutCarries(p, s) == process[p].resumes = s
Carries(p, s) == process[p].resumes = s /\ ~process[p].fork

Successors(s) == {p \in Lane(s) : Carries(p, s)}

\* The process that the ledger last saw holding the id: the target of the last send to it.
HeldBy(a, s, p) == sentTo[a][s] = p

\* Exactly one live session with a receipt for the expected id, and not the process that held
\* it; whatever else is wrong with it, or the switch, is a refusal.
Find(r) ==
    /\ req[r].pc = "find"
    /\ LET s == req[r].expected IN
       \/ \E p \in Successors(s) :
              /\ Cardinality(Successors(s)) = 1 /\ ~HeldBy(req[r].rebind, s, p)
              /\ req' = [req EXCEPT ![r].pc = "rewrite", ![r].found = process[p].id,
                                    ![r].by = IF req[r].kind \in Sends THEN p ELSE @]
       \/ Go(r, AfterRefusal(r))
    /\ UNCHANGED <<fileVars, processVars, daemonVars, ledgerVars, countVars>>

\* One row of the table gets another id, or none.
Repoint(a, s) == claude' = [claude EXCEPT ![a] = s] /\ stamp' = stamp + 1

\* rebindTargetSessionId, in its turn: one id of the table as it is then is replaced, and the
\* one it named goes into the history.
Rewrite(r) ==
    /\ req[r].pc = "rewrite" /\ queue = "free"
    /\ LET a == req[r].rebind IN
       IF claude[a] = None THEN Go(r, AfterRefusal(r)) /\ UNCHANGED <<claude, stamp>>
       ELSE IF claude[a] = req[r].found
         THEN Reread(r, AfterRebind(r)) /\ UNCHANGED <<claude, stamp>>
         ELSE /\ Repoint(a, req[r].found)
              /\ req' = [req EXCEPT ![r].pc = "remember", ![r].expected = claude[a]]
    /\ UNCHANGED <<codex, history, processVars, daemonVars, ledgerVars, countVars>>

\* recordSuccession: one more id that the alias named before.
RecordSuccession(a, s) == history' = [history EXCEPT ![a] = @ \cup {s}]

\* The history is recorded, or that fails; then the table is read again.
Remember(r) ==
    /\ req[r].pc = "remember"
    /\ RecordSuccession(req[r].rebind, req[r].expected) \/ UNCHANGED history
    /\ Reread(r, AfterRebind(r))
    /\ UNCHANGED <<claude, codex, stamp, processVars, daemonVars, ledgerVars, countVars>>

\* A send that resolved to the successor is for it, but a doorbell is for the session of its
\* message only; a caller whose session has a row now has proven to be it.
NoteSent(r) ==
    /\ req[r].pc = "sent"
    /\ \/ sentTo' = [sentTo EXCEPT ![req[r].alias][req[r].found] = req[r].by]
       \/ req[r].kind = "ring" /\ UNCHANGED sentTo
    /\ Finish(r)
    /\ UNCHANGED <<fileVars, processVars, daemonVars, seen, registered, countVars>>

NoteRebound(r) ==
    /\ req[r].pc = "rebound"
    /\ LET p == req[r].by IN
       seen' = IF Live(p) /\ Named(table, process[p].id) # {}
                 THEN [seen EXCEPT ![process[p].id] = p] ELSE seen
    /\ Go(r, "enter")
    /\ UNCHANGED <<fileVars, processVars, daemonVars, sentTo, registered, countVars>>
-----------------------------------------------------------------------------
\* registerPeer, in its turn: an alias of another session, or another alias of this one, needs
\* --replace.
Refused(r, s) ==
    /\ ~req[r].replace
    /\ \/ claude[req[r].alias] \notin {None, s} \/ req[r].alias \in codex
       \/ \E a \in Aliases \ {req[r].alias} : claude[a] = s

EnterClaude(r) ==
    /\ req[r].pc = "enter" /\ req[r].kind = "register" /\ queue = "free"
    /\ LET s == process[req[r].by].id IN
       IF s = None \/ Refused(r, s) THEN Finish(r) /\ UNCHANGED queue
       ELSE IF claude[req[r].alias] = s
         THEN Reread(r, "idle") /\ UNCHANGED queue
         ELSE /\ queue' = r
              /\ req' = [req EXCEPT ![r].pc = "first", ![r].found = s]
    /\ UNCHANGED <<fileVars, processVars, up, table, watch, unreadable, overlapped, ledgerVars, countVars>>

\* A Codex thread is registered, the only one there is here, so it leaves its other alias.
EnterCodex(r) ==
    /\ req[r].pc = "enter" /\ req[r].kind = "register_codex" /\ queue = "free"
    /\ IF ~req[r].replace /\ (claude[req[r].alias] # None \/ codex \ {req[r].alias} # {})
         THEN Finish(r) /\ UNCHANGED queue
         ELSE queue' = r /\ Go(r, "first")
    /\ UNCHANGED <<fileVars, processVars, up, table, watch, unreadable, overlapped, ledgerVars, countVars>>

\* The rows that a registration leaves in the table of Claude sessions and of Codex threads.
NextClaude(r) ==
    LET s == req[r].found IN
    [a \in Aliases |-> IF a = req[r].alias THEN s
                       ELSE IF s # None /\ claude[a] = s THEN None ELSE claude[a]]
NextCodex(r) == IF req[r].kind = "register" THEN codex \ {req[r].alias} ELSE {req[r].alias}

WriteClaude(r) ==
    /\ claude' = NextClaude(r)
    /\ stamp' = IF claude' = claude THEN stamp ELSE stamp + 1
    /\ UNCHANGED codex
WriteCodex(r) == codex' = NextCodex(r) /\ UNCHANGED <<claude, stamp>>

MutWriteFirst(r) ==
    /\ req[r].pc = "first"
    /\ IF req[r].kind = "register" THEN WriteClaude(r) ELSE WriteCodex(r)
    /\ req' = [req EXCEPT ![r].pc = "second"]
    /\ UNCHANGED <<history, processVars, daemonVars, ledgerVars, countVars>>

\* Removal before addition: the table that loses the alias is written first.
WriteFirst(r) ==
    /\ req[r].pc = "first"
    /\ IF req[r].kind = "register" THEN WriteCodex(r) ELSE WriteClaude(r)
    /\ req' = [req EXCEPT ![r].pc = "second"]
    /\ UNCHANGED <<history, processVars, daemonVars, ledgerVars, countVars>>

MutRelease == UNCHANGED queue

\* The turn of the next writer comes, whether this one succeeded or not.
Release == queue' = "free"

WriteSecond(r) ==
    /\ req[r].pc = "second"
    /\ IF req[r].kind = "register"
         THEN /\ WriteClaude(r)
              /\ registered' = registered \cup {[alias |-> req[r].alias, id |-> req[r].found]}
              /\ Reread(r, "note")
         ELSE WriteCodex(r) /\ Reread(r, "idle") /\ UNCHANGED registered
    /\ Release
    /\ UNCHANGED <<history, processVars, up, table, watch, unreadable, overlapped, seen, sentTo, countVars>>

\* The row that says so, after the table was read again.
NoteRegistered(r) ==
    /\ req[r].pc = "note"
    /\ seen' = [seen EXCEPT ![req[r].found] = req[r].by]
    /\ Finish(r)
    /\ UNCHANGED <<fileVars, processVars, daemonVars, sentTo, registered, countVars>>

\* removePeer: the row of the one table or of the other.
Removed(a) ==
    IF claude[a] # None THEN Repoint(a, None) /\ UNCHANGED codex
    ELSE codex' = codex \ {a} /\ UNCHANGED <<claude, stamp>>

\* The operator's request to remove an alias, in its turn.
Unregister(r) ==
    /\ req[r].pc = "enter" /\ req[r].kind = "unregister" /\ queue = "free"
    /\ Removed(req[r].alias)
    /\ Reread(r, "idle")
    /\ UNCHANGED <<history, processVars, daemonVars, ledgerVars, countVars>>
-----------------------------------------------------------------------------
\* A session gets an id that there was not, or keeps one.
Names(s) == s \in 1..(born + 1) /\ s <= MaxSession /\ born' = IF s > born THEN s ELSE born

\* A session starts: new, or resumed under its old id or a new one, or forked.
Launch(s, resumes, fork) ==
    /\ launched < MaxProcess /\ Room /\ launched' = launched + 1
    /\ resumes <= born /\ (s = resumes \/ s > born) /\ Names(s)
    /\ fork => resumes # None /\ s # resumes
    /\ process' = [process EXCEPT ![launched + 1] = [id |-> s, resumes |-> resumes, fork |-> fork]]
    /\ receipts' = IF resumes # None /\ ~fork
                     THEN receipts \cup {[from |-> resumes, to |-> s]} ELSE receipts
    /\ UNCHANGED <<fileVars, daemonVars, req, ledgerVars, countVars>>

Leave(p) ==
    /\ Live(p) /\ process' = [process EXCEPT ![p] = NoProcess]
    /\ UNCHANGED <<fileVars, launched, born, receipts, daemonVars, req, ledgerVars, countVars>>

\* /clear or the picker: the same process goes on under another id.
Clear(p, s) ==
    /\ Live(p) /\ s > born /\ Names(s) /\ Room /\ faults' = faults + 1
    /\ process' = [process EXCEPT ![p].id = s]
    /\ receipts' = IF process[p].resumes # None /\ ~process[p].fork
                     THEN receipts \cup {[from |-> process[p].resumes, to |-> s]} ELSE receipts
    /\ UNCHANGED <<fileVars, launched, daemonVars, req, ledgerVars, asks>>

\* The operator writes a row by hand, not while the daemon writes.
Edit(a, s) ==
    /\ Room /\ faults' = faults + 1 /\ s <= born
    /\ queue = "free" /\ a \notin codex
    /\ Repoint(a, s)
    /\ registered' = registered \cup {[alias |-> a, id |-> s]}
    /\ UNCHANGED <<codex, history, processVars, daemonVars, req, seen, sentTo, asks>>

\* The daemon dies; the next one reads the table as it starts, and does not start without it.
Crash ==
    /\ up /\ Room /\ faults' = faults + 1
    /\ up' = FALSE /\ queue' = "free" /\ overlapped' = FALSE
    /\ req' = [r \in Requests |-> Idle]
    /\ table' = [a \in Aliases |-> None] /\ watch' = 0 /\ unreadable' = FALSE
    /\ UNCHANGED <<fileVars, processVars, ledgerVars, asks>>

Restart ==
    /\ ~up /\ up' = TRUE /\ table' = claude /\ watch' = stamp
    /\ UNCHANGED <<fileVars, processVars, unreadable, queue, overlapped, req, ledgerVars, countVars>>

Next ==
    \/ \E r \in Requests, kind \in Kinds, a \in Aliases, p \in Processes, replace \in BOOLEAN :
           Ask(r, kind, a, p, replace)
    \/ \E r \in Requests :
           \/ Observe(r) \/ ReadTable(r) \/ Assign(r) \/ LoadFails(r)
           \/ \E a \in Aliases : Ring(r, a)
           \/ Resolve(r) \/ Unverified(r) \/ Identify(r) \/ Find(r) \/ Rewrite(r)
           \/ Remember(r) \/ NoteSent(r) \/ NoteRebound(r) \/ NoteRegistered(r)
           \/ EnterClaude(r) \/ EnterCodex(r) \/ WriteFirst(r) \/ WriteSecond(r)
           \/ Unregister(r)
    \/ \E s \in Sessions, resumes \in Sessions \cup {None}, fork \in BOOLEAN :
           Launch(s, resumes, fork)
    \/ \E p \in Processes : Leave(p) \/ \E s \in Sessions : Clear(p, s)
    \/ \E a \in Aliases, s \in Sessions : Edit(a, s)
    \/ Crash \/ Restart

Spec == Init /\ [][Next]_vars
-----------------------------------------------------------------------------
TableType == [Aliases -> 0..MaxSession]

\* Every variable has its type; a request owns the writers' queue only while it writes.
TypeOK ==
    /\ claude \in TableType /\ table \in TableType /\ codex \subseteq Aliases
    /\ stamp \in Nat /\ watch \in 0..stamp /\ history \in [Aliases -> SUBSET Sessions]
    /\ process \in [Processes -> [id : 0..MaxSession, resumes : 0..MaxSession, fork : BOOLEAN]]
    /\ launched \in Processes /\ born \in Sessions
    /\ up \in BOOLEAN /\ unreadable \in BOOLEAN /\ overlapped \in BOOLEAN
    /\ queue \in Requests \cup {"free"}
    /\ \A r \in Requests : (queue = r) = (req[r].pc \in {"first", "second"})
    /\ seen \in [Sessions -> 0..MaxProcess]
    /\ sentTo \in [Aliases -> [Sessions -> 0..MaxProcess]]
    /\ registered \subseteq [alias : Aliases, id : Sessions]
    /\ receipts \subseteq [from : Sessions, to : Sessions]
    /\ asks \in 0..MaxWork /\ faults \in 0..MaxWork

\* No reader of the two files, at any moment and after any crash, finds an alias in both.
AliasInOneTable == \A a \in codex : claude[a] = None

\* What was registered or written for an alias, and what descends from it along receipts that
\* sessions carried, near or far.
Registered(a) == {x.id : x \in {y \in registered : y.alias = a}}
Heirs(a) ==
    {s \in Sessions : \A L \in SUBSET Sessions :
        Registered(a) \subseteq L /\ (\A x \in receipts : x.from \in L => x.to \in L) => s \in L}

\* An alias names only a session that was registered or written for it at some time, or that
\* descends from such a one through receipts: never by directory, by name or by a fork.  A
\* receipt is what the code takes for one, the arguments of the process that advertises the id.
LineageIsProven == \A a \in Aliases : claude[a] # None => claude[a] \in Heirs(a)

\* Between readings a daemon enforces the version it says it looked at: one that it would not
\* read again is the one in the table, or is marked unreadable, unless two readings ever
\* overlapped in it.
EnforcedIsCurrent ==
    up /\ ~overlapped /\ watch = stamp /\ (\A r \in Requests : ~Reading(r))
        => table = claude \/ unreadable

\* "A table an operator repaired is in force on the next call": also where the repair is a
\* directory that is back and not a row, so that the version is one looked at before.
RepairIsInForce ==
    up /\ watch = stamp /\ (\A r \in Requests : ~Reading(r)) => table = claude

\* The same, where every load succeeds, of requests that are read side by side.
ReadingsAgree ==
    up /\ watch = stamp /\ ~unreadable /\ (\A r \in Requests : ~Reading(r)) => table = claude

\* rebindTargetSessionId: "Point one alias at the session that proved it resumed the one the
\* table names".  What a succession replaces is what it found a successor of.
ReplacesItsOwn ==
    [][\A r \in Requests :
         Rewrite(r) /\ claude' # claude => claude[req[r].rebind] = req[r].expected]_vars

\* rebindCaller: "The same process under a new id is never inherited, whatever its argv says".
\* A process that proved to be one session does not take its alias over under another id.
OwnIdIsNotInherited ==
    [][\A r \in Requests, p \in Processes :
         Find(r) /\ req'[r].pc = "rewrite" /\ process[p].id = req'[r].found
             => seen[req[r].expected] # p]_vars
=============================================================================
