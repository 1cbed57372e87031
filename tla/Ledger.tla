------------------------------- MODULE Ledger -------------------------------
(***************************************************************************)
(* The event store of src/core/events.mjs.  Every writer of the daemon     *)
(* (append, reserveRequest, reserveRecovery, appendChecked) queues on one  *)
(* promise chain; the head of the chain decides against the rows in        *)
(* memory, writes one line, syncs it, and only then shows it to others.    *)
(* The process may crash and the machine may lose power at any point.      *)
(***************************************************************************)
EXTENDS Naturals, Sequences

CONSTANTS Callers,     \* concurrent users of the store inside one daemon
          Keys,        \* (row type, id) pairs a guarded row is unique about
          MaxFile,     \* the 64 MiB init() accepts, in rows of one size
          MaxRows,     \* bound: rows written or waiting, in Submit
          MaxCrashes   \* bound: crashes and power losses

ASSUME LedgerAssumption == MaxFile \in Nat /\ MaxRows \in Nat /\ MaxCrashes \in Nat

VARIABLES up,          \* "down" | "up" | "refused" (init threw)
          disk,        \* complete lines of events.jsonl
          torn,        \* the file ends in a line without its line feed
          synced,      \* the first `synced` lines survive a power loss
          mem,         \* this.events
          poisoned,    \* this.poisoned is set
          chain,       \* callers whose operation is on this.chain, in order
          call,        \* what each caller asked for
          stage,       \* how far the operation of each caller got
          line,        \* the row #write has built for each caller
          answer,      \* what each caller's last promise settled with
          due,         \* rows whose onAppend callback is scheduled
          told,        \* history: rows a caller was told are written
          crashes      \* counted against MaxCrashes

fileVars == <<disk, torn, synced>>
callVars == <<call, stage, line, answer, chain>>
vars == <<up, fileVars, mem, poisoned, callVars, due, told, crashes>>

Guarded == {"reserve", "checked"}
Call == [how : {"append"} \cup Guarded, key : Keys]
Row == [seq : Nat, how : {"append"} \cup Guarded, key : Keys]
Answers == {"none", "created", "prior", "refused", "too_large", "failed", "lost"}
None == [how |-> "none"]

Clash(r, s) == r.how \in Guarded /\ r.how = s.how /\ r.key = s.key

\* request(id), the find of reserveRecovery, and what a conflict(events)
\* function looks for: a row of the same kind in memory.
Prior(c) == \E i \in 1..Len(mem) : Clash(call[c], mem[i])

\* An operation runs when every earlier one on the chain has settled.
MutTurn(c) == stage[c] # "idle"
Turn(c) == chain # <<>> /\ Head(chain) = c

\* The row #write builds: the next number, then the caller's data.
MutEvent(c) == [seq |-> Len(mem), how |-> call[c].how, key |-> call[c].key]
Event(c) == [seq |-> Len(mem) + 1, how |-> call[c].how, key |-> call[c].key]

\* A line written behind a torn one is glued to it and no longer parses:
\* number 0 stands for "damaged line".
Landed(r) == IF torn THEN [r EXCEPT !.seq = 0] ELSE r

\* The promise of caller c settles and the chain moves on
\* (this.chain = operation.catch(() => {})).
Settle(c, result) ==
    /\ answer' = [answer EXCEPT ![c] = result]
    /\ stage' = [stage EXCEPT ![c] = "idle"]
    /\ line' = [line EXCEPT ![c] = None]
    /\ call' = [call EXCEPT ![c] = None]
    /\ chain' = Tail(chain)
-----------------------------------------------------------------------------
Init ==
    /\ up = "down" /\ disk = <<>> /\ torn = FALSE /\ synced = 0
    /\ mem = <<>> /\ poisoned = FALSE /\ chain = <<>> /\ due = <<>>
    /\ call = [c \in Callers |-> None]
    /\ stage = [c \in Callers |-> "idle"]
    /\ line = [c \in Callers |-> None]
    /\ answer = [c \in Callers |-> "none"]
    /\ told = {} /\ crashes = 0

\* assertPrivateFile(events, { maxBytes }): a torn end counts too.
TooLarge == Len(disk) > MaxFile \/ (torn /\ Len(disk) = MaxFile)
Numbered == \A i \in 1..Len(disk) : disk[i].seq = i

\* init(): a file over the limit is refused before it is read, and #write never
\* looks at its size; every complete line must parse with the next number, or
\* the store refuses to open; a torn last line is cut off and the cut is synced.
MutStart ==
    /\ up = "down"
    /\ IF ~TooLarge /\ Numbered
       THEN up' = "up" /\ mem' = disk
       ELSE up' = "refused" /\ UNCHANGED mem
    /\ UNCHANGED <<fileVars, poisoned, callVars, due, told, crashes>>
Start ==
    /\ up = "down"
    /\ IF ~TooLarge /\ Numbered
       THEN /\ up' = "up"
            /\ mem' = disk
            /\ torn' = FALSE
            /\ synced' = IF torn THEN Len(disk) ELSE synced
            /\ UNCHANGED disk
       ELSE /\ up' = "refused"
            /\ UNCHANGED <<mem, fileVars>>
    /\ UNCHANGED <<poisoned, callVars, due, told, crashes>>

\* append, reserveRequest, reserveRecovery or appendChecked: the operation
\* goes to the end of the chain.
Submit(c, request) ==
    /\ up = "up" /\ stage[c] = "idle"
    /\ Len(disk) + Len(chain) < MaxRows
    /\ chain' = Append(chain, c)
    /\ call' = [call EXCEPT ![c] = request]
    /\ stage' = [stage EXCEPT ![c] = "queued"]
    /\ answer' = [answer EXCEPT ![c] = "none"]
    /\ UNCHANGED <<up, fileVars, mem, poisoned, line, due, told, crashes>>

\* if (this.poisoned) throw this.poisoned
MutFailPoisoned(c) ==
    /\ Turn(c) /\ stage[c] = "queued" /\ poisoned
    /\ answer' = [answer EXCEPT ![c] = "failed"]
    /\ UNCHANGED <<up, fileVars, mem, poisoned, call, stage, line, chain, due, told, crashes>>
FailPoisoned(c) ==
    /\ Turn(c) /\ stage[c] = "queued" /\ poisoned
    /\ Settle(c, "failed")
    /\ UNCHANGED <<up, fileVars, mem, poisoned, due, told, crashes>>

\* A reservation answers with the prior row; appendChecked throws its refusal.
FindPrior(c) ==
    /\ Turn(c) /\ stage[c] = "queued" /\ ~poisoned /\ Prior(c)
    /\ Settle(c, IF call[c].how = "reserve" THEN "prior" ELSE "refused")
    /\ UNCHANGED <<up, fileVars, mem, poisoned, due, told, crashes>>

\* EVENT_TOO_LARGE: thrown before the file is touched, so nothing is poisoned.
\* Any data may be over the limit.
Oversize(c) ==
    /\ Turn(c) /\ stage[c] = "queued" /\ ~poisoned /\ ~Prior(c)
    /\ Settle(c, "too_large")
    /\ UNCHANGED <<up, fileVars, mem, poisoned, due, told, crashes>>

\* The row is built and the file opened for append.
Open(c) ==
    /\ Turn(c) /\ stage[c] = "queued" /\ ~poisoned /\ ~Prior(c)
    /\ line' = [line EXCEPT ![c] = Event(c)]
    /\ stage' = [stage EXCEPT ![c] = "opened"]
    /\ UNCHANGED <<up, fileVars, mem, poisoned, call, answer, chain, due, told, crashes>>

\* handle.writeFile(line)
WriteLine(c) ==
    /\ stage[c] = "opened"
    /\ disk' = Append(disk, Landed(line[c]))
    /\ torn' = FALSE
    /\ stage' = [stage EXCEPT ![c] = "written"]
    /\ UNCHANGED <<up, synced, mem, poisoned, call, line, answer, chain, due, told, crashes>>

\* open or writeFile failed: nothing, or a part of the line, is in the file.
WriteFails(c) ==
    /\ stage[c] = "opened"
    /\ torn' \in {torn, TRUE}
    /\ poisoned' = TRUE
    /\ Settle(c, "failed")
    /\ UNCHANGED <<up, disk, synced, mem, due, told, crashes>>

\* sync and close succeeded: the row is shown, its hook scheduled, and the
\* caller told.
MutSyncLine(c) ==
    /\ stage[c] = "written"
    /\ mem' = Append(mem, line[c])
    /\ due' = Append(due, line[c])
    /\ told' = told \cup {line[c]}
    /\ Settle(c, "created")
    /\ UNCHANGED <<up, fileVars, poisoned, crashes>>
SyncLine(c) ==
    /\ stage[c] = "written"
    /\ synced' = Len(disk)
    /\ mem' = Append(mem, line[c])
    /\ due' = Append(due, line[c])
    /\ told' = told \cup {line[c]}
    /\ Settle(c, "created")
    /\ UNCHANGED <<up, disk, torn, poisoned, crashes>>

\* sync failed, or close failed after it: the caller sees an error although
\* the complete line is in the file.
MutSyncFails(c) ==
    /\ stage[c] = "written"
    /\ synced' \in {synced, Len(disk)}
    /\ Settle(c, "failed")
    /\ UNCHANGED <<up, disk, torn, mem, poisoned, due, told, crashes>>
SyncFails(c) ==
    /\ stage[c] = "written"
    /\ synced' \in {synced, Len(disk)}
    /\ poisoned' = TRUE
    /\ Settle(c, "failed")
    /\ UNCHANGED <<up, disk, torn, mem, due, told, crashes>>

\* setImmediate(() => onAppend(event)): outside the chain, in row order.
RunHook ==
    /\ up = "up" /\ due # <<>>
    /\ due' = Tail(due)
    /\ UNCHANGED <<up, fileVars, mem, poisoned, callVars, told, crashes>>

\* Everything the process held is gone; whoever waited never hears.
Forget ==
    /\ up' = "down" /\ mem' = <<>> /\ poisoned' = FALSE /\ chain' = <<>> /\ due' = <<>>
    /\ call' = [c \in Callers |-> None]
    /\ line' = [c \in Callers |-> None]
    /\ stage' = [c \in Callers |-> "idle"]
    /\ answer' = [c \in Callers |-> IF stage[c] = "idle" THEN answer[c] ELSE "lost"]
    /\ UNCHANGED told

\* close(): the chain is awaited before the process ends.
Stop ==
    /\ up = "up" /\ chain = <<>>
    /\ Forget
    /\ UNCHANGED <<fileVars, crashes>>

\* The process dies; what it wrote stays with the operating system.  A write
\* under way may have left part of its line.
Crash ==
    /\ up = "up" /\ crashes < MaxCrashes
    /\ torn' \in {torn, \E c \in Callers : stage[c] = "opened"}
    /\ crashes' = crashes + 1
    /\ Forget
    /\ UNCHANGED <<disk, synced>>

\* The machine dies: of the lines no sync covered, any tail is lost, and the
\* cut may fall inside a line.
PowerLoss ==
    /\ crashes < MaxCrashes
    /\ \E n \in synced..Len(disk) :
        /\ disk' = SubSeq(disk, 1, n)
        /\ synced' = n
        /\ torn' \in {FALSE, torn \/ n < Len(disk) \/ \E c \in Callers : stage[c] = "opened"}
    /\ crashes' = crashes + 1
    /\ Forget

Step(c) ==
    \/ FailPoisoned(c) \/ FindPrior(c) \/ Oversize(c) \/ Open(c)
    \/ WriteLine(c) \/ WriteFails(c) \/ SyncLine(c) \/ SyncFails(c)

Next ==
    \/ Start \/ RunHook \/ Stop \/ Crash \/ PowerLoss
    \/ \E c \in Callers : Step(c) \/ \E request \in Call : Submit(c, request)

Spec == Init /\ [][Next]_vars

\* A running process finishes its file operations; callers, crashes and the
\* operator owe nothing.
FairSpec == Spec /\ \A c \in Callers : WF_vars(Step(c))
-----------------------------------------------------------------------------
LineOK(c) ==
    IF stage[c] \in {"opened", "written"}
    THEN line[c] \in Row /\ line[c].seq > 0
    ELSE line[c] = None

\* The shape of every variable, with the two numeric limits a row and the
\* synced mark must keep.
TypeOK ==
    /\ up \in {"down", "up", "refused"}
    /\ disk \in Seq(Row) /\ torn \in BOOLEAN /\ synced \in 0..Len(disk)
    /\ mem \in Seq(Row) /\ poisoned \in BOOLEAN
    /\ chain \in Seq(Callers)
    /\ call \in [Callers -> Call \cup {None}]
    /\ stage \in [Callers -> {"idle", "queued", "opened", "written"}]
    /\ line \in [Callers -> Row \cup {None}]
    /\ \A c \in Callers : LineOK(c)
    /\ answer \in [Callers -> Answers]
    /\ due \in Seq(Row) /\ told \in SUBSET Row /\ crashes \in Nat

\* A caller who was told "written" can rely on the row for good: it is at its
\* own number in the file after any later failure, crash or power loss
\* (append resolves only after handle.sync).
ToldSurvives ==
    \A r \in told : r.seq \in 1..synced /\ disk[r.seq] = r

\* At most one reservation or checked row of a kind is ever in the file, even
\* when an attempt that failed left its line behind and the same caller or
\* another asks again, before or after a restart.
OneReservation ==
    \A i, j \in 1..Len(disk) : i # j => ~Clash(disk[i], disk[j])

\* Its size is the only thing of the store's own making that keeps a daemon
\* from starting: no sequence of failed writes, failed syncs, crashes and power
\* losses leaves a line under a wrong number or glued to a torn one.  A file that
\* has outgrown the limit is refused, as often as it is tried.
OnlySizeRefuses ==
    /\ up = "refused" => TooLarge
    /\ Numbered

\* No operation hangs on the chain: whatever happens to the ones before it
\* (a refusal, an oversize row, an I/O error), its promise settles.
CallSettles ==
    \A c \in Callers : stage[c] # "idle" ~> stage[c] = "idle"

\* The store implements the promised log.
Promised == INSTANCE EventLog WITH log <- disk, kept <- synced
ImplementsEventLog == Promised!LogSpec
=============================================================================
