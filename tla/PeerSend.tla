------------------------------ MODULE PeerSend ------------------------------
(***************************************************************************)
(* PeerCore of src/core/peer-core.mjs: send, the one explicit recovery a   *)
(* privileged caller may ask for, the frames the target answers with, and  *)
(* wait.  Several callers use one message id at once; the target process   *)
(* may be replaced, the socket may fail before or after the bytes left,    *)
(* the ledger may be poisoned, and the daemon may crash between any two    *)
(* steps.  The ledger is used as EventLog promises it: an append is atomic *)
(* and durable, or fails and leaves the store poisoned, in which case the  *)
(* row may still be found by the next process.                             *)
(***************************************************************************)
EXTENDS Naturals, Sequences

CONSTANTS Messages, Contents,
          Callers, Waiters,
          Requests,      \* what a caller may ask: content, recovery, expect
          Requires,      \* wait requirements that are asked for
          FrameKinds,    \* what the target's frames may say
          MaxLive,       \* bound: processes that own the target in turn
          MaxCalls,      \* bound: send and wait calls
          MaxCrashes     \* bound: daemon crashes

Any == 0                 \* no expectSessionId, or a process that is no target
Vias == {"first", "second"}   \* the original transport id and the recovery's
Statuses == {"held", "delivered", "denied", "expired", "refused", "dropped"}
Evidence == {"held", "delivered", "terminal", "ack", "reply", "idle"}

ASSUME SendAssumption ==
    /\ Requests \subseteq [content : Contents, recovery : BOOLEAN,
                           privileged : BOOLEAN, expect : 0..MaxLive]
    /\ Requires \subseteq {"ack", "reply", "idle", "delivery", "terminal"}
    /\ FrameKinds \subseteq Statuses \cup {"ack", "reply", "idle"}
    /\ MaxLive \in Nat \ {0} /\ MaxCalls \in Nat /\ MaxCrashes \in Nat

None == [content |-> "none"]

VARIABLES up,         \* the daemon runs
          mem,        \* what the rows in memory say
          disk,       \* what the rows in the file say
          poisoned,   \* an append of this process has failed
          lock,       \* sendLocks: callers of a message id, in order
          pc, ask,    \* where each send call stands, and its arguments
          via, target,\* the transport it uses and the process it resolved
          answer,     \* how each caller's last call ended
          waiting,    \* what each waiter is waiting for, or None
          linked,     \* messages that an operator linked an unmatched frame to
          live,       \* the process that owns the target now
          wire,       \* frames that reached a target's socket
          calls, crashes

ledgerVars == <<mem, disk, poisoned>>
callVars == <<lock, pc, ask, via, target, answer>>
countVars == <<calls, crashes>>
vars == <<up, ledgerVars, callVars, waiting, linked, live, wire, countVars>>

Rows == [request  : [Messages -> [content : Contents, to : 1..MaxLive] \cup {None}],
         recovery : [Messages -> BOOLEAN],
         outcome  : [Messages -> [Vias -> {"none", "written", "failed"}]],
         evidence : [Messages -> SUBSET Evidence]]

NoRows == [request  |-> [m \in Messages |-> None],
           recovery |-> [m \in Messages |-> FALSE],
           outcome  |-> [m \in Messages |-> [v \in Vias |-> "none"]],
           evidence |-> [m \in Messages |-> {}]]

\* durableState: the strongest fact the rows of a message hold.
Status(rows, m) ==
    CASE "terminal"  \in rows.evidence[m] -> "terminal"
      [] "reply"     \in rows.evidence[m] -> "replied"
      [] "ack"       \in rows.evidence[m] -> "acknowledged"
      [] "idle"      \in rows.evidence[m] -> "idle"
      [] "delivered" \in rows.evidence[m] -> "delivered"
      [] "held"      \in rows.evidence[m] -> "held"
      [] \E v \in Vias : rows.outcome[m][v] = "failed"  -> "uncertain_failure"
      [] \E v \in Vias : rows.outcome[m][v] = "written" -> "written"
      [] OTHER -> IF rows.request[m] # None THEN "requested" ELSE "unknown"

\* WAIT_EVIDENCE: a reply also answers a wait for an ack, never the reverse.
Satisfies(rows, want) ==
    LET seen == rows.evidence[want.msg] IN
    CASE want.require = "ack"      -> seen \cap {"ack", "reply"} # {}
      [] want.require = "delivery" -> "delivered" \in seen
      [] OTHER                     -> want.require \in seen

\* An append that is durable and in memory.
Commit(rows) == ~poisoned /\ mem' = rows /\ disk' = rows /\ UNCHANGED poisoned

\* An append that fails.  The first failure poisons the store and may leave
\* its row in the file; after that nothing reaches the file.
CommitFails(rows) ==
    /\ disk' \in (IF poisoned THEN {disk} ELSE {disk, rows})
    /\ poisoned' = TRUE
    /\ UNCHANGED mem

\* An append of a row this model does not keep (a diagnosis): its error is
\* swallowed, but it can poison the store.
Diagnose == poisoned' \in {poisoned, TRUE} /\ UNCHANGED <<mem, disk>>

\* An operation that appends nothing but a diagnosis: what matters here is that it may fail.
Report == ~poisoned /\ Diagnose /\ poisoned'

\* The listeners of waitForEvent look again after an emitted row.
Wake(rows) ==
    waiting' = [w \in Waiters |->
        IF waiting[w] # None /\ Satisfies(rows, waiting[w]) THEN None ELSE waiting[w]]
-----------------------------------------------------------------------------
Init ==
    /\ up = TRUE /\ mem = NoRows /\ disk = NoRows /\ poisoned = FALSE
    /\ lock = [m \in Messages |-> <<>>]
    /\ pc = [c \in Callers |-> "idle"] /\ ask = [c \in Callers |-> None]
    /\ via = [c \in Callers |-> "first"] /\ target = [c \in Callers |-> Any]
    /\ answer = [c \in Callers |-> None]
    /\ waiting = [w \in Waiters |-> None]
    /\ linked = {}
    /\ live = 1 /\ wire = <<>> /\ calls = 0 /\ crashes = 0

\* send(): the call goes behind every earlier one for the same id.
Call(c, m, request) ==
    /\ up /\ pc[c] = "idle" /\ calls < MaxCalls
    /\ calls' = calls + 1
    /\ lock' = [lock EXCEPT ![m] = Append(@, c)]
    /\ ask' = [ask EXCEPT ![c] = [msg |-> m, content |-> request.content,
                 recovery |-> request.recovery, privileged |-> request.privileged,
                 expect |-> request.expect]]
    /\ pc' = [pc EXCEPT ![c] = "queued"]
    /\ answer' = [answer EXCEPT ![c] = None]
    /\ UNCHANGED <<up, ledgerVars, via, target, waiting, linked, live, wire, crashes>>

\* The call ends, whichever way, and the next one for its id may start.
Finish(c, result) ==
    /\ answer' = [answer EXCEPT ![c] = [result |-> result, msg |-> ask[c].msg,
                                        content |-> ask[c].content]]
    /\ pc' = [pc EXCEPT ![c] = "idle"]
    /\ ask' = [ask EXCEPT ![c] = None]
    /\ via' = [via EXCEPT ![c] = "first"]
    /\ target' = [target EXCEPT ![c] = Any]
    /\ lock' = [lock EXCEPT ![ask[c].msg] = Tail(@)]

Goto(c, place) == pc' = [pc EXCEPT ![c] = place]

Turn(c) == pc[c] = "queued" /\ Head(lock[ask[c].msg]) = c

\* The request that an id, a reference or a subscription names; the one a call repeats.
RequestOf(m) == mem.request[m]
PriorOf(c) == RequestOf(ask[c].msg)

\* #sendOnce up to its first await: nothing is known of the id.
EnterNew(c) ==
    /\ Turn(c) /\ PriorOf(c) = None
    /\ Goto(c, "resolving")
    /\ UNCHANGED <<up, ledgerVars, lock, ask, via, target, answer, waiting, linked, live, wire, countVars>>

\* The id is known with other content: MESSAGE_ID_CONFLICT.
EnterConflict(c) ==
    /\ Turn(c) /\ PriorOf(c) # None /\ PriorOf(c).content # ask[c].content
    /\ Finish(c, "conflict")
    /\ UNCHANGED <<up, ledgerVars, waiting, linked, live, wire, countVars>>

\* The id is known with this content: the stored status is replayed.
MutEnterReplay(c) ==
    /\ Turn(c) /\ PriorOf(c) # None /\ ~ask[c].recovery
    /\ Finish(c, "replay")
    /\ UNCHANGED <<up, ledgerVars, waiting, linked, live, wire, countVars>>
EnterReplay(c) ==
    /\ Turn(c) /\ PriorOf(c) # None /\ PriorOf(c).content = ask[c].content
    /\ ~ask[c].recovery
    /\ Finish(c, "replay")
    /\ UNCHANGED <<up, ledgerVars, waiting, linked, live, wire, countVars>>

\* #recoverSend: refused once the message has ended.
EnterRecovery(c) ==
    /\ Turn(c) /\ PriorOf(c) # None /\ PriorOf(c).content = ask[c].content
    /\ ask[c].recovery
    /\ IF "terminal" \in mem.evidence[ask[c].msg]
       THEN Finish(c, "forbidden")
       ELSE /\ Goto(c, "resolving")
            /\ via' = [via EXCEPT ![c] = "second"]
            /\ UNCHANGED <<lock, ask, target, answer>>
    /\ UNCHANGED <<up, ledgerVars, waiting, linked, live, wire, countVars>>

\* The process is the one that the original reservation was for.
SameSnapshot(c) == PriorOf(c).to = live

\* The resolver proves the process that owns the target now; a caller that
\* names another one is refused, and a recovery needs the original one.
Resolve(c) ==
    /\ pc[c] = "resolving"
    /\ IF via[c] = "first" /\ ask[c].expect \notin {Any, live}
         THEN Finish(c, "stale")
       ELSE IF via[c] = "second" /\ ~SameSnapshot(c)
         THEN Finish(c, "forbidden")
       ELSE /\ Goto(c, "reserving")
            /\ target' = [target EXCEPT ![c] = live]
            /\ UNCHANGED <<lock, ask, via, answer>>
    /\ UNCHANGED <<up, ledgerVars, waiting, linked, live, wire, countVars>>

\* TARGET_UNAVAILABLE: nothing was reserved, so the id stays free.
MutResolveFails(c) ==
    /\ pc[c] = "resolving"
    /\ Diagnose
    /\ Goto(c, "idle")
    /\ UNCHANGED <<up, lock, ask, via, target, answer, waiting, linked, live, wire, countVars>>
ResolveFails(c) ==
    /\ pc[c] = "resolving"
    /\ Diagnose
    /\ Finish(c, "unavailable")
    /\ UNCHANGED <<up, waiting, linked, live, wire, countVars>>

Reservation(c) ==
    IF via[c] = "first"
    THEN [mem EXCEPT !.request[ask[c].msg] = [content |-> ask[c].content, to |-> target[c]]]
    ELSE [mem EXCEPT !.recovery[ask[c].msg] = TRUE]

\* reserveRequest and reserveRecovery find a row that is already there.
MutReserved(c) == FALSE
Reserved(c) == IF via[c] = "first" THEN PriorOf(c) # None ELSE mem.recovery[ask[c].msg]

Reserve(c) ==
    /\ pc[c] = "reserving" /\ ~poisoned
    /\ IF Reserved(c)
       THEN /\ Finish(c, IF PriorOf(c).content = ask[c].content THEN "replay" ELSE "conflict")
            /\ UNCHANGED ledgerVars
       ELSE /\ Commit(Reservation(c))
            /\ Goto(c, "reserved")
            /\ UNCHANGED <<lock, ask, via, target, answer>>
    /\ UNCHANGED <<up, waiting, linked, live, wire, countVars>>

\* The reservation cannot be written: nothing is sent under it.
ReserveFails(c) ==
    /\ pc[c] = "reserving"
    /\ poisoned \/ ~Reserved(c)
    /\ CommitFails(Reservation(c))
    /\ Finish(c, "ledger_error")
    /\ UNCHANGED <<up, waiting, linked, live, wire, countVars>>

\* afterReservation of a privileged caller throws: reserved, never written.
HookThrows(c) ==
    /\ pc[c] = "reserved" /\ ask[c].privileged
    /\ Finish(c, "hook_error")
    /\ UNCHANGED <<up, ledgerVars, waiting, linked, live, wire, countVars>>

\* What the call writes, and whether the target is still the process it resolved.
Frame(c) == [msg |-> ask[c].msg, via |-> via[c], to |-> live, content |-> ask[c].content]
Reverified(c) == live = target[c]

\* directSend: the connected process is compared with the resolved one and
\* the frames are written.  The write may still be reported as failed.
Transmit(c) ==
    /\ pc[c] = "reserved" /\ Reverified(c)
    /\ wire' = Append(wire, Frame(c))
    /\ \E place \in {"sent", "broken"} : Goto(c, place)
    /\ UNCHANGED <<up, ledgerVars, lock, ask, via, target, answer, waiting, linked, live, countVars>>

\* Reverify, connect or the identity check fails: no byte has left.
TransmitFails(c) ==
    /\ pc[c] = "reserved"
    /\ Goto(c, "broken")
    /\ UNCHANGED <<up, ledgerVars, lock, ask, via, target, answer, waiting, linked, live, wire, countVars>>

Outcome(c, result) == [mem EXCEPT !.outcome[ask[c].msg][via[c]] = result]

\* socket_write_complete is appended and the caller is told "written".
RecordSent(c) ==
    /\ pc[c] = "sent"
    /\ Commit(Outcome(c, "written"))
    /\ Finish(c, "written")
    /\ UNCHANGED <<up, waiting, linked, live, wire, countVars>>

\* That append fails: the catch below it runs.
RecordSentFails(c) ==
    /\ pc[c] = "sent"
    /\ CommitFails(Outcome(c, "written"))
    /\ Goto(c, "broken")
    /\ UNCHANGED <<up, lock, ask, via, target, answer, waiting, linked, live, wire, countVars>>

\* send_failed is appended and DELIVERY_UNCERTAIN thrown.
RecordBroken(c) ==
    /\ pc[c] = "broken"
    /\ Commit(Outcome(c, "failed"))
    /\ Finish(c, "uncertain")
    /\ UNCHANGED <<up, waiting, linked, live, wire, countVars>>

RecordBrokenFails(c) ==
    /\ pc[c] = "broken"
    /\ CommitFails(Outcome(c, "failed"))
    /\ Finish(c, "ledger_error")
    /\ UNCHANGED <<up, waiting, linked, live, wire, countVars>>
-----------------------------------------------------------------------------
\* The connection of a write that the target did not close in time is closed, and reported.
HoldBound ==
    /\ up /\ wire # <<>> /\ Report
    /\ UNCHANGED <<up, callVars, waiting, linked, live, wire, countVars>>

\* peer_status resolves the target; a failure and another display name are reported.
PeerStatus ==
    /\ up /\ Report
    /\ UNCHANGED <<up, callVars, waiting, linked, live, wire, countVars>>
-----------------------------------------------------------------------------
\* A frame answers a message that the ledger knows.
Correlated(m) == RequestOf(m) # None

\* #assertPeer: the writer is the process the request was written to.
MutAssertPeer(m, writer) == Correlated(m)
AssertPeer(m, writer) == Correlated(m) /\ RequestOf(m).to = writer

\* The closed list of terminal statuses.
MutRecorded(kind) == IF kind \in {"denied", "expired", "refused"} THEN "terminal" ELSE kind
Recorded(kind) == IF kind \in {"denied", "expired", "refused", "dropped"} THEN "terminal" ELSE kind

\* Who can name message m in a frame: a process that got it, even one that
\* has been replaced since, or a stranger that merely claims to.
Writers(m) == {Any} \cup {wire[i].to : i \in {j \in 1..Len(wire) : wire[j].msg = m}}

\* acceptFrame: the row is appended and emitted, or its append fails.
AcceptFrame(m, kind, writer) ==
    /\ up /\ writer \in Writers(m) /\ AssertPeer(m, writer)
    /\ LET rows == [mem EXCEPT !.evidence[m] = @ \cup {Recorded(kind)}] IN
       \/ Commit(rows) /\ Wake(rows)
       \/ CommitFails(rows) /\ UNCHANGED waiting
    /\ UNCHANGED <<up, callVars, linked, live, wire, countVars>>

\* A frame about a message of another process is refused, and that is recorded.
RefuseFrame(m, writer) ==
    /\ up /\ writer \in Writers(m) /\ Correlated(m) /\ ~AssertPeer(m, writer)
    /\ Report
    /\ UNCHANGED <<up, callVars, waiting, linked, live, wire, countVars>>

\* A frame that answers nothing the ledger knows is recorded as unmatched, its body kept.
Unmatched ==
    /\ up /\ Report
    /\ UNCHANGED <<up, callVars, waiting, linked, live, wire, countVars>>

\* linkUnmatched: the operator names an unmatched frame, of which the ledger is taken to hold
\* enough, as the reply to a message.  The row is not emitted, so no waiter looks again.
LinkUnmatched(m) ==
    /\ up /\ Correlated(m) /\ "reply" \notin mem.evidence[m]
    /\ LET rows == [mem EXCEPT !.evidence[m] = @ \cup {"reply"}] IN
       Commit(rows) \/ CommitFails(rows)
    /\ linked' = IF disk' = disk THEN linked ELSE linked \cup {m}
    /\ UNCHANGED <<up, callVars, waiting, live, wire, countVars>>

\* wait(): the rows are searched, then the listener and the timer are set.
MutWait(w, want) ==
    /\ up /\ waiting[w] = None /\ calls < MaxCalls
    /\ calls' = calls + 1
    /\ waiting' = [waiting EXCEPT ![w] = want]
    /\ UNCHANGED <<up, ledgerVars, callVars, linked, live, wire, crashes>>
Wait(w, want) ==
    /\ up /\ waiting[w] = None /\ calls < MaxCalls
    /\ calls' = calls + 1
    /\ waiting' = [waiting EXCEPT ![w] = IF Satisfies(mem, want) THEN None ELSE want]
    /\ UNCHANGED <<up, ledgerVars, callVars, linked, live, wire, crashes>>

\* The timer fires: peer_wait_timed_out is appended, its failure swallowed.
Expire(w) ==
    /\ waiting[w] # None
    /\ waiting' = [waiting EXCEPT ![w] = None]
    /\ Diagnose
    /\ UNCHANGED <<up, callVars, linked, live, wire, countVars>>
-----------------------------------------------------------------------------
\* Another process takes over the target.
Replace ==
    /\ live < MaxLive
    /\ live' = live + 1
    /\ UNCHANGED <<up, ledgerVars, callVars, waiting, linked, wire, countVars>>

\* The daemon ends: calls and waits are lost with it.
Crash ==
    /\ up /\ crashes < MaxCrashes
    /\ up' = FALSE /\ crashes' = crashes + 1
    /\ lock' = [m \in Messages |-> <<>>]
    /\ pc' = [c \in Callers |-> "idle"] /\ ask' = [c \in Callers |-> None]
    /\ via' = [c \in Callers |-> "first"] /\ target' = [c \in Callers |-> Any]
    /\ waiting' = [w \in Waiters |-> None]
    /\ poisoned' = FALSE
    /\ UNCHANGED <<mem, disk, answer, linked, live, wire, calls>>

\* A new process reads the file back.
Restart ==
    /\ ~up
    /\ up' = TRUE /\ mem' = disk
    /\ UNCHANGED <<disk, poisoned, callVars, waiting, linked, live, wire, countVars>>

SendStep(c) ==
    \/ EnterNew(c) \/ EnterConflict(c) \/ EnterReplay(c) \/ EnterRecovery(c)
    \/ Resolve(c) \/ ResolveFails(c)
    \/ Reserve(c) \/ ReserveFails(c) \/ HookThrows(c)
    \/ Transmit(c) \/ TransmitFails(c)
    \/ RecordSent(c) \/ RecordSentFails(c) \/ RecordBroken(c) \/ RecordBrokenFails(c)

Next ==
    \/ \E c \in Callers : SendStep(c)
    \/ \E c \in Callers, m \in Messages, request \in Requests : Call(c, m, request)
    \/ \E m \in Messages, kind \in FrameKinds, writer \in 0..MaxLive : AcceptFrame(m, kind, writer)
    \/ \E m \in Messages, writer \in 0..MaxLive : RefuseFrame(m, writer)
    \/ \E m \in Messages : LinkUnmatched(m)
    \/ Unmatched \/ HoldBound \/ PeerStatus
    \/ \E w \in Waiters, m \in Messages, r \in Requires : Wait(w, [msg |-> m, require |-> r])
    \/ \E w \in Waiters : Expire(w)
    \/ Replace \/ Crash \/ Restart

Spec == Init /\ [][Next]_vars

\* The resolver, the socket (bounded by its own timer) and the ledger answer,
\* and timers fire; callers, peers and crashes owe nothing.
FairSpec ==
    /\ Spec
    /\ \A c \in Callers : WF_vars(SendStep(c))
    /\ \A w \in Waiters : WF_vars(Expire(w))
-----------------------------------------------------------------------------
Waits == [msg : Messages, require : Requires]

\* The shape of every variable.
TypeOK ==
    /\ up \in BOOLEAN /\ mem \in Rows /\ disk \in Rows /\ poisoned \in BOOLEAN
    /\ lock \in [Messages -> Seq(Callers)]
    /\ pc \in [Callers -> {"idle", "queued", "resolving", "reserving", "reserved", "sent", "broken"}]
    /\ \A c \in Callers : (ask[c] = None) = (pc[c] = "idle")
    /\ via \in [Callers -> Vias] /\ target \in [Callers -> 0..MaxLive]
    /\ waiting \in [Waiters -> Waits \cup {None}]
    /\ linked \subseteq Messages
    /\ live \in 1..MaxLive /\ calls \in 0..MaxCalls /\ crashes \in 0..MaxCrashes

\* Whatever fails, repeats or crashes, the bytes of a message leave at most
\* once under its own id and at most once more under its one recovery: a
\* failed or unanswered send is never retried by sending it again.
AtMostOncePerTransport ==
    \A i, j \in 1..Len(wire) :
        i # j => <<wire[i].msg, wire[i].via>> # <<wire[j].msg, wire[j].via>>

\* No byte leaves without a reservation in the file that names the same
\* content and the very process the bytes went to (reserve, then write).
FrameIsReserved ==
    \A i \in 1..Len(wire) :
        LET f == wire[i] IN
        /\ disk.request[f.msg] = [content |-> f.content, to |-> f.to]
        /\ f.via = "second" => disk.recovery[f.msg]

\* What a caller was told stays true of the ledger: a replay or a "written"
\* is about its own content, and "written" has its row.
AnswersAgree ==
    \A c \in Callers :
        answer[c] # None /\ answer[c].result \in {"replay", "written", "uncertain"} =>
            /\ disk.request[answer[c].msg] # None
            /\ disk.request[answer[c].msg].content = answer[c].content
            /\ answer[c].result = "written" => \E v \in Vias : disk.outcome[answer[c].msg][v] = "written"

\* Every status at or above "written" stands on bytes that really left for
\* the process the message was addressed to; strangers cannot raise it, only an operator can.
StatusMeansSent ==
    \A m \in Messages \ linked :
        Status(disk, m) \notin {"unknown", "requested", "uncertain_failure"} =>
            \E i \in 1..Len(wire) : wire[i].msg = m

\* A waiter never sleeps on evidence the ledger already holds, so an expired
\* wait really found none (the rows are searched before the listener is set).  The exception is
\* a message whose answer an operator linked: that row wakes nobody.
NoLostWakeup ==
    \A w \in Waiters :
        up /\ waiting[w] # None /\ waiting[w].msg \notin linked => ~Satisfies(mem, waiting[w])

\* Every send and every wait comes to an end, also behind a failed one for
\* the same id.
CallsFinish ==
    /\ \A c \in Callers : []<>(pc[c] = "idle")
    /\ \A w \in Waiters : []<>(waiting[w] = None)

\* docs/troubleshooting.md of RECOVERY_FORBIDDEN: a message that reached a
\* terminal failure cannot be recovered.
TerminalIsFinal ==
    [][\A m \in Messages :
        ~disk.recovery[m] /\ disk'.recovery[m] => "terminal" \notin mem.evidence[m]]_vars

\* Across calls, failures, crashes and replaced targets, PeerCore keeps to Delivery: an id has
\* one reservation, its bytes leave once for each transport, as reserved and before an outcome
\* of that transport is in the file, and no row of a message is ever contradicted by another.
Promised == INSTANCE Delivery WITH
    Targets <- 1..MaxLive, Reports <- Evidence, Droppable <- {},
    request <- disk.request, recovery <- {m \in Messages : disk.recovery[m]},
    left <- {[id |-> i, msg |-> wire[i].msg, via |-> wire[i].via, to |-> wire[i].to,
              content |-> wire[i].content] : i \in DOMAIN wire},
    outcome <- disk.outcome, evidence <- disk.evidence
ImplementsDelivery == Promised!DeliverySpec
=============================================================================
