--------------------------- MODULE PeerSendProofs ---------------------------
(***************************************************************************)
(* Proofs about PeerSend for any messages, callers and bounds: its type    *)
(* invariant, its five safety invariants, and that it implements Delivery. *)
(* Liveness stays with TLC.                                                *)
(***************************************************************************)
EXTENDS PeerSend, SequenceTheorems, TLAPS

Request == [content : Contents, to : 1..MaxLive]
Asked == [msg : Messages, content : Contents, recovery : BOOLEAN, privileged : BOOLEAN,
          expect : 0..MaxLive]
Results == {"conflict", "replay", "forbidden", "stale", "unavailable", "ledger_error",
            "hook_error", "written", "uncertain"}
Answers == [result : Results, msg : Messages, content : Contents]
Frames == [msg : Messages, via : Vias, to : 1..MaxLive, content : Contents]

\* A call that its lock let in, and one whose reservation is in the ledger.
Inside == {"resolving", "reserving", "reserved", "sent", "broken"}
Flying == {"reserved", "sent", "broken"}

\* What TypeOK leaves open: the records behind a call, an answer and a frame.
CallTypes ==
    /\ ask \in [Callers -> Asked \cup {None}]
    /\ answer \in [Callers -> Answers \cup {None}]
    /\ wire \in Seq(Frames)

\* A call is in the queue of its message until it ends, and at its head once
\* it is let in: two calls inside are never about one message.
LockOK ==
    \A c \in Callers : pc[c] # "idle" =>
        /\ \E i \in 1..Len(lock[ask[c].msg]) : lock[ask[c].msg][i] = c
        /\ pc[c] \in Inside => Head(lock[ask[c].msg]) = c

\* No fact of r is missing or different in s.
Extends(r, s) ==
    \A m \in Messages :
        /\ r.request[m] # None => s.request[m] = r.request[m]
        /\ r.recovery[m] => s.recovery[m]
        /\ \A v \in Vias : r.outcome[m][v] # "none" => s.outcome[m][v] = r.outcome[m][v]
        /\ r.evidence[m] \subseteq s.evidence[m]

\* The file holds what memory holds, and no more unless an append failed;
\* a daemon that is down has neither calls nor waiters.
MemOK ==
    /\ Extends(mem, disk)
    /\ up /\ ~poisoned => mem = disk
    /\ ~up => (\A c \in Callers : pc[c] = "idle") /\ (\A w \in Waiters : waiting[w] = None)

\* Some bytes of the message left.
Left(m) == \E i \in 1..Len(wire) : wire[i].msg = m

\* An outcome stands on a reservation, and "written" and evidence on bytes
\* that left, unless an operator linked the evidence.
Backed ==
    \A m \in Messages :
        /\ disk.outcome[m]["first"] # "none" => disk.request[m] # None
        /\ disk.outcome[m]["second"] # "none" => disk.recovery[m]
        /\ \A v \in Vias : disk.outcome[m][v] = "written" => Left(m)
        /\ m \notin linked /\ disk.evidence[m] # {} => Left(m)

\* What a call knows where it stands: before the reservation, that a recovery
\* repeats the stored request; after it, that the row is its own, and that
\* nothing was written under its transport until it is past "reserved".
CallOK(c) ==
    LET m == ask[c].msg IN
    /\ pc[c] \in {"idle", "queued"} => via[c] = "first"
    /\ pc[c] \in {"reserving"} \cup Flying => target[c] \in 1..MaxLive
    /\ pc[c] \in {"resolving", "reserving"} /\ via[c] = "second" =>
           mem.request[m] # None /\ mem.request[m].content = ask[c].content
    /\ pc[c] = "reserving" /\ via[c] = "second" => mem.request[m].to = target[c]
    /\ pc[c] \in Flying =>
           /\ mem.request[m] = [content |-> ask[c].content, to |-> target[c]]
           /\ via[c] = "second" => mem.recovery[m]
           /\ mem.outcome[m][via[c]] = "none"
    /\ pc[c] = "reserved" =>
           \A i \in 1..Len(wire) : wire[i].msg # m \/ wire[i].via # via[c]
    /\ pc[c] = "sent" => Left(m)

CallsOK == \A c \in Callers : CallOK(c)

Shape == TypeOK /\ CallTypes /\ LockOK /\ MemOK

IInv == Shape /\ Backed /\ CallsOK
            /\ AtMostOncePerTransport /\ FrameIsReserved /\ AnswersAgree /\ NoLostWakeup
-----------------------------------------------------------------------------
\* A request and an argument record are never None: None has another domain.
LEMMA RecordsAreNotNone ==
    /\ \A r \in Request : r # None
    /\ \A r \in Asked : r # None
<1>1. DOMAIN None = {"content"}
  BY DEF None
<1>2. \A r \in Request : DOMAIN r = {"content", "to"}
  BY DEF Request
<1>3. \A r \in Asked : "msg" \in DOMAIN r
  BY DEF Asked
<1>. QED  BY <1>1, <1>2, <1>3

\* What holds of any row holds of the file after an append, whether it
\* succeeds or fails, if the appended row takes nothing back.
LEMMA AppendLeaves ==
    ASSUME TypeOK, MemOK, up, up', NEW rows \in Rows, Extends(mem, rows),
           Commit(rows) \/ CommitFails(rows)
    PROVE  /\ mem' \in Rows /\ disk' \in Rows /\ poisoned' \in BOOLEAN
           /\ MemOK' /\ Extends(mem, mem') /\ Extends(disk, disk')
           /\ disk' = disk \/ (disk' = rows /\ disk = mem)
           /\ mem' = mem \/ (mem' = rows /\ disk' = rows)
<1>1. Extends(rows, rows) /\ Extends(disk, disk) /\ Extends(mem, mem)
  BY DEF Extends
<1>2. CASE Commit(rows)
  <2>1. mem = disk /\ mem' = rows /\ disk' = rows /\ poisoned' = poisoned
    BY <1>2 DEF Commit, MemOK
  <2>2. MemOK'
    BY <2>1, <1>1 DEF MemOK, Extends
  <2>. QED  BY <2>1, <2>2 DEF TypeOK
<1>3. CASE CommitFails(rows)
  <2>1. mem' = mem /\ poisoned' = TRUE /\ (disk' = disk \/ (disk' = rows /\ disk = mem))
    BY <1>3 DEF CommitFails, MemOK, TypeOK
  <2>2. Extends(mem, disk)
    BY DEF MemOK
  <2>3. Extends(mem', disk') /\ Extends(disk, disk')
    BY <2>1, <2>2, <1>1 DEF Extends
  <2>4. MemOK'
    BY <2>1, <2>3 DEF MemOK
  <2>. QED  BY <2>1, <2>3, <2>4, <1>1 DEF TypeOK
<1>. QED  BY <1>2, <1>3

\* What the end of a call leaves behind: the caller is idle, the next one in
\* its queue may start, and nobody else has moved.
LEMMA FinishLeaves ==
    ASSUME TypeOK, CallTypes, LockOK, NEW c \in Callers, NEW result \in Results,
           pc[c] # "idle", Head(lock[ask[c].msg]) = c, Finish(c, result)
    PROVE  /\ lock' \in [Messages -> Seq(Callers)]
           /\ pc' = [pc EXCEPT ![c] = "idle"]
           /\ pc' \in [Callers -> {"idle", "queued", "resolving", "reserving", "reserved",
                                   "sent", "broken"}]
           /\ \A d \in Callers : (ask'[d] = None) = (pc'[d] = "idle")
           /\ via' \in [Callers -> Vias] /\ target' \in [Callers -> 0..MaxLive]
           /\ ask' \in [Callers -> Asked \cup {None}]
           /\ answer' \in [Callers -> Answers \cup {None}]
           /\ answer'[c] = [result |-> result, msg |-> ask[c].msg, content |-> ask[c].content]
           /\ LockOK'
           /\ pc'[c] = "idle" /\ via'[c] = "first"
           /\ \A d \in Callers \ {c} :
                /\ pc'[d] = pc[d] /\ ask'[d] = ask[d] /\ via'[d] = via[d]
                /\ target'[d] = target[d] /\ answer'[d] = answer[d]
<1>. DEFINE m == ask[c].msg
            q == lock[m]
<1>1. ask[c] \in Asked /\ m \in Messages /\ ask[c].content \in Contents
  BY DEF TypeOK, CallTypes, Asked
<1>2. q \in Seq(Callers) /\ q # <<>>
  BY <1>1 DEF TypeOK, LockOK
<1>3. /\ Tail(q) \in Seq(Callers) /\ Len(Tail(q)) = Len(q) - 1
      /\ \A i \in 1..Len(Tail(q)) : Tail(q)[i] = q[i + 1]
  BY <1>2, HeadTailProperties
<1>4. lock' = [lock EXCEPT ![m] = Tail(q)]
  BY DEF Finish, TypeOK
<1>5. /\ pc' = [pc EXCEPT ![c] = "idle"] /\ ask' = [ask EXCEPT ![c] = None]
      /\ via' = [via EXCEPT ![c] = "first"] /\ target' = [target EXCEPT ![c] = Any]
      /\ answer' = [answer EXCEPT ![c] = [result |-> result, msg |-> m,
                                          content |-> ask[c].content]]
  BY DEF Finish
<1>6. \A d \in Callers \ {c} :
        /\ pc'[d] = pc[d] /\ ask'[d] = ask[d] /\ via'[d] = via[d]
        /\ target'[d] = target[d] /\ answer'[d] = answer[d]
  BY <1>5 DEF TypeOK, CallTypes
<1>7. /\ pc'[c] = "idle" /\ via'[c] = "first" /\ ask'[c] = None
      /\ answer'[c] = [result |-> result, msg |-> m, content |-> ask[c].content]
  BY <1>5 DEF TypeOK, CallTypes
<1>8. LockOK'
  <2>. SUFFICES ASSUME NEW d \in Callers, pc'[d] # "idle"
                PROVE  /\ \E i \in 1..Len(lock'[ask'[d].msg]) : lock'[ask'[d].msg][i] = d
                       /\ pc'[d] \in Inside => Head(lock'[ask'[d].msg]) = d
    BY DEF LockOK
  <2>1. d # c /\ pc'[d] = pc[d] /\ ask'[d] = ask[d] /\ ask[d].msg \in Messages
    BY <1>6, <1>7 DEF TypeOK, CallTypes, Asked
  <2>2. CASE ask[d].msg # m
    BY <2>1, <2>2, <1>4 DEF LockOK, TypeOK
  <2>3. CASE ask[d].msg = m
    <3>1. pc[d] \notin Inside
      BY <2>1, <2>3 DEF LockOK
    <3>2. PICK i \in 1..Len(q) : q[i] = d
      BY <2>1, <2>3 DEF LockOK
    <3>3. i # 1
      BY <2>1, <3>2, <1>2
    <3>4. i - 1 \in 1..Len(Tail(q)) /\ Tail(q)[i - 1] = d
      BY <3>2, <3>3, <1>2, <1>3, LenProperties
    <3>5. lock'[ask'[d].msg] = Tail(q)
      BY <2>1, <2>3, <1>1, <1>4 DEF TypeOK
    <3>. QED  BY <3>1, <3>4, <3>5, <2>1
  <2>. QED  BY <2>2, <2>3
<1>9. \A d \in Callers : (ask'[d] = None) = (pc'[d] = "idle")
  <2>1. \A d \in Callers \ {c} : (ask'[d] = None) = (pc'[d] = "idle")
    BY ZenonT(60), <1>6 DEF TypeOK
  <2>. QED  BY <2>1, <1>7
<1>10. [result |-> result, msg |-> m, content |-> ask[c].content] \in Answers
  BY <1>1 DEF Answers
<1>11. lock' \in [Messages -> Seq(Callers)]
  BY <1>3, <1>4 DEF TypeOK
<1>12. /\ pc' \in [Callers -> {"idle", "queued", "resolving", "reserving", "reserved",
                               "sent", "broken"}]
       /\ via' \in [Callers -> Vias] /\ target' \in [Callers -> 0..MaxLive]
       /\ ask' \in [Callers -> Asked \cup {None}]
  BY <1>5, SendAssumption DEF TypeOK, CallTypes, Vias, Any
<1>13. answer' \in [Callers -> Answers \cup {None}]
  BY <1>5, <1>10 DEF CallTypes
<1>. QED  BY <1>5, <1>6, <1>7, <1>8, <1>9, <1>11, <1>12, <1>13
-----------------------------------------------------------------------------
\* What a step of a call may do to the ledger: add facts, none of them
\* evidence, and no outcome of another message; all of them backed.
LedgerStep(c) ==
    /\ mem' \in Rows /\ disk' \in Rows /\ poisoned' \in BOOLEAN
    /\ Extends(mem, mem') /\ Extends(disk, disk')
    /\ \A m \in Messages : mem'.evidence[m] = mem.evidence[m]
    /\ \A m \in Messages \ {ask[c].msg} : mem'.outcome[m] = mem.outcome[m]
    /\ MemOK' /\ Backed'

\* What the steps of the calls leave alone, but for the write itself.
Beside == UNCHANGED <<up, waiting, linked, live, wire, countVars>>

\* A step that writes no row of the model, though it may poison the store.
LEMMA NoRow ==
    ASSUME IInv, NEW c \in Callers, up, Beside,
           UNCHANGED <<mem, disk>>, poisoned' \in {poisoned, TRUE}
    PROVE  LedgerStep(c)
<1>. USE DEF IInv, Shape, Beside
<1>1. MemOK'
  BY ZenonT(60) DEF MemOK, Extends, TypeOK
<1>3. Backed'
  BY DEF Backed, Left
<1>2. Extends(mem, mem') /\ Extends(disk, disk')
  BY DEF Extends
<1>. QED  BY <1>1, <1>2, <1>3 DEF LedgerStep, TypeOK

\* A call inside is running, and no other one is inside for its message.
LEMMA InsideIsAlone ==
    ASSUME IInv, NEW c \in Callers, pc[c] # "idle"
    PROVE  /\ up /\ ask[c] \in Asked /\ ask[c].msg \in Messages /\ ask[c].content \in Contents
           /\ pc[c] \in Inside => Head(lock[ask[c].msg]) = c
           /\ Head(lock[ask[c].msg]) = c => \A d \in Callers \ {c} :
                pc[d] \in Inside => ask[d].msg # ask[c].msg
<1>. USE DEF IInv, Shape
<1>1. up
  BY Zenon DEF MemOK
<1>2. ask[c] \in Asked /\ ask[c].msg \in Messages /\ ask[c].content \in Contents
  BY DEF TypeOK, CallTypes, Asked
<1>3. \A d \in Callers : pc[d] \in Inside => Head(lock[ask[d].msg]) = d
  BY DEF LockOK, Inside
<1>. QED  BY <1>1, <1>2, <1>3

\* The calls that did not move still know what they knew.
LEMMA OthersKnow ==
    ASSUME IInv, NEW c \in Callers, LedgerStep(c), wire' = wire,
           Head(lock[ask[c].msg]) = c, pc[c] # "idle",
           NEW d \in Callers \ {c},
           pc'[d] = pc[d], ask'[d] = ask[d], via'[d] = via[d], target'[d] = target[d]
    PROVE  CallOK(d)'
<1>1. CallOK(d)
  BY DEF IInv, CallsOK
<1>2. CASE pc[d] \notin Inside
  BY <1>1, <1>2 DEF CallOK, Inside, Flying
<1>3. CASE pc[d] \in Inside
  <2>. DEFINE m == ask[d].msg
  <2>1. m \in Messages \ {ask[c].msg} /\ via[d] \in Vias
    BY <1>3, InsideIsAlone DEF Inside, IInv, Shape, TypeOK
  <2>2. /\ mem.request[m] # None => mem'.request[m] = mem.request[m]
        /\ mem.recovery[m] => mem'.recovery[m]
        /\ mem'.outcome[m] = mem.outcome[m]
    BY <2>1 DEF LedgerStep, Extends
  <2>3. pc[d] \in Flying => mem.request[m] # None
    <3>. SUFFICES ASSUME pc[d] \in Flying PROVE mem.request[m] # None
      OBVIOUS
    <3>1. mem.request[m] = [content |-> ask[d].content, to |-> target[d]]
      BY <1>1 DEF CallOK
    <3>2. [content |-> ask[d].content, to |-> target[d]] \in Request
      BY <1>1, InsideIsAlone DEF CallOK, Request, Flying
    <3>. QED  BY <3>1, <3>2, RecordsAreNotNone
  <2>4. Left(m)' = Left(m)
    BY DEF Left
  <2>. QED  BY <1>1, <2>2, <2>3, <2>4 DEF CallOK
<1>. QED  BY <1>2, <1>3

\* Frames and answers agree with a file that only grew.
LEMMA GrowthKeeps ==
    ASSUME IInv, Extends(disk, disk'), wire' = wire
    PROVE  /\ AtMostOncePerTransport' /\ FrameIsReserved'
           /\ answer' = answer => AnswersAgree'
<1>. USE DEF IInv, Shape
<1>1. AtMostOncePerTransport'
  BY DEF AtMostOncePerTransport
<1>2. FrameIsReserved'
  <2>. SUFFICES ASSUME NEW i \in 1..Len(wire)
                PROVE  /\ disk'.request[wire[i].msg] = [content |-> wire[i].content, to |-> wire[i].to]
                       /\ wire[i].via = "second" => disk'.recovery[wire[i].msg]
    BY DEF FrameIsReserved
  <2>1. wire[i] \in Frames
    BY DEF CallTypes
  <2>2. [content |-> wire[i].content, to |-> wire[i].to] # None
    BY <2>1, RecordsAreNotNone DEF Frames, Request
  <2>3. wire[i].msg \in Messages
    BY <2>1 DEF Frames
  <2>. QED  BY <2>2, <2>3 DEF FrameIsReserved, Extends
<1>3. answer' = answer => AnswersAgree'
  <2>1. \A d \in Callers : answer[d] # None => answer[d].msg \in Messages
    BY DEF CallTypes, Answers
  <2>. QED  BY <2>1 DEF AnswersAgree, Extends
<1>. QED  BY <1>1, <1>2, <1>3

\* A waiter still waits for something that is not there if no evidence came.
LEMMA NoEvidenceNoWake ==
    ASSUME IInv, UNCHANGED <<up, waiting, linked>>,
           \A m \in Messages : mem'.evidence[m] = mem.evidence[m]
    PROVE  NoLostWakeup'
<1>1. \A w \in Waiters : waiting[w] # None => waiting[w].msg \in Messages
  BY DEF IInv, Shape, TypeOK, Waits
<1>. QED  BY <1>1 DEF IInv, NoLostWakeup, Satisfies

-----------------------------------------------------------------------------
\* A call that ends keeps the invariant if what it is told is in the file.
LEMMA FinishInv ==
    ASSUME IInv, NEW c \in Callers, NEW result \in Results,
           pc[c] # "idle", Head(lock[ask[c].msg]) = c,
           LedgerStep(c), Beside, Finish(c, result),
           result \in {"replay", "written", "uncertain"} =>
               /\ disk'.request[ask[c].msg] # None
               /\ disk'.request[ask[c].msg].content = ask[c].content
               /\ result = "written" => \E v \in Vias : disk'.outcome[ask[c].msg][v] = "written"
    PROVE  IInv'
<1>. USE DEF IInv, Shape
<1>0. /\ pc'[c] = "idle" /\ via'[c] = "first"
      /\ answer'[c] = [result |-> result, msg |-> ask[c].msg, content |-> ask[c].content]
      /\ \A d \in Callers \ {c} :
           /\ pc'[d] = pc[d] /\ ask'[d] = ask[d] /\ via'[d] = via[d]
           /\ target'[d] = target[d] /\ answer'[d] = answer[d]
  BY FinishLeaves
<1>1. TypeOK' /\ CallTypes' /\ LockOK'
  BY FinishLeaves DEF TypeOK, CallTypes, LedgerStep, Beside, countVars
<1>2. MemOK' /\ Backed'
  BY DEF LedgerStep
<1>3. CallsOK'
  <2>1. CallOK(c)'
    BY <1>0 DEF CallOK, Flying
  <2>2. \A d \in Callers \ {c} : CallOK(d)'
    BY <1>0, OthersKnow DEF Beside
  <2>. QED  BY <2>1, <2>2 DEF CallsOK
<1>4. AnswersAgree'
  <2>. SUFFICES ASSUME NEW d \in Callers, answer'[d] # None,
                       answer'[d].result \in {"replay", "written", "uncertain"}
                PROVE  /\ disk'.request[answer'[d].msg] # None
                       /\ disk'.request[answer'[d].msg].content = answer'[d].content
                       /\ answer'[d].result = "written" =>
                            \E v \in Vias : disk'.outcome[answer'[d].msg][v] = "written"
    BY DEF AnswersAgree
  <2>1. CASE d = c
    BY <2>1, <1>0
  <2>2. CASE d # c
    <3>1. answer'[d] = answer[d]
      BY <2>2, <1>0
    <3>2. answer[d].msg \in Messages
      BY <3>1 DEF CallTypes, Answers
    <3>. QED  BY <3>1, <3>2 DEF AnswersAgree, LedgerStep, Extends
  <2>. QED  BY <2>1, <2>2
<1>. QED  BY <1>1, <1>2, <1>3, <1>4, GrowthKeeps, NoEvidenceNoWake DEF LedgerStep, Beside

\* A call that goes on keeps the invariant if it knows what it must there.
LEMMA MoveInv ==
    ASSUME IInv, NEW c \in Callers, NEW place \in Inside,
           pc[c] # "idle", Head(lock[ask[c].msg]) = c,
           LedgerStep(c), Beside, Goto(c, place), UNCHANGED <<lock, ask, answer>>,
           via' \in [Callers -> Vias], target' \in [Callers -> 0..MaxLive],
           \A d \in Callers \ {c} : via'[d] = via[d] /\ target'[d] = target[d],
           CallOK(c)'
    PROVE  IInv'
<1>. USE DEF IInv, Shape
<1>1. /\ pc' \in [Callers -> {"idle", "queued", "resolving", "reserving", "reserved",
                              "sent", "broken"}]
      /\ pc'[c] = place /\ \A d \in Callers \ {c} : pc'[d] = pc[d]
  BY DEF TypeOK, Goto, Inside
<1>2. TypeOK'
  <2>1. \A d \in Callers : (ask'[d] = None) = (pc'[d] = "idle")
    BY <1>1 DEF TypeOK, Inside
  <2>. QED  BY <2>1, <1>1 DEF TypeOK, LedgerStep, Beside, countVars
<1>3. CallTypes'
  BY DEF CallTypes, Beside
<1>4. LockOK'
  BY <1>1 DEF LockOK
<1>5. MemOK' /\ Backed'
  BY DEF LedgerStep
<1>6. \A d \in Callers \ {c} : CallOK(d)'
  BY <1>1, OthersKnow DEF Beside
<1>7. CallsOK'
  BY <1>6 DEF CallsOK
<1>. QED  BY <1>2, <1>3, <1>4, <1>5, <1>7, GrowthKeeps, NoEvidenceNoWake DEF LedgerStep, Beside
-----------------------------------------------------------------------------
\* The first look at the id: it is new, taken, repeated, or to be recovered.
LEMMA EnterNewInv == ASSUME IInv, NEW c \in Callers, EnterNew(c) PROVE IInv'
<1>. USE DEF EnterNew, Turn
<1>1. Beside /\ LedgerStep(c)
  BY NoRow, InsideIsAlone DEF Beside, ledgerVars
<1>2. via[c] = "first" /\ pc'[c] = "resolving"
  <2>1. CallOK(c)
    BY DEF IInv, CallsOK
  <2>. QED  BY <2>1 DEF IInv, CallOK, Shape, TypeOK, Goto
<1>3. CallOK(c)'
  BY <1>2 DEF CallOK, Flying
<1>. QED  BY <1>1, <1>3, MoveInv DEF Inside, IInv, Shape, TypeOK

LEMMA EnterConflictInv == ASSUME IInv, NEW c \in Callers, EnterConflict(c) PROVE IInv'
<1>. USE DEF EnterConflict, Turn
<1>1. Beside /\ LedgerStep(c)
  BY NoRow, InsideIsAlone DEF Beside, ledgerVars
<1>. QED  BY <1>1, FinishInv DEF Results

LEMMA EnterReplayInv == ASSUME IInv, NEW c \in Callers, EnterReplay(c) PROVE IInv'
<1>. USE DEF EnterReplay, Turn
<1>1. Beside /\ LedgerStep(c)
  BY NoRow, InsideIsAlone DEF Beside, ledgerVars
<1>2. /\ disk'.request[ask[c].msg] # None
      /\ disk'.request[ask[c].msg].content = ask[c].content
  BY <1>1, InsideIsAlone DEF PriorOf, RequestOf, LedgerStep, Extends, IInv, Shape, MemOK
<1>. QED  BY <1>1, <1>2, FinishInv DEF Results

LEMMA EnterRecoveryInv == ASSUME IInv, NEW c \in Callers, EnterRecovery(c) PROVE IInv'
<1>. USE DEF EnterRecovery, Turn
<1>1. Beside /\ LedgerStep(c)
  BY NoRow, InsideIsAlone DEF Beside, ledgerVars
<1>2. CASE "terminal" \in mem.evidence[ask[c].msg]
  BY <1>1, <1>2, FinishInv DEF Results
<1>3. CASE "terminal" \notin mem.evidence[ask[c].msg]
  <2>1. /\ Goto(c, "resolving") /\ via' = [via EXCEPT ![c] = "second"]
        /\ UNCHANGED <<lock, ask, target, answer>>
    BY <1>3
  <2>2. pc'[c] = "resolving" /\ via'[c] = "second" /\ via' \in [Callers -> Vias]
        /\ \A d \in Callers \ {c} : via'[d] = via[d]
    BY <2>1 DEF IInv, Shape, TypeOK, Goto, Vias
  <2>3. CallOK(c)'
    BY <1>1, <2>1, <2>2 DEF CallOK, Flying, PriorOf, RequestOf, ledgerVars
  <2>. QED  BY <1>1, <2>1, <2>2, <2>3, MoveInv DEF Inside, IInv, Shape, TypeOK
<1>. QED  BY <1>2, <1>3

\* The resolver answers with the process that owns the target, or fails.
LEMMA ResolveInv == ASSUME IInv, NEW c \in Callers, Resolve(c) PROVE IInv'
<1>. USE DEF Resolve
<1>1. Beside /\ LedgerStep(c) /\ Head(lock[ask[c].msg]) = c
  BY NoRow, InsideIsAlone DEF Beside, ledgerVars, Inside
<1>2. CASE Finish(c, "stale") \/ Finish(c, "forbidden")
  BY <1>1, <1>2, FinishInv DEF Results
<1>3. CASE /\ ~(via[c] = "second" /\ ~SameSnapshot(c))
           /\ Goto(c, "reserving") /\ target' = [target EXCEPT ![c] = live]
           /\ UNCHANGED <<lock, ask, via, answer>>
  <2>1. /\ pc'[c] = "reserving" /\ target'[c] = live /\ live \in 1..MaxLive
        /\ target' \in [Callers -> 0..MaxLive]
        /\ \A d \in Callers \ {c} : target'[d] = target[d]
    BY <1>3, SendAssumption DEF IInv, Shape, TypeOK, Goto
  <2>2. CallOK(c)'
    BY ZenonT(60), <1>3, <2>1 DEF CallOK, Flying, PriorOf, RequestOf, SameSnapshot, IInv, CallsOK, ledgerVars
  <2>. QED  BY <1>1, <1>3, <2>1, <2>2, MoveInv DEF Inside, IInv, Shape, TypeOK
<1>. QED  BY <1>2, <1>3

LEMMA ResolveFailsInv == ASSUME IInv, NEW c \in Callers, ResolveFails(c) PROVE IInv'
<1>. USE DEF ResolveFails
<1>1. Beside /\ LedgerStep(c) /\ Head(lock[ask[c].msg]) = c
  BY NoRow, InsideIsAlone DEF Beside, Diagnose, Inside
<1>. QED  BY <1>1, FinishInv DEF Results

\* The reservation's hook throws, or the write fails before a byte left.
LEMMA HookThrowsInv == ASSUME IInv, NEW c \in Callers, HookThrows(c) PROVE IInv'
<1>. USE DEF HookThrows
<1>1. Beside /\ LedgerStep(c) /\ Head(lock[ask[c].msg]) = c
  BY NoRow, InsideIsAlone DEF Beside, ledgerVars, Inside
<1>. QED  BY <1>1, FinishInv DEF Results

LEMMA TransmitFailsInv == ASSUME IInv, NEW c \in Callers, TransmitFails(c) PROVE IInv'
<1>. USE DEF TransmitFails
<1>1. Beside /\ LedgerStep(c) /\ Head(lock[ask[c].msg]) = c
  BY NoRow, InsideIsAlone DEF Beside, ledgerVars, Inside
<1>2. pc'[c] = "broken"
  BY DEF IInv, Shape, TypeOK, Goto
<1>3. CallOK(c)'
  BY <1>2 DEF CallOK, Flying, IInv, CallsOK, ledgerVars
<1>. QED  BY <1>1, <1>3, MoveInv DEF Inside, IInv, Shape, TypeOK
-----------------------------------------------------------------------------
\* A call in flight has its request in the file, under its own content.
LEMMA FlyingIsReserved ==
    ASSUME IInv, NEW c \in Callers, pc[c] \in Flying
    PROVE  LET m == ask[c].msg IN
           /\ mem.request[m] # None /\ mem.request[m].content = ask[c].content
           /\ via[c] = "second" => mem.recovery[m]
           /\ mem.outcome[m][via[c]] = "none"
<1>1. CallOK(c)
  BY DEF IInv, CallsOK
<1>2. [content |-> ask[c].content, to |-> target[c]] \in Request
  BY <1>1, InsideIsAlone DEF CallOK, Request, Flying
<1>. QED  BY <1>1, <1>2, RecordsAreNotNone DEF CallOK

\* The reservation adds one fact, which the memory does not hold yet.
LEMMA ReservationLeaves ==
    ASSUME IInv, NEW c \in Callers, pc[c] = "reserving", ~Reserved(c), Beside,
           Commit(Reservation(c)) \/ CommitFails(Reservation(c))
    PROVE  LedgerStep(c)
<1>. DEFINE m == ask[c].msg
            rows == Reservation(c)
<1>. USE DEF IInv, Shape
<1>1. up /\ up' /\ m \in Messages /\ ask[c].content \in Contents
  BY InsideIsAlone DEF Beside
<1>2. target[c] \in 1..MaxLive /\ via[c] \in Vias
  <2>1. CallOK(c)
    BY DEF CallsOK
  <2>. QED  BY <2>1 DEF CallOK, TypeOK
<1>3. CASE via[c] = "first"
  <2>. DEFINE request == [content |-> ask[c].content, to |-> target[c]]
  <2>1. rows = [mem EXCEPT !.request[m] = request] /\ request \in Request
    BY <1>1, <1>2, <1>3 DEF Reservation, Request
  <2>2. mem.request[m] = None
    BY <1>3 DEF Reserved, PriorOf, RequestOf
  <2>3. request # None
    BY <2>1, RecordsAreNotNone
  <2>4. rows \in Rows
    <3>1. [mem.request EXCEPT ![m] = request] \in [Messages -> Request \cup {None}]
      BY <2>1, <1>1 DEF TypeOK, Rows, Request
    <3>. HIDE DEF request
    <3>. QED  BY <3>1, <2>1 DEF TypeOK, Rows, Request
  <2>5. /\ rows.recovery = mem.recovery /\ rows.outcome = mem.outcome
        /\ rows.evidence = mem.evidence
        /\ \A k \in Messages : mem.request[k] # None => rows.request[k] = mem.request[k]
        /\ \A k \in Messages : rows.request[k] = None => mem.request[k] = None
    BY <2>1, <2>2, <2>3, <1>1 DEF TypeOK, Rows
  <2>6. Extends(mem, rows)
    BY <2>5 DEF Extends
  <2>7. Backed'
    <3>1. disk' = disk \/ (disk' = rows /\ disk = mem)
      BY <1>1, <2>4, <2>6, AppendLeaves
    <3>. HIDE DEF rows
    <3>. QED  BY <3>1, <2>5 DEF Backed, Left, Beside
  <2>8. mem' = mem \/ mem' = rows
    BY <1>1, <2>4, <2>6, AppendLeaves
  <2>. HIDE DEF rows
  <2>. QED  BY <1>1, <2>4, <2>5, <2>6, <2>7, <2>8, AppendLeaves DEF LedgerStep, rows
<1>4. CASE via[c] = "second"
  <2>1. rows = [mem EXCEPT !.recovery[m] = TRUE]
    BY <1>4 DEF Reservation
  <2>4. rows \in Rows
    <3>1. [mem.recovery EXCEPT ![m] = TRUE] \in [Messages -> BOOLEAN]
      BY <1>1 DEF TypeOK, Rows
    <3>. QED  BY <2>1, <3>1 DEF TypeOK, Rows
  <2>5. /\ rows.request = mem.request /\ rows.outcome = mem.outcome
        /\ rows.evidence = mem.evidence
        /\ \A k \in Messages : mem.recovery[k] => rows.recovery[k]
    BY <2>1, <1>1 DEF TypeOK, Rows
  <2>6. Extends(mem, rows)
    BY <2>5 DEF Extends
  <2>7. Backed'
    <3>1. disk' = disk \/ (disk' = rows /\ disk = mem)
      BY <1>1, <2>4, <2>6, AppendLeaves
    <3>. HIDE DEF rows
    <3>. QED  BY <3>1, <2>5 DEF Backed, Left, Beside
  <2>8. mem' = mem \/ mem' = rows
    BY <1>1, <2>4, <2>6, AppendLeaves
  <2>. HIDE DEF rows
  <2>. QED  BY <1>1, <2>4, <2>5, <2>6, <2>7, <2>8, AppendLeaves DEF LedgerStep, rows
<1>. QED  BY <1>2, <1>3, <1>4 DEF Vias

\* The outcome is the first one of its transport, and stands on its reservation.
LEMMA OutcomeLeaves ==
    ASSUME IInv, NEW c \in Callers, pc[c] \in {"sent", "broken"}, Beside,
           NEW result \in {"written", "failed"}, result = "written" => pc[c] = "sent",
           Commit(Outcome(c, result)) \/ CommitFails(Outcome(c, result))
    PROVE  LedgerStep(c)
<1>. DEFINE m == ask[c].msg
            rows == Outcome(c, result)
<1>. USE DEF IInv, Shape
<1>1. up /\ up' /\ m \in Messages /\ via[c] \in Vias
  BY InsideIsAlone DEF Beside, TypeOK
<1>2. /\ mem.request[m] # None /\ (via[c] = "second" => mem.recovery[m])
      /\ mem.outcome[m][via[c]] = "none"
  BY FlyingIsReserved DEF Flying
<1>3. result = "written" => Left(m)
  BY DEF CallsOK, CallOK
<1>4. rows \in Rows
  BY <1>1 DEF Outcome, TypeOK, Rows
<1>5. /\ rows.request = mem.request /\ rows.recovery = mem.recovery
      /\ rows.evidence = mem.evidence
      /\ \A k \in Messages \ {m} : rows.outcome[k] = mem.outcome[k]
      /\ rows.outcome[m][via[c]] = result
      /\ \A v \in Vias \ {via[c]} : rows.outcome[m][v] = mem.outcome[m][v]
  BY <1>1 DEF Outcome, TypeOK, Rows
<1>. HIDE DEF rows
<1>6. Extends(mem, rows)
  BY <1>1, <1>2, <1>5 DEF Extends
<1>7. disk' = disk \/ (disk' = rows /\ disk = mem)
  BY <1>1, <1>4, <1>6, AppendLeaves DEF rows
<1>8. Backed'
  <2>1. CASE disk' = disk
    BY <2>1 DEF Backed, Left, Beside
  <2>2. CASE disk' = rows /\ disk = mem
    <3>. SUFFICES ASSUME NEW k \in Messages
                  PROVE  /\ rows.outcome[k]["first"] # "none" => rows.request[k] # None
                         /\ rows.outcome[k]["second"] # "none" => rows.recovery[k]
                         /\ \A v \in Vias : rows.outcome[k][v] = "written" => Left(k)
                         /\ k \notin linked /\ rows.evidence[k] # {} => Left(k)
      BY <2>2 DEF Backed, Left, Beside
    <3>1. CASE k # m
      BY <2>2, <3>1, <1>5 DEF Backed
    <3>2. CASE k = m
      BY <2>2, <3>2, <1>1, <1>2, <1>3, <1>5 DEF Backed, Vias
    <3>. QED  BY <3>1, <3>2
  <2>. QED  BY <1>7, <2>1, <2>2
<1>9. mem' = mem \/ mem' = rows
  BY <1>1, <1>4, <1>6, AppendLeaves DEF rows
<1>. QED  BY <1>1, <1>4, <1>5, <1>6, <1>8, <1>9, AppendLeaves DEF LedgerStep, rows
-----------------------------------------------------------------------------
\* Reserve: the first of two calls wins, the second repeats or conflicts.
LEMMA ReserveInv == ASSUME IInv, NEW c \in Callers, Reserve(c) PROVE IInv'
<1>. USE DEF Reserve
<1>. DEFINE m == ask[c].msg
<1>1. Beside /\ Head(lock[m]) = c /\ m \in Messages /\ up
  BY InsideIsAlone DEF Beside, Inside
<1>2. CASE Reserved(c)
  <2>. DEFINE result == IF PriorOf(c).content = ask[c].content THEN "replay" ELSE "conflict"
  <2>1. LedgerStep(c) /\ Finish(c, result) /\ result \in Results
    BY <1>1, <1>2, NoRow DEF ledgerVars, Results
  <2>2. mem.request[m] # None
    <3>1. CallOK(c) /\ via[c] \in Vias
      BY DEF IInv, CallsOK, Shape, TypeOK
    <3>. QED  BY <1>2, <3>1 DEF CallOK, Reserved, PriorOf, RequestOf, Vias
  <2>3. disk'.request[m] = mem.request[m]
    BY <1>1, <1>2, <2>2 DEF ledgerVars, IInv, Shape, MemOK, Extends
  <2>4. result # "written" /\ result # "uncertain"
    OBVIOUS
  <2>5. result = "replay" => mem.request[m].content = ask[c].content
    BY DEF PriorOf, RequestOf
  <2>. HIDE DEF result
  <2>. QED  BY <1>1, <2>1, <2>2, <2>3, <2>4, <2>5, FinishInv
<1>3. CASE ~Reserved(c)
  <2>1. /\ Commit(Reservation(c)) /\ Goto(c, "reserved")
        /\ UNCHANGED <<lock, ask, via, target, answer>>
    BY <1>3
  <2>2. LedgerStep(c)
    BY <1>1, <1>3, <2>1, ReservationLeaves
  <2>3. /\ pc'[c] = "reserved" /\ via[c] \in Vias /\ target[c] \in 1..MaxLive
        /\ via[c] = "second" => mem.request[m] # None /\ mem.request[m].to = target[c]
                                /\ mem.request[m].content = ask[c].content
    <3>1. CallOK(c) /\ via[c] \in Vias /\ pc'[c] = "reserved"
      BY <2>1 DEF IInv, CallsOK, Shape, TypeOK, Goto
    <3>. QED  BY <3>1 DEF CallOK
  <2>4. mem = disk /\ mem' = Reservation(c)
    BY <1>1, <2>1 DEF IInv, Shape, MemOK, Commit
  <2>5. mem \in Rows /\ wire' = wire /\ \A i \in 1..Len(wire) : wire[i] \in Frames
    BY <1>1 DEF IInv, Shape, TypeOK, CallTypes, Beside
  <2>6. /\ mem'.request[m] = [content |-> ask[c].content, to |-> target[c]]
        /\ via[c] = "second" => mem'.recovery[m]
        /\ mem'.outcome[m][via[c]] = "none"
        /\ \A i \in 1..Len(wire) : wire[i].msg # m \/ wire[i].via # via[c]
    <3>1. CASE via[c] = "first"
      <4>1. mem.request[m] = None
        BY <1>3, <3>1 DEF Reserved, PriorOf, RequestOf
      <4>2. mem.outcome[m]["first"] = "none"
        BY <4>1, <2>4, <1>1 DEF IInv, Backed
      <4>3. \A i \in 1..Len(wire) : wire[i].msg # m
        <5>. SUFFICES ASSUME NEW i \in 1..Len(wire), wire[i].msg = m PROVE FALSE
          OBVIOUS
        <5>1. mem.request[m] = [content |-> wire[i].content, to |-> wire[i].to]
          BY <2>4 DEF IInv, FrameIsReserved
        <5>2. [content |-> wire[i].content, to |-> wire[i].to] \in Request
          BY <2>5 DEF Frames, Request
        <5>. QED  BY <4>1, <5>1, <5>2, RecordsAreNotNone
      <4>4. mem' = [mem EXCEPT !.request[m] = [content |-> ask[c].content, to |-> target[c]]]
        BY <2>4, <3>1 DEF Reservation
      <4>. QED  BY <3>1, <4>2, <4>3, <4>4, <2>5, <1>1 DEF Rows
    <3>2. CASE via[c] = "second"
      <4>1. ~mem.recovery[m]
        BY <1>3, <3>2 DEF Reserved
      <4>2. mem.outcome[m]["second"] = "none"
        BY <4>1, <2>4, <1>1 DEF IInv, Backed
      <4>3. \A i \in 1..Len(wire) : wire[i].msg # m \/ wire[i].via # "second"
        BY <4>1, <2>4 DEF IInv, FrameIsReserved
      <4>4. mem' = [mem EXCEPT !.recovery[m] = TRUE]
        BY <2>4, <3>2 DEF Reservation
      <4>5. mem'.request = mem.request /\ mem'.outcome = mem.outcome /\ mem'.recovery[m]
        BY <4>4, <2>5, <1>1 DEF Rows
      <4>6. mem.request[m] \in Request
        BY <2>3, <2>5, <1>1, <3>2 DEF Rows, Request
      <4>7. mem.request[m] = [content |-> ask[c].content, to |-> target[c]]
        BY <2>3, <4>6, <3>2 DEF Request
      <4>. QED  BY <3>2, <4>2, <4>3, <4>5, <4>7
    <3>. QED  BY <2>3, <3>1, <3>2 DEF Vias
  <2>7. CallOK(c)'
    BY <2>1, <2>3, <2>5, <2>6 DEF CallOK
  <2>. QED  BY <1>1, <2>1, <2>2, <2>7, MoveInv DEF Inside, IInv, Shape, TypeOK
<1>. QED  BY <1>2, <1>3

LEMMA ReserveFailsInv == ASSUME IInv, NEW c \in Callers, ReserveFails(c) PROVE IInv'
<1>. USE DEF ReserveFails
<1>1. Beside /\ Head(lock[ask[c].msg]) = c /\ up
  BY InsideIsAlone DEF Beside, Inside
<1>2. CASE poisoned
  <2>1. UNCHANGED <<mem, disk>> /\ poisoned' \in {poisoned, TRUE}
    BY <1>2 DEF CommitFails
  <2>. QED  BY <1>1, <2>1, NoRow, FinishInv DEF Results
<1>3. CASE ~Reserved(c)
  BY <1>1, <1>3, ReservationLeaves, FinishInv DEF Results
<1>. QED  BY <1>2, <1>3

\* The outcome is appended, and what the caller is told of it is in the file.
LEMMA RecordSentInv == ASSUME IInv, NEW c \in Callers, RecordSent(c) PROVE IInv'
<1>. USE DEF RecordSent
<1>. DEFINE m == ask[c].msg
<1>1. Beside /\ Head(lock[m]) = c /\ m \in Messages /\ via[c] \in Vias
  BY InsideIsAlone DEF Beside, Inside, IInv, Shape, TypeOK
<1>2. LedgerStep(c)
  BY <1>1, OutcomeLeaves
<1>3. /\ mem.request[m] # None /\ mem.request[m].content = ask[c].content
      /\ disk' = Outcome(c, "written") /\ mem \in Rows
  BY FlyingIsReserved DEF Flying, Commit, IInv, Shape, TypeOK
<1>4. disk'.request[m] = mem.request[m] /\ disk'.outcome[m][via[c]] = "written"
  BY <1>1, <1>3 DEF Outcome, Rows
<1>. QED  BY <1>1, <1>2, <1>3, <1>4, FinishInv DEF Results

LEMMA RecordSentFailsInv == ASSUME IInv, NEW c \in Callers, RecordSentFails(c) PROVE IInv'
<1>. USE DEF RecordSentFails
<1>1. Beside /\ Head(lock[ask[c].msg]) = c
  BY InsideIsAlone DEF Beside, Inside
<1>2. LedgerStep(c)
  BY <1>1, OutcomeLeaves
<1>3. pc'[c] = "broken" /\ mem' = mem
  BY DEF IInv, Shape, TypeOK, Goto, CommitFails
<1>4. CallOK(c)'
  BY <1>3 DEF CallOK, Flying, IInv, CallsOK
<1>. QED  BY <1>1, <1>2, <1>4, MoveInv DEF Inside, IInv, Shape, TypeOK

LEMMA RecordBrokenInv == ASSUME IInv, NEW c \in Callers, RecordBroken(c) PROVE IInv'
<1>. USE DEF RecordBroken
<1>. DEFINE m == ask[c].msg
<1>1. Beside /\ Head(lock[m]) = c /\ m \in Messages /\ via[c] \in Vias
  BY InsideIsAlone DEF Beside, Inside, IInv, Shape, TypeOK
<1>2. LedgerStep(c)
  BY <1>1, OutcomeLeaves
<1>3. /\ mem.request[m] # None /\ mem.request[m].content = ask[c].content
      /\ disk' = Outcome(c, "failed") /\ mem \in Rows
  BY FlyingIsReserved DEF Flying, Commit, IInv, Shape, TypeOK
<1>4. disk'.request[m] = mem.request[m]
  BY <1>1, <1>3 DEF Outcome, Rows
<1>. QED  BY <1>1, <1>2, <1>3, <1>4, FinishInv DEF Results

LEMMA RecordBrokenFailsInv == ASSUME IInv, NEW c \in Callers, RecordBrokenFails(c) PROVE IInv'
<1>. USE DEF RecordBrokenFails
<1>1. Beside /\ Head(lock[ask[c].msg]) = c
  BY InsideIsAlone DEF Beside, Inside
<1>2. LedgerStep(c)
  BY <1>1, OutcomeLeaves
<1>. QED  BY <1>1, <1>2, FinishInv DEF Results

\* The write: its frame is the first one of its transport and goes to the
\* process that the reservation names.
LEMMA TransmitInv == ASSUME IInv, NEW c \in Callers, Transmit(c) PROVE IInv'
<1>. USE DEF Transmit, IInv, Shape
<1>. DEFINE m == ask[c].msg
            n == Len(wire)
<1>1. /\ m \in Messages /\ ask[c].content \in Contents /\ up
      /\ \A d \in Callers \ {c} : pc[d] \in Inside => ask[d].msg # m
  BY InsideIsAlone DEF Inside
<1>2. PICK place \in {"sent", "broken"} : Goto(c, place)
  OBVIOUS
<1>3. /\ pc' \in [Callers -> {"idle", "queued", "resolving", "reserving", "reserved",
                              "sent", "broken"}]
      /\ pc'[c] = place /\ \A d \in Callers \ {c} : pc'[d] = pc[d]
  BY <1>2 DEF TypeOK, Goto
<1>4. Frame(c) \in Frames
  BY <1>1 DEF Frame, Frames, TypeOK
<1>5. /\ wire' \in Seq(Frames) /\ n \in Nat /\ Len(wire') = n + 1 /\ wire'[n + 1] = Frame(c)
      /\ \A i \in 1..n : wire'[i] = wire[i]
  BY <1>4, AppendProperties DEF CallTypes
<1>6. \A k \in Messages : Left(k) => Left(k)'
  BY <1>5 DEF Left
<1>7. CallOK(c)
  BY DEF CallsOK
<1>8. TypeOK'
  <2>1. \A d \in Callers : (ask'[d] = None) = (pc'[d] = "idle")
    BY <1>3 DEF TypeOK
  <2>. QED  BY <2>1, <1>3 DEF TypeOK, ledgerVars, countVars
<1>9. CallTypes'
  BY <1>5 DEF CallTypes
<1>10. LockOK'
  BY <1>3 DEF LockOK, Inside
<1>11. MemOK'
  BY <1>1 DEF MemOK, ledgerVars, Extends
<1>12. Backed'
  BY <1>6 DEF Backed, ledgerVars
<1>13. CallsOK'
  <2>1. CallOK(c)'
    <3>1. Left(m)'
      BY <1>5 DEF Left, Frame
    <3>. QED  BY <1>3, <1>7, <3>1 DEF CallOK, Flying, ledgerVars
  <2>2. ASSUME NEW d \in Callers \ {c} PROVE CallOK(d)'
    <3>1. CallOK(d) /\ pc'[d] = pc[d]
      BY <1>3 DEF CallsOK
    <3>2. pc[d] = "sent" => Left(ask[d].msg)'
      <4>. SUFFICES ASSUME pc[d] = "sent" PROVE Left(ask[d].msg)'
        OBVIOUS
      <4>1. ask[d].msg \in Messages
        BY InsideIsAlone
      <4>. QED  BY <4>1, <3>1, <1>6 DEF CallOK
    <3>3. pc[d] = "reserved" => ask[d].msg # m
      BY <1>1 DEF Inside
    <3>4. pc[d] = "reserved" =>
            \A i \in 1..(n + 1) : wire'[i].msg # ask[d].msg \/ wire'[i].via # via[d]
      BY <3>1, <3>3, <1>5 DEF CallOK, Frame
    <3>. QED  BY <3>1, <3>2, <3>4, <1>5 DEF CallOK, ledgerVars
  <2>. QED  BY <2>1, <2>2 DEF CallsOK
<1>14. AtMostOncePerTransport'
  <2>. SUFFICES ASSUME NEW i \in 1..(n + 1), NEW j \in 1..(n + 1), i # j
                PROVE  <<wire'[i].msg, wire'[i].via>> # <<wire'[j].msg, wire'[j].via>>
    BY <1>5 DEF AtMostOncePerTransport
  <2>1. CASE i \in 1..n /\ j \in 1..n
    BY <2>1, <1>5 DEF AtMostOncePerTransport
  <2>2. CASE i = n + 1 /\ j \in 1..n
    BY <2>2, <1>5, <1>7 DEF CallOK, Frame
  <2>3. CASE j = n + 1 /\ i \in 1..n
    BY <2>3, <1>5, <1>7 DEF CallOK, Frame
  <2>. QED  BY <2>1, <2>2, <2>3, <1>5
<1>15. FrameIsReserved'
  <2>. SUFFICES ASSUME NEW i \in 1..(n + 1)
                PROVE  /\ disk.request[wire'[i].msg]
                            = [content |-> wire'[i].content, to |-> wire'[i].to]
                       /\ wire'[i].via = "second" => disk.recovery[wire'[i].msg]
    BY <1>5 DEF FrameIsReserved, ledgerVars
  <2>1. CASE i \in 1..n
    BY <2>1, <1>5 DEF FrameIsReserved
  <2>2. CASE i = n + 1
    <3>1. /\ mem.request[m] = [content |-> ask[c].content, to |-> live]
          /\ via[c] = "second" => mem.recovery[m]
      BY <1>7 DEF CallOK, Flying, Reverified
    <3>2. mem.request[m] # None
      BY FlyingIsReserved DEF Flying
    <3>. QED  BY <2>2, <1>1, <1>5, <3>1, <3>2 DEF Frame, MemOK, Extends
  <2>. QED  BY <2>1, <2>2, <1>5
<1>16. AnswersAgree' /\ NoLostWakeup'
  BY DEF AnswersAgree, NoLostWakeup, Satisfies, ledgerVars
<1>. QED  BY <1>8, <1>9, <1>10, <1>11, <1>12, <1>13, <1>14, <1>15, <1>16

LEMMA SendStepInv == ASSUME IInv, NEW c \in Callers, SendStep(c) PROVE IInv'
BY EnterNewInv, EnterConflictInv, EnterReplayInv, EnterRecoveryInv, ResolveInv,
   ResolveFailsInv, ReserveInv, ReserveFailsInv, HookThrowsInv, TransmitInv,
   TransmitFailsInv, RecordSentInv, RecordSentFailsInv, RecordBrokenInv,
   RecordBrokenFailsInv DEF SendStep
-----------------------------------------------------------------------------
\* send(): the call goes behind the others, whose head stays where it is.
LEMMA CallInv ==
    ASSUME IInv, NEW c \in Callers, NEW k \in Messages, NEW request \in Requests,
           Call(c, k, request)
    PROVE  IInv'
<1>. USE DEF Call, IInv, Shape
<1>. DEFINE args == [msg |-> k, content |-> request.content, recovery |-> request.recovery,
                     privileged |-> request.privileged, expect |-> request.expect]
<1>1. args \in Asked /\ args # None
  <2>1. args \in Asked
    BY SendAssumption DEF Asked
  <2>. QED  BY <2>1, RecordsAreNotNone
<1>. HIDE DEF args
<1>2. /\ lock' = [lock EXCEPT ![k] = Append(lock[k], c)] /\ ask' = [ask EXCEPT ![c] = args]
      /\ pc' = [pc EXCEPT ![c] = "queued"] /\ answer' = [answer EXCEPT ![c] = None]
  BY DEF args, TypeOK
<1>3. /\ pc'[c] = "queued" /\ ask'[c] = args /\ answer'[c] = None
      /\ \A d \in Callers \ {c} : pc'[d] = pc[d] /\ ask'[d] = ask[d] /\ answer'[d] = answer[d]
  BY <1>2 DEF TypeOK, CallTypes
<1>4. /\ lock[k] \in Seq(Callers) /\ Append(lock[k], c) \in Seq(Callers)
      /\ Len(lock[k]) \in Nat /\ Len(Append(lock[k], c)) = Len(lock[k]) + 1
      /\ Append(lock[k], c)[Len(lock[k]) + 1] = c
      /\ \A i \in 1..Len(lock[k]) : Append(lock[k], c)[i] = lock[k][i]
  BY AppendProperties DEF TypeOK
<1>5. up /\ up' /\ args.msg = k
  BY DEF args
<1>6. TypeOK'
  <2>1. lock' \in [Messages -> Seq(Callers)]
    BY <1>2, <1>4 DEF TypeOK
  <2>2. \A d \in Callers : (ask'[d] = None) = (pc'[d] = "idle")
    BY <1>1, <1>3 DEF TypeOK
  <2>3. pc' \in [Callers -> {"idle", "queued", "resolving", "reserving", "reserved",
                             "sent", "broken"}]
    BY <1>2 DEF TypeOK
  <2>4. calls' \in 0..MaxCalls
    BY SendAssumption DEF TypeOK
  <2>. QED  BY <2>1, <2>2, <2>3, <2>4 DEF TypeOK, ledgerVars
<1>7. CallTypes'
  <2>1. ask' \in [Callers -> Asked \cup {None}]
    BY <1>1, <1>2 DEF CallTypes
  <2>2. answer' \in [Callers -> Answers \cup {None}]
    BY <1>2 DEF CallTypes
  <2>. QED  BY <2>1, <2>2 DEF CallTypes
<1>8. LockOK'
  <2>. SUFFICES ASSUME NEW d \in Callers, pc'[d] # "idle"
                PROVE  /\ \E i \in 1..Len(lock'[ask'[d].msg]) : lock'[ask'[d].msg][i] = d
                       /\ pc'[d] \in Inside => Head(lock'[ask'[d].msg]) = d
    BY DEF LockOK
  <2>1. CASE d = c
    <3>1. lock'[ask'[d].msg] = Append(lock[k], c)
      BY <2>1, <1>2, <1>3, <1>5 DEF TypeOK
    <3>. QED  BY <3>1, <2>1, <1>3, <1>4 DEF Inside
  <2>2. CASE d # c
    <3>1. pc'[d] = pc[d] /\ ask'[d] = ask[d] /\ ask[d].msg \in Messages
      BY <2>2, <1>3, InsideIsAlone
    <3>2. /\ \E i \in 1..Len(lock[ask[d].msg]) : lock[ask[d].msg][i] = d
          /\ pc[d] \in Inside => Head(lock[ask[d].msg]) = d
      BY <3>1 DEF LockOK
    <3>3. CASE ask[d].msg # k
      <4>1. lock'[ask[d].msg] = lock[ask[d].msg]
        BY <3>1, <3>3, <1>2 DEF TypeOK
      <4>. QED  BY <3>1, <3>2, <4>1
    <3>4. CASE ask[d].msg = k
      <4>1. lock'[ask[d].msg] = Append(lock[k], c)
        BY <3>1, <3>4, <1>2 DEF TypeOK
      <4>2. Head(Append(lock[k], c)) = Head(lock[k])
        BY <3>2, <3>4, <1>4, HeadTailProperties
      <4>3. \E i \in 1..Len(Append(lock[k], c)) : Append(lock[k], c)[i] = d
        <5>1. PICK i \in 1..Len(lock[k]) : lock[k][i] = d
          BY <3>2, <3>4
        <5>2. i \in 1..(Len(lock[k]) + 1)
          BY <5>1, <1>4
        <5>. QED  BY <5>1, <5>2, <1>4
      <4>. QED  BY <3>1, <3>2, <3>4, <4>1, <4>2, <4>3
    <3>. QED  BY <3>3, <3>4
  <2>. QED  BY <2>1, <2>2
<1>9. MemOK' /\ Backed'
  BY <1>5 DEF MemOK, Backed, Left, Extends, ledgerVars
<1>10. CallsOK'
  <2>1. CallOK(c)'
    BY <1>3 DEF CallsOK, CallOK, Flying
  <2>2. \A d \in Callers \ {c} : CallOK(d)'
    BY <1>3 DEF CallsOK, CallOK, Left, ledgerVars
  <2>. QED  BY <2>1, <2>2 DEF CallsOK
<1>11. AtMostOncePerTransport' /\ FrameIsReserved'
  BY DEF AtMostOncePerTransport, FrameIsReserved, ledgerVars
<1>12. AnswersAgree' /\ NoLostWakeup'
  BY <1>3 DEF AnswersAgree, NoLostWakeup, Satisfies, ledgerVars
<1>. QED  BY <1>6, <1>7, <1>8, <1>9, <1>10, <1>11, <1>12

\* A step beside the calls keeps the invariant if the ledger it leaves is
\* backed and no waiter sleeps on it.
LEMMA OutsideInv ==
    ASSUME IInv, UNCHANGED <<up, callVars, wire>>,
           mem' \in Rows, disk' \in Rows, poisoned' \in BOOLEAN, linked' \subseteq Messages,
           waiting' \in [Waiters -> Waits \cup {None}], live' \in 1..MaxLive,
           calls' \in 0..MaxCalls, crashes' \in 0..MaxCrashes,
           Extends(mem, mem'), Extends(disk, disk'),
           \A m \in Messages : mem'.outcome[m] = mem.outcome[m],
           MemOK', Backed', NoLostWakeup'
    PROVE  IInv'
<1>. USE DEF IInv, Shape, callVars
<1>1. TypeOK' /\ CallTypes' /\ LockOK'
  BY DEF TypeOK, CallTypes, LockOK
<1>2. CallsOK'
  <2>. SUFFICES ASSUME NEW d \in Callers PROVE CallOK(d)'
    BY DEF CallsOK
  <2>1. CallOK(d)
    BY DEF CallsOK
  <2>2. CASE pc[d] \notin Inside
    BY <2>1, <2>2 DEF CallOK, Inside, Flying
  <2>3. CASE pc[d] \in Inside
    <3>1. ask[d].msg \in Messages /\ Left(ask[d].msg)' = Left(ask[d].msg)
      BY <2>3, InsideIsAlone DEF Inside, Left
    <3>2. pc[d] \in Flying => mem.request[ask[d].msg] # None
      BY FlyingIsReserved
    <3>. QED  BY <2>1, <3>1, <3>2 DEF CallOK, Extends
  <2>. QED  BY <2>2, <2>3
<1>. QED  BY <1>1, <1>2, GrowthKeeps

\* Steps that leave the ledger, the calls and the waiters as they are, but
\* for a report whose failure poisons the store.
LEMMA ReportInv ==
    ASSUME IInv, UNCHANGED <<up, callVars, waiting, linked, wire, countVars>>,
           UNCHANGED <<mem, disk>>, live' \in 1..MaxLive,
           poisoned' \in {poisoned, TRUE}
    PROVE  IInv'
<1>. USE DEF IInv, Shape, callVars, countVars
<1>1. MemOK'
  <2>1. Extends(mem, disk)'
    BY DEF MemOK, Extends
  <2>2. up' /\ ~poisoned' => mem' = disk'
    BY DEF MemOK, TypeOK
  <2>3. ~up' => (\A c \in Callers : pc'[c] = "idle") /\ (\A w \in Waiters : waiting'[w] = None)
    BY Zenon DEF MemOK
  <2>. QED  BY <2>1, <2>2, <2>3 DEF MemOK
<1>2. Backed' /\ NoLostWakeup'
  BY DEF Backed, Left, NoLostWakeup, Satisfies
<1>3. Extends(mem, mem') /\ Extends(disk, disk')
  BY DEF Extends
<1>. QED  BY <1>1, <1>2, <1>3, OutsideInv DEF TypeOK

LEMMA RefusalsInv ==
    ASSUME IInv,
           \/ \E m \in Messages, writer \in 0..MaxLive : RefuseFrame(m, writer)
           \/ Unmatched \/ HoldBound \/ PeerStatus
    PROVE  IInv'
<1>1. UNCHANGED <<up, callVars, waiting, linked, live, wire, countVars>> /\ Report
  BY DEF RefuseFrame, Unmatched, HoldBound, PeerStatus
<1>. QED  BY <1>1, ReportInv DEF Report, Diagnose, IInv, Shape, TypeOK

LEMMA ReplaceInv == ASSUME IInv, Replace PROVE IInv'
<1>1. live' \in 1..MaxLive
  BY SendAssumption DEF Replace, IInv, Shape, TypeOK
<1>. QED  BY <1>1, ReportInv DEF Replace, ledgerVars, IInv, Shape, TypeOK

\* A frame of the target is evidence about bytes it got; its row wakes the
\* waiters that asked for it.
LEMMA AcceptFrameInv ==
    ASSUME IInv, NEW m \in Messages, NEW kind \in FrameKinds, NEW writer \in 0..MaxLive,
           AcceptFrame(m, kind, writer)
    PROVE  IInv'
<1>. USE DEF AcceptFrame, IInv, Shape, countVars
<1>. DEFINE rows == [mem EXCEPT !.evidence[m] = @ \cup {Recorded(kind)}]
<1>1. \/ Commit(rows) /\ Wake(rows)
      \/ CommitFails(rows) /\ UNCHANGED waiting
  OBVIOUS
<1>2. Recorded(kind) \in Evidence
  BY SendAssumption DEF Recorded, Evidence, Statuses
<1>3. rows \in Rows
  BY <1>2 DEF TypeOK, Rows
<1>4. /\ rows.request = mem.request /\ rows.recovery = mem.recovery
      /\ rows.outcome = mem.outcome
      /\ \A k \in Messages \ {m} : rows.evidence[k] = mem.evidence[k]
      /\ rows.evidence[m] = mem.evidence[m] \cup {Recorded(kind)}
  BY DEF TypeOK, Rows
<1>5. Left(m)
  <2>1. mem.request[m] # None /\ mem.request[m].to = writer
    BY DEF AssertPeer, Correlated, RequestOf
  <2>2. writer \in 1..MaxLive
    BY <2>1 DEF TypeOK, Rows
  <2>. QED  BY <2>2, SendAssumption DEF Writers, Any, Left
<1>. HIDE DEF rows
<1>6. Extends(mem, rows)
  BY <1>4 DEF Extends
<1>7. /\ mem' \in Rows /\ disk' \in Rows /\ poisoned' \in BOOLEAN
      /\ MemOK' /\ Extends(mem, mem') /\ Extends(disk, disk')
      /\ disk' = disk \/ (disk' = rows /\ disk = mem)
      /\ mem' = mem \/ (mem' = rows /\ disk' = rows)
  BY <1>1, <1>3, <1>6, AppendLeaves
<1>8. Backed'
  BY <1>4, <1>5, <1>7 DEF Backed, Left
<1>9. waiting' \in [Waiters -> Waits \cup {None}]
  BY <1>1 DEF Wake, TypeOK
<1>10. NoLostWakeup'
  <2>1. CASE Commit(rows) /\ Wake(rows)
    <3>1. \A w \in Waiters : waiting'[w] # None => ~Satisfies(rows, waiting'[w])
      BY <2>1 DEF Wake
    <3>. QED  BY <2>1, <3>1 DEF NoLostWakeup, Commit
  <2>2. CASE CommitFails(rows) /\ UNCHANGED waiting
    BY <2>2, NoEvidenceNoWake DEF CommitFails
  <2>. QED  BY <1>1, <2>1, <2>2
<1>. QED  BY <1>4, <1>7, <1>8, <1>9, <1>10, OutsideInv DEF TypeOK

\* A row that an operator linked may stand on nothing and wakes nobody: the
\* message is counted as linked from then on.
LEMMA LinkUnmatchedInv == ASSUME IInv, NEW m \in Messages, LinkUnmatched(m) PROVE IInv'
<1>. USE DEF LinkUnmatched, IInv, Shape, countVars
<1>. DEFINE rows == [mem EXCEPT !.evidence[m] = @ \cup {"reply"}]
<1>1. Commit(rows) \/ CommitFails(rows)
  OBVIOUS
<1>2. rows \in Rows
  BY DEF TypeOK, Rows, Evidence
<1>3. /\ rows.request = mem.request /\ rows.recovery = mem.recovery
      /\ rows.outcome = mem.outcome
      /\ \A k \in Messages \ {m} : rows.evidence[k] = mem.evidence[k]
      /\ rows.evidence[m] = mem.evidence[m] \cup {"reply"}
  BY DEF TypeOK, Rows
<1>. HIDE DEF rows
<1>4. Extends(mem, rows)
  BY <1>3 DEF Extends
<1>5. /\ mem' \in Rows /\ disk' \in Rows /\ poisoned' \in BOOLEAN
      /\ MemOK' /\ Extends(mem, mem') /\ Extends(disk, disk')
      /\ disk' = disk \/ (disk' = rows /\ disk = mem)
      /\ mem' = mem \/ (mem' = rows /\ disk' = rows)
  BY <1>1, <1>2, <1>4, AppendLeaves
<1>6. linked' \subseteq Messages /\ linked \subseteq linked' /\ (disk' # disk => m \in linked')
  BY DEF TypeOK
<1>7. Backed'
  BY <1>3, <1>5, <1>6 DEF Backed, Left
<1>8. NoLostWakeup'
  <2>1. mem' # mem => m \in linked'
    BY <1>1, <1>5, <1>6 DEF Commit, CommitFails, MemOK
  <2>2. \A w \in Waiters : waiting[w] # None => waiting[w].msg \in Messages
    BY DEF TypeOK, Waits
  <2>3. \A k \in Messages \ linked' : mem'.evidence[k] = mem.evidence[k]
    BY <1>3, <1>5, <2>1
  <2>. QED  BY <1>6, <2>2, <2>3 DEF NoLostWakeup, Satisfies
<1>. QED  BY <1>3, <1>5, <1>6, <1>7, <1>8, OutsideInv DEF TypeOK

\* wait(): nothing it asks for is there when its listener is set.
LEMMA WaitInv ==
    ASSUME IInv, NEW w \in Waiters, NEW m \in Messages, NEW r \in Requires,
           Wait(w, [msg |-> m, require |-> r])
    PROVE  IInv'
<1>. USE DEF IInv, Shape
<1>. DEFINE want == [msg |-> m, require |-> r]
<1>1. want \in Waits
  BY DEF Waits
<1>. HIDE DEF want
<1>2. /\ waiting' = [waiting EXCEPT ![w] = IF Satisfies(mem, want) THEN None ELSE want]
      /\ up /\ calls < MaxCalls /\ calls' = calls + 1
      /\ UNCHANGED <<up, ledgerVars, callVars, linked, live, wire, crashes>>
  BY DEF Wait, want
<1>3. waiting' \in [Waiters -> Waits \cup {None}]
  BY <1>1, <1>2 DEF TypeOK
<1>4. calls' \in 0..MaxCalls
  BY <1>2, SendAssumption DEF TypeOK
<1>5. MemOK' /\ Backed'
  BY <1>2 DEF MemOK, Backed, Left, Extends, ledgerVars
<1>6. NoLostWakeup'
  <2>1. /\ waiting'[w] # None => ~Satisfies(mem, waiting'[w])
        /\ \A v \in Waiters \ {w} : waiting'[v] = waiting[v]
    BY <1>2 DEF TypeOK
  <2>. QED  BY <1>2, <2>1 DEF NoLostWakeup, ledgerVars
<1>7. Extends(mem, mem') /\ Extends(disk, disk')
  BY <1>2 DEF Extends, ledgerVars
<1>. QED  BY <1>2, <1>3, <1>4, <1>5, <1>6, <1>7, OutsideInv DEF TypeOK, ledgerVars

LEMMA ExpireInv == ASSUME IInv, NEW w \in Waiters, Expire(w) PROVE IInv'
<1>. USE DEF IInv, Shape, Expire, Diagnose, countVars
<1>1. /\ waiting' \in [Waiters -> Waits \cup {None}]
      /\ \A v \in Waiters : waiting'[v] # None => waiting'[v] = waiting[v]
  BY DEF TypeOK
<1>2. up
  BY Zenon DEF MemOK
<1>3. MemOK'
  <2>1. Extends(mem, disk)'
    BY DEF MemOK, Extends
  <2>2. up' /\ ~poisoned' => mem' = disk'
    <3>1. ~poisoned' => ~poisoned
      OBVIOUS
    <3>. QED  BY <3>1 DEF MemOK
  <2>. QED  BY <1>2, <2>1, <2>2 DEF MemOK
<1>4. Backed' /\ NoLostWakeup'
  BY SMTT(60), <1>1 DEF Backed, Left, NoLostWakeup, Satisfies
<1>5. Extends(mem, mem') /\ Extends(disk, disk')
  BY DEF Extends
<1>. QED  BY <1>1, <1>3, <1>4, <1>5, OutsideInv DEF TypeOK

\* A crash takes the calls and the waits; a start reads the file back.
LEMMA CrashInv == ASSUME IInv, Crash PROVE IInv'
<1>. USE DEF IInv, Shape, Crash
<1>1. TypeOK' /\ CallTypes'
  <2>1. <<>> \in Seq(Callers)
    OBVIOUS
  <2>2. crashes' \in 0..MaxCrashes
    BY SendAssumption DEF TypeOK
  <2>3. \A c \in Callers : (ask'[c] = None) = (pc'[c] = "idle")
    OBVIOUS
  <2>4. /\ ask' \in [Callers -> Asked \cup {None}] /\ via' \in [Callers -> Vias]
        /\ target' \in [Callers -> 0..MaxLive] /\ waiting' \in [Waiters -> Waits \cup {None}]
    BY SendAssumption DEF Any, Vias
  <2>5. TypeOK'
    BY <2>1, <2>2, <2>3, <2>4 DEF TypeOK
  <2>. QED  BY <2>4, <2>5 DEF CallTypes
<1>2. LockOK'
  BY DEF LockOK
<1>3. MemOK' /\ Backed'
  BY DEF MemOK, Extends, Backed, Left
<1>4. CallsOK'
  BY DEF CallsOK, CallOK, Flying
<1>5. Extends(disk, disk')
  BY DEF Extends
<1>6. NoLostWakeup'
  BY DEF NoLostWakeup
<1>. QED  BY <1>1, <1>2, <1>3, <1>4, <1>5, <1>6, GrowthKeeps

LEMMA RestartInv == ASSUME IInv, Restart PROVE IInv'
<1>. USE DEF IInv, Shape, Restart, callVars, countVars
<1>1. (\A c \in Callers : pc[c] = "idle") /\ (\A w \in Waiters : waiting[w] = None)
  BY Zenon DEF MemOK
<1>2. TypeOK' /\ CallTypes' /\ LockOK'
  BY DEF TypeOK, CallTypes, LockOK
<1>3. MemOK' /\ Backed' /\ Extends(disk, disk')
  BY DEF MemOK, Extends, Backed, Left
<1>4. CallsOK' /\ NoLostWakeup'
  BY <1>1 DEF CallsOK, CallOK, Flying, NoLostWakeup
<1>. QED  BY <1>2, <1>3, <1>4, GrowthKeeps

LEMMA InitInv == Init => IInv
<1>. SUFFICES ASSUME Init PROVE IInv
  OBVIOUS
<1>. USE DEF Init
<1>1. NoRows \in Rows
  BY DEF NoRows, Rows, Vias
<1>2. TypeOK /\ CallTypes
  <2>1. <<>> \in Seq(Callers) /\ <<>> \in Seq(Frames)
    OBVIOUS
  <2>2. /\ ask \in [Callers -> Asked \cup {None}] /\ answer \in [Callers -> Answers \cup {None}]
        /\ via \in [Callers -> Vias] /\ target \in [Callers -> 0..MaxLive]
        /\ waiting \in [Waiters -> Waits \cup {None}]
    BY SendAssumption DEF Any, Vias
  <2>3. \A c \in Callers : (ask[c] = None) = (pc[c] = "idle")
    OBVIOUS
  <2>4. live \in 1..MaxLive /\ calls \in 0..MaxCalls /\ crashes \in 0..MaxCrashes
    BY SendAssumption
  <2>5. TypeOK
    BY <1>1, <2>1, <2>2, <2>3, <2>4 DEF TypeOK
  <2>. QED  BY <2>1, <2>2, <2>5 DEF CallTypes
<1>3. LockOK /\ MemOK
  BY DEF LockOK, MemOK, Extends
<1>4. Backed
  BY DEF Backed, NoRows, Vias
<1>5. CallsOK
  BY DEF CallsOK, CallOK, Flying
<1>6. Len(wire) = 0
  OBVIOUS
<1>7. AtMostOncePerTransport /\ FrameIsReserved /\ AnswersAgree /\ NoLostWakeup
  BY <1>6 DEF AtMostOncePerTransport, FrameIsReserved, AnswersAgree, NoLostWakeup
<1>. QED  BY <1>2, <1>3, <1>4, <1>5, <1>7 DEF IInv, Shape
-----------------------------------------------------------------------------
LEMMA NextInv == ASSUME IInv, [Next]_vars PROVE IInv'
<1>1. CASE Next
  <2>1. \A c \in Callers : SendStep(c) => IInv'
    BY SendStepInv
  <2>2. \A c \in Callers, m \in Messages, request \in Requests : Call(c, m, request) => IInv'
    BY CallInv
  <2>3. \A m \in Messages, kind \in FrameKinds, writer \in 0..MaxLive :
          AcceptFrame(m, kind, writer) => IInv'
    BY AcceptFrameInv
  <2>4. \A m \in Messages : LinkUnmatched(m) => IInv'
    BY LinkUnmatchedInv
  <2>5. \A w \in Waiters, m \in Messages, r \in Requires :
          Wait(w, [msg |-> m, require |-> r]) => IInv'
    BY WaitInv
  <2>6. \A w \in Waiters : Expire(w) => IInv'
    BY ExpireInv
  <2>. QED
    BY <1>1, <2>1, <2>2, <2>3, <2>4, <2>5, <2>6, RefusalsInv, ReplaceInv, CrashInv,
       RestartInv DEF Next
<1>2. CASE UNCHANGED vars
  <2>. USE <1>2 DEF vars, IInv, Shape, ledgerVars, callVars, countVars
  <2>1. Extends(mem, mem') /\ Extends(disk, disk')
    BY DEF Extends
  <2>2. MemOK' /\ Backed' /\ NoLostWakeup'
    BY DEF MemOK, Extends, Backed, Left, NoLostWakeup, Satisfies
  <2>. QED  BY <2>1, <2>2, OutsideInv DEF TypeOK
<1>. QED  BY <1>1, <1>2

LEMMA Invariance == Spec => []IInv
BY InitInv, NextInv, PTL DEF Spec
-----------------------------------------------------------------------------
\* Every variable of PeerCore's sends keeps its type, and a call holds its
\* arguments exactly while it runs.
THEOREM TypeCorrect == Spec => []TypeOK
<1>1. IInv => TypeOK
  BY DEF IInv, Shape
<1>. QED  BY <1>1, Invariance, PTL

\* Whatever fails, repeats, races or crashes, no transport id carries a
\* message twice (#sendOnce, #recoverSend, reserveRequest, reserveRecovery).
THEOREM AtMostOnce == Spec => []AtMostOncePerTransport
<1>1. IInv => AtMostOncePerTransport
  BY DEF IInv
<1>. QED  BY <1>1, Invariance, PTL

\* A frame on the wire stands on a reservation in the file with its content
\* and its receiver: reserve first, write after.
THEOREM ReservedBeforeWritten == Spec => []FrameIsReserved
<1>1. IInv => FrameIsReserved
  BY DEF IInv
<1>. QED  BY <1>1, Invariance, PTL

\* A caller that was told "written" or shown a replay can find it in the file
\* at any later time, also after a crash or a poisoned append.
THEOREM AnswersStay == Spec => []AnswersAgree
<1>1. IInv => AnswersAgree
  BY DEF IInv
<1>. QED  BY <1>1, Invariance, PTL

\* A status at or above "written" means that bytes left for the target, for
\* every message whose evidence no operator linked.
THEOREM StatusIsEarned == Spec => []StatusMeansSent
<1>1. IInv => StatusMeansSent
  <2>. SUFFICES ASSUME IInv, NEW m \in Messages \ linked,
                       Status(disk, m) \notin {"unknown", "requested", "uncertain_failure"}
                PROVE  Left(m)
    BY DEF StatusMeansSent, Left
  <2>1. disk.evidence[m] # {} \/ \E v \in Vias : disk.outcome[m][v] = "written"
    BY DEF Status
  <2>. QED  BY <2>1 DEF IInv, Backed
<1>. QED  BY <1>1, Invariance, PTL

\* A waiter never sleeps on evidence that the rows hold: wait() searches them
\* before its listener is set, and every emitted row wakes it.
THEOREM WaitersAreWoken == Spec => []NoLostWakeup
<1>1. IInv => NoLostWakeup
  BY DEF IInv
<1>. QED  BY <1>1, Invariance, PTL
-----------------------------------------------------------------------------
\* What the rows and the wire say of a call in flight: no outcome of its transport is in the
\* file before it is past "reserved", and once it is "sent" its bytes are on the wire.
Unsettled(c) ==
    /\ pc[c] = "reserved" => disk.outcome[ask[c].msg][via[c]] = "none"
    /\ pc[c] = "sent" =>
         \E i \in 1..Len(wire) : wire[i].msg = ask[c].msg /\ wire[i].via = via[c]
CallsUnsettled == \A c \in Callers : Unsettled(c)

\* The wire keeps its frames.
WireGrows == Len(wire) <= Len(wire') /\ \A i \in 1..Len(wire) : wire'[i] = wire[i]

\* A call that did not move is as unsettled as it was.
LEMMA StaysUnsettled ==
    ASSUME IInv, NEW c \in Callers, Unsettled(c), WireGrows,
           pc'[c] \in {"reserved", "sent"} => pc'[c] = pc[c] /\ ask'[c] = ask[c] /\ via'[c] = via[c],
           pc[c] = "reserved" => disk'.outcome[ask[c].msg] = disk.outcome[ask[c].msg]
    PROVE  Unsettled(c)'
<1>2. CASE pc'[c] = "reserved"
  BY <1>2 DEF Unsettled
<1>3. CASE pc'[c] = "sent"
  <2>1. PICK i \in 1..Len(wire) : wire[i].msg = ask[c].msg /\ wire[i].via = via[c]
    BY <1>3 DEF Unsettled
  <2>2. i \in 1..Len(wire') /\ wire'[i] = wire[i]
    BY DEF WireGrows, IInv, Shape, CallTypes
  <2>. QED  BY <1>3, <2>1, <2>2 DEF Unsettled
<1>4. CASE pc'[c] \notin {"reserved", "sent"}
  BY <1>4 DEF Unsettled
<1>. QED  BY <1>2, <1>3, <1>4

\* An append of a row that keeps all outcomes, and one that fails, keep those in the file.
LEMMA OutcomesStay ==
    ASSUME IInv, up, NEW rows, rows.outcome = mem.outcome, Commit(rows) \/ CommitFails(rows)
    PROVE  disk'.outcome = disk.outcome
BY DEF Commit, CommitFails, IInv, Shape, MemOK

LEMMA ReservationKeepsOutcomes ==
    ASSUME IInv, NEW c \in Callers, pc[c] # "idle"
    PROVE  Reservation(c).outcome = mem.outcome
<1>1. mem \in Rows /\ ask[c].msg \in Messages
  BY InsideIsAlone DEF IInv, Shape, TypeOK
<1>. QED  BY <1>1 DEF Reservation, Rows

\* The rows of a call that ends touch no other call in flight.
LEMMA EndIsOwn ==
    ASSUME IInv, NEW c \in Callers, pc[c] \in {"sent", "broken"}, NEW result,
           Commit(Outcome(c, result)) \/ CommitFails(Outcome(c, result)),
           NEW d \in Callers \ {c}, pc[d] = "reserved"
    PROVE  disk'.outcome[ask[d].msg] = disk.outcome[ask[d].msg]
<1>1. /\ up /\ ask[c].msg \in Messages /\ ask[d].msg \in Messages
      /\ ask[c].msg # ask[d].msg /\ mem \in Rows /\ via[c] \in Vias
  BY InsideIsAlone DEF Inside, IInv, Shape, TypeOK
<1>2. Outcome(c, result).outcome[ask[d].msg] = mem.outcome[ask[d].msg]
  BY <1>1 DEF Outcome, Rows
<1>. QED  BY <1>1, <1>2 DEF Commit, CommitFails, IInv, Shape, MemOK

\* Frames are appended, by a write.
LEMMA FramesStay == ASSUME IInv, NEW c \in Callers, SendStep(c) PROVE WireGrows
<1>1. CASE Transmit(c)
  <2>1. wire \in Seq(Frames) /\ wire' = Append(wire, Frame(c))
    BY <1>1 DEF IInv, Shape, CallTypes, Transmit
  <2>. QED  BY <2>1 DEF WireGrows
<1>2. CASE ~Transmit(c)
  <2>1. wire' = wire
    BY <1>2 DEF SendStep, EnterNew, EnterConflict, EnterReplay, EnterRecovery, Resolve,
       ResolveFails, Reserve, ReserveFails, HookThrows, TransmitFails, RecordSent,
       RecordSentFails, RecordBroken, RecordBrokenFails
  <2>. QED  BY <2>1 DEF WireGrows, IInv, Shape, CallTypes
<1>. QED  BY <1>1, <1>2

\* A step of a call keeps every call unsettled.
LEMMA SendStepUnsettled ==
    ASSUME IInv, CallsUnsettled, NEW c \in Callers, SendStep(c)
    PROVE  CallsUnsettled'
<1>. USE DEF IInv, Shape
<1>1. pc[c] # "idle"
  BY DEF SendStep, Turn, EnterNew, EnterConflict, EnterReplay, EnterRecovery, Resolve,
     ResolveFails, Reserve, ReserveFails, HookThrows, Transmit, TransmitFails, RecordSent,
     RecordSentFails, RecordBroken, RecordBrokenFails
<1>2. up
  BY <1>1, InsideIsAlone
<1>3. ASSUME NEW d \in Callers \ {c} PROVE Unsettled(d)'
  <2>1. pc'[d] = pc[d] /\ ask'[d] = ask[d] /\ via'[d] = via[d]
    BY DEF SendStep, EnterNew, EnterConflict, EnterReplay, EnterRecovery, Resolve,
       ResolveFails, Reserve, ReserveFails, HookThrows, Transmit, TransmitFails, RecordSent,
       RecordSentFails, RecordBroken, RecordBrokenFails, Finish, Goto, TypeOK, CallTypes
  <2>2. pc[d] = "reserved" => disk'.outcome[ask[d].msg] = disk.outcome[ask[d].msg]
    <3>. SUFFICES ASSUME pc[d] = "reserved"
                  PROVE  disk'.outcome[ask[d].msg] = disk.outcome[ask[d].msg]
      OBVIOUS
    <3>1. CASE Reserve(c) \/ ReserveFails(c)
      <4>1. \/ disk' = disk
            \/ Commit(Reservation(c)) \/ CommitFails(Reservation(c))
        BY <3>1 DEF Reserve, ReserveFails, ledgerVars
      <4>. QED  BY <1>1, <1>2, <4>1, OutcomesStay, ReservationKeepsOutcomes
    <3>2. CASE RecordSent(c) \/ RecordSentFails(c) \/ RecordBroken(c) \/ RecordBrokenFails(c)
      BY <3>2, EndIsOwn DEF RecordSent, RecordSentFails, RecordBroken, RecordBrokenFails
    <3>3. CASE ~(\/ Reserve(c) \/ ReserveFails(c) \/ RecordSent(c) \/ RecordSentFails(c)
                 \/ RecordBroken(c) \/ RecordBrokenFails(c))
      <4>1. disk' = disk
        BY <3>3 DEF SendStep, EnterNew, EnterConflict, EnterReplay, EnterRecovery, Resolve,
           ResolveFails, HookThrows, Transmit, TransmitFails, ledgerVars, Diagnose
      <4>. QED  BY <4>1
    <3>. QED  BY <3>1, <3>2, <3>3
  <2>. QED  BY <2>1, <2>2, FramesStay, StaysUnsettled DEF CallsUnsettled
<1>4. Unsettled(c)'
  <2>1. CASE Transmit(c)
    <3>1. /\ wire \in Seq(Frames) /\ wire' = Append(wire, Frame(c))
          /\ ask' = ask /\ via' = via /\ pc'[c] \in {"sent", "broken"}
      BY <2>1 DEF CallTypes, Transmit, TypeOK, Goto
    <3>2. /\ Len(wire) + 1 \in 1..Len(wire') /\ wire'[Len(wire) + 1] = Frame(c)
      BY <3>1
    <3>. QED  BY <3>1, <3>2 DEF Unsettled, Frame
  <2>2. CASE Reserve(c)
    <3>1. CASE Reserved(c)
      BY <2>2, <3>1, <1>1, FinishLeaves DEF Reserve, Finish, Unsettled, TypeOK
    <3>2. CASE ~Reserved(c)
      <4>1. pc'[c] = "reserved" /\ ask' = ask /\ via' = via /\ mem' = disk'
        BY <2>2, <3>2 DEF Reserve, Commit, Goto, TypeOK
      <4>2. CallOK(c)'
        BY <2>2, ReserveInv DEF CallsOK
      <4>. QED  BY <4>1, <4>2 DEF CallOK, Flying, Unsettled
    <3>. QED  BY <3>1, <3>2
  <2>3. CASE ~Transmit(c) /\ ~Reserve(c)
    <3>1. pc'[c] \notin {"reserved", "sent"}
      BY <2>3 DEF SendStep, EnterNew, EnterConflict, EnterReplay, EnterRecovery, Resolve,
         ResolveFails, ReserveFails, HookThrows, TransmitFails, RecordSent,
         RecordSentFails, RecordBroken, RecordBrokenFails, Finish, Goto, TypeOK
    <3>. QED  BY <3>1 DEF Unsettled
  <2>. QED  BY <2>1, <2>2, <2>3
<1>. QED  BY <1>3, <1>4 DEF CallsUnsettled

\* Nothing outside the calls moves a call into flight or writes an outcome.
LEMMA NextUnsettled ==
    ASSUME IInv, CallsUnsettled, [Next]_vars
    PROVE  CallsUnsettled'
<1>. USE DEF IInv, Shape
<1>1. CASE \E c \in Callers : SendStep(c)
  BY <1>1, SendStepUnsettled
<1>2. CASE ~ \E c \in Callers : SendStep(c)
  <2>1. wire' = wire
    BY <1>2 DEF Next, Call, AcceptFrame, RefuseFrame, LinkUnmatched, Unmatched, HoldBound,
       PeerStatus, Wait, Expire, Replace, Crash, Restart, vars
  <2>2. ASSUME NEW d \in Callers PROVE Unsettled(d)'
    <3>1. pc'[d] \in {"reserved", "sent"} =>
            pc'[d] = pc[d] /\ ask'[d] = ask[d] /\ via'[d] = via[d]
      <4>1. CASE UNCHANGED callVars
        BY <4>1 DEF callVars
      <4>2. CASE Crash
        BY <4>2 DEF Crash
      <4>3. CASE \E c \in Callers, m \in Messages, request \in Requests : Call(c, m, request)
        <5>1. PICK c \in Callers : pc' = [pc EXCEPT ![c] = "queued"] /\ via' = via
                                   /\ \E x : ask' = [ask EXCEPT ![c] = x]
          BY <4>3 DEF Call
        <5>. QED  BY <5>1 DEF TypeOK, CallTypes
      <4>. QED
        BY <1>2, <4>1, <4>2, <4>3 DEF Next, AcceptFrame, RefuseFrame, LinkUnmatched, Unmatched,
           HoldBound, PeerStatus, Wait, Expire, Replace, Restart, vars
    <3>2. disk'.outcome = disk.outcome
      <4>1. ASSUME NEW m \in Messages, NEW e,
                   LET rows == [mem EXCEPT !.evidence[m] = @ \cup {e}]
                   IN  up /\ (Commit(rows) \/ CommitFails(rows))
            PROVE  disk'.outcome = disk.outcome
        BY <4>1, OutcomesStay DEF TypeOK, Rows
      <4>2. ASSUME NEW m \in Messages, NEW kind \in FrameKinds, NEW writer \in 0..MaxLive,
                   AcceptFrame(m, kind, writer)
            PROVE  disk'.outcome = disk.outcome
        BY <4>1, <4>2 DEF AcceptFrame
      <4>3. ASSUME NEW m \in Messages, LinkUnmatched(m) PROVE disk'.outcome = disk.outcome
        BY <4>1, <4>3 DEF LinkUnmatched
      <4>. QED
        BY <1>2, <4>2, <4>3 DEF Next, Call, RefuseFrame, Report, Diagnose, Unmatched, HoldBound,
           PeerStatus, Wait, Expire, Replace, Crash, Restart, vars, ledgerVars
    <3>. QED  BY <2>1, <3>1, <3>2, StaysUnsettled DEF CallsUnsettled, WireGrows, CallTypes
  <2>. QED  BY <2>2 DEF CallsUnsettled
<1>. QED  BY <1>1, <1>2
-----------------------------------------------------------------------------
LEMMA DeliveryBegins == Init => Promised!DeliveryInit
<1>. SUFFICES ASSUME Init PROVE Promised!DeliveryInit
  OBVIOUS
<1>1. DOMAIN wire = {}
  BY DEF Init
<1>. QED  BY <1>1 DEF Init, NoRows, Promised!DeliveryInit, None, Promised!None, Vias, Promised!Vias

\* What an action of Delivery is to its next-state relation.
LEMMA IsStep ==
    ASSUME NEW m \in Messages
    PROVE  /\ Promised!Reserve(m) \/ Promised!Recover(m) => Promised!DeliveryNext
           /\ \A v \in Vias : Promised!Transmit(m, v) => Promised!DeliveryNext
           /\ \A v \in Vias, result \in {"written", "failed"} :
                Promised!Settle(m, v, result) => Promised!DeliveryNext
           /\ \A e \in Evidence :
                Promised!Learn(m, e) \/ Promised!Link(m, e) => Promised!DeliveryNext
BY DEF Promised!DeliveryNext, Vias, Promised!Vias

\* A step that changes no row in the file and no frame changes nothing of Delivery.
LEMMA Stutters ==
    ASSUME UNCHANGED <<disk, wire, linked>>
    PROVE  UNCHANGED Promised!deliveryVars
BY DEF Promised!deliveryVars

\* The reservation of a call in the file: an id is taken, or its recovery is.
LEMMA ReserveRefines ==
    ASSUME IInv, NEW c \in Callers, pc[c] = "reserving", ~Reserved(c), UNCHANGED <<wire, linked>>,
           disk' = disk \/ (disk' = Reservation(c) /\ disk = mem)
    PROVE  Promised!DeliveryNext \/ UNCHANGED Promised!deliveryVars
<1>. USE DEF IInv, Shape
<1>0. ask[c].msg \in Messages /\ ask[c].content \in Contents
  BY InsideIsAlone
<1>1. PICK m \in Messages : m = ask[c].msg
  BY <1>0
<1>2. CASE disk' = disk
  BY <1>2, Stutters
<1>3. CASE disk' = Reservation(c) /\ disk = mem
  <2>1. target[c] \in 1..MaxLive /\ via[c] \in Vias /\ disk \in Rows
    <3>1. CallOK(c) /\ via[c] \in Vias /\ disk \in Rows
      BY DEF CallsOK, TypeOK
    <3>. QED  BY <3>1 DEF CallOK
  <2>2. CASE via[c] = "first"
    <3>1. disk.request[m] = Promised!None
      BY <1>1, <1>3, <2>2 DEF Reserved, PriorOf, RequestOf, None, Promised!None
    <3>2. disk' = [disk EXCEPT !.request[m] = [content |-> ask[c].content, to |-> target[c]]]
      BY <1>1, <1>3, <2>2 DEF Reservation
    <3>3. /\ disk'.request = [disk.request EXCEPT ![m] = [content |-> ask[c].content, to |-> target[c]]]
          /\ UNCHANGED <<disk.recovery, disk.outcome, disk.evidence>>
      BY <3>2, <2>1 DEF Rows
    <3>4. Promised!Reserve(m)
      BY <1>0, <2>1, <3>1, <3>3 DEF Promised!Reserve
    <3>. QED  BY <3>4, IsStep
  <2>3. CASE via[c] = "second"
    <3>1. disk.request[m] # Promised!None /\ ~disk.recovery[m]
      BY <1>1, <1>3, <2>3 DEF Reserved, CallsOK, CallOK, None, Promised!None
    <3>2. disk' = [disk EXCEPT !.recovery[m] = TRUE]
      BY <1>1, <1>3, <2>3 DEF Reservation
    <3>3. /\ disk'.recovery = [disk.recovery EXCEPT ![m] = TRUE]
          /\ UNCHANGED <<disk.request, disk.outcome, disk.evidence>>
      BY <3>2, <2>1 DEF Rows
    <3>4. {k \in Messages : disk'.recovery[k]} = {k \in Messages : disk.recovery[k]} \cup {m}
      BY <1>1, <2>1, <3>3 DEF Rows
    <3>5. Promised!Recover(m)
      BY <1>1, <3>1, <3>3, <3>4 DEF Promised!Recover
    <3>. QED  BY <3>5, IsStep
  <2>. QED  BY <2>1, <2>2, <2>3 DEF Vias
<1>. QED  BY <1>2, <1>3

\* A call in flight may use its transport.
LEMMA FlightIsAllowed ==
    ASSUME IInv, NEW c \in Callers, pc[c] \in Flying
    PROVE  Promised!Allowed(ask[c].msg, via[c])
<1>1. ask[c].msg \in Messages /\ via[c] \in Vias
  BY InsideIsAlone DEF Flying, IInv, Shape, TypeOK
<1>2. /\ mem.request[ask[c].msg] # None
      /\ via[c] = "second" => mem.recovery[ask[c].msg]
  BY FlyingIsReserved
<1>3. disk.request[ask[c].msg] # None /\ (via[c] = "second" => disk.recovery[ask[c].msg])
  BY <1>1, <1>2 DEF IInv, Shape, MemOK, Extends
<1>. QED  BY <1>1, <1>3 DEF Promised!Allowed, None, Promised!None

\* What is under a transport of a message in Delivery is what the wire holds of it.
FrameAt(i) == [id |-> i, msg |-> wire[i].msg, via |-> wire[i].via, to |-> wire[i].to,
               content |-> wire[i].content]
LEMMA UnderIsWire ==
    ASSUME NEW m, NEW v
    PROVE  Promised!Under(m, v) = {FrameAt(i) : i \in {j \in DOMAIN wire :
                                      wire[j].msg = m /\ wire[j].via = v}}
<1>1. \A i \in DOMAIN wire : FrameAt(i).msg = wire[i].msg /\ FrameAt(i).via = wire[i].via
  BY DEF FrameAt
<1>2. Promised!Under(m, v) =
        {f \in {FrameAt(i) : i \in DOMAIN wire} : f.msg = m /\ f.via = v}
  BY DEF Promised!Under, FrameAt
<1>. HIDE DEF FrameAt
<1>. QED  BY <1>1, <1>2

LEMMA TransmitRefines ==
    ASSUME IInv, CallsUnsettled, NEW c \in Callers, Transmit(c)
    PROVE  Promised!DeliveryNext
<1>. USE DEF IInv, Shape
<1>0. PICK m \in Messages, v \in Vias : m = ask[c].msg /\ v = via[c]
  BY InsideIsAlone DEF Transmit, TypeOK
<1>. DEFINE n == Len(wire)
            f == [id |-> n + 1, msg |-> m, via |-> v, to |-> live, content |-> ask[c].content]
<1>1. pc[c] = "reserved" /\ live = target[c]
  BY DEF Transmit, Reverified
<1>2. /\ wire \in Seq(Frames) /\ wire' = Append(wire, Frame(c)) /\ n \in Nat
  BY DEF CallTypes, Transmit
<1>3. /\ DOMAIN wire = 1..n /\ DOMAIN wire' = 1..(n + 1) /\ wire'[n + 1] = Frame(c)
      /\ \A i \in 1..n : wire'[i] = wire[i]
  BY <1>2
<1>4. {FrameAt(i)' : i \in DOMAIN wire'} = {FrameAt(i) : i \in DOMAIN wire} \cup {f}
  <2>1. DOMAIN wire' = DOMAIN wire \cup {n + 1} /\ n + 1 \in DOMAIN wire'
    BY <1>2, <1>3
  <2>2. \A i \in DOMAIN wire : FrameAt(i)' = FrameAt(i)
    BY <1>3 DEF FrameAt
  <2>3. \A i \in {n + 1} : FrameAt(i)' = f
    BY <1>0, <1>3 DEF FrameAt, Frame
  <2>. HIDE DEF f, n
  <2>4. \A i \in DOMAIN wire' : i \in DOMAIN wire \/ i \in {n + 1}
    BY <2>1
  <2>5. \A i \in DOMAIN wire' : FrameAt(i)' \in {FrameAt(k) : k \in DOMAIN wire} \cup {f}
    BY <2>2, <2>3, <2>4
  <2>6. \A i \in DOMAIN wire : FrameAt(i) \in {FrameAt(k)' : k \in DOMAIN wire'}
    BY <2>1, <2>2
  <2>7. f \in {FrameAt(k)' : k \in DOMAIN wire'}
    <3>1. PICK k \in DOMAIN wire' : k \in {n + 1}
      BY <2>1
    <3>. QED  BY <2>3, <3>1
  <2>. QED  BY <2>5, <2>6, <2>7
<1>5. Promised!Under(m, v) = {}
  <2>1. \A i \in 1..n : wire[i].msg # m \/ wire[i].via # v
    <3>1. CallOK(c)
      BY DEF CallsOK
    <3>. HIDE DEF IInv, Shape
    <3>. QED  BY <1>0, <1>1, <3>1 DEF CallOK
  <2>. QED  BY <2>1, <1>3, UnderIsWire
<1>6. disk.outcome[m][v] = "none"
  BY <1>0, <1>1 DEF CallsUnsettled, Unsettled
<1>7. disk.request[m] = [content |-> ask[c].content, to |-> live]
  <2>1. mem.request[m] = [content |-> ask[c].content, to |-> live] /\ mem.request[m] # None
    BY <1>0, <1>1, FlyingIsReserved DEF CallsOK, CallOK, Flying
  <2>. QED  BY <1>1, <2>1 DEF MemOK, Extends
<1>8. Promised!Transmit(m, v)
  <2>1. Promised!Allowed(m, v)
    BY <1>0, <1>1, FlightIsAllowed DEF Flying
  <2>2. UNCHANGED <<disk, linked>>
    BY DEF Transmit, ledgerVars
  <2>3. /\ f.msg = m /\ f.via = v
        /\ f.content = disk.request[m].content /\ f.to = disk.request[m].to
    BY <1>7
  <2>4. \E g \in {FrameAt(i)' : i \in DOMAIN wire'} :
           /\ {FrameAt(i)' : i \in DOMAIN wire'} = {FrameAt(i) : i \in DOMAIN wire} \cup {g}
           /\ g.msg = m /\ g.via = v
           /\ g.content = disk.request[m].content /\ g.to = disk.request[m].to
    <3>. HIDE DEF f
    <3>. QED  BY <1>4, <2>3
  <2>. QED  BY <1>5, <1>6, <2>1, <2>2, <2>4 DEF Promised!Transmit, FrameAt
<1>. QED  BY <1>1, <1>8, IsStep

\* The outcome of a call in the file is the first of its transport, "written" after its bytes.
LEMMA SettleRefines ==
    ASSUME IInv, CallsUnsettled, NEW c \in Callers, pc[c] \in {"sent", "broken"},
           NEW result \in {"written", "failed"}, result = "written" => pc[c] = "sent",
           Commit(Outcome(c, result)) \/ CommitFails(Outcome(c, result)),
           UNCHANGED <<wire, linked>>
    PROVE  Promised!DeliveryNext \/ UNCHANGED Promised!deliveryVars
<1>. USE DEF IInv, Shape
<1>0. PICK m \in Messages : m = ask[c].msg
  BY InsideIsAlone
<1>1. via[c] \in Vias /\ up
  BY InsideIsAlone DEF TypeOK
<1>2. disk' = disk \/ (disk' = Outcome(c, result) /\ disk = mem)
  BY <1>1 DEF Commit, CommitFails, MemOK
<1>3. CASE disk' = disk
  BY <1>3, Stutters
<1>4. CASE disk' = Outcome(c, result) /\ disk = mem
  <2>1. disk' = [disk EXCEPT !.outcome[m][via[c]] = result] /\ disk \in Rows
    BY <1>0, <1>4 DEF Outcome, TypeOK
  <2>2. /\ disk'.outcome = [disk.outcome EXCEPT ![m][via[c]] = result]
        /\ UNCHANGED <<disk.request, disk.recovery, disk.evidence>>
    BY <2>1 DEF Rows
  <2>3. disk.outcome[m][via[c]] = "none" /\ Promised!Allowed(m, via[c])
    BY <1>0, <1>4, FlyingIsReserved, FlightIsAllowed DEF Flying
  <2>4. result = "written" => Promised!Under(m, via[c]) # {}
    <3>1. result = "written" =>
            \E i \in 1..Len(wire) : wire[i].msg = m /\ wire[i].via = via[c]
      BY <1>0 DEF CallsUnsettled, Unsettled
    <3>2. DOMAIN wire = 1..Len(wire)
      BY DEF CallTypes
    <3>. QED  BY <3>1, <3>2, UnderIsWire
  <2>5. Promised!Settle(m, via[c], result)
    BY <2>2, <2>3, <2>4 DEF Promised!Settle
  <2>. QED  BY <1>1, <2>5, IsStep
<1>. QED  BY <1>2, <1>3, <1>4

\* An answer that reached the file: of the process the bytes went to, or named by an operator.
LEMMA AcceptRefines ==
    ASSUME IInv, NEW m \in Messages, NEW kind \in FrameKinds, NEW writer \in 0..MaxLive,
           AcceptFrame(m, kind, writer)
    PROVE  Promised!DeliveryNext \/ UNCHANGED Promised!deliveryVars
<1>. DEFINE e == Recorded(kind)
            rows == [mem EXCEPT !.evidence[m] = @ \cup {e}]
<1>. USE DEF IInv, Shape
<1>1. e \in Evidence
  BY SendAssumption DEF Recorded, Evidence, Statuses
<1>2. /\ UNCHANGED <<wire, linked>>
      /\ disk' = disk \/ (disk' = rows /\ disk = mem)
  BY DEF AcceptFrame, Commit, CommitFails, MemOK
<1>3. CASE disk' = disk
  BY <1>2, <1>3, Stutters
<1>4. CASE disk' = rows /\ disk = mem
  <2>1. /\ disk'.evidence = [disk.evidence EXCEPT ![m] = @ \cup {e}]
        /\ UNCHANGED <<disk.request, disk.recovery, disk.outcome>>
    BY <1>4 DEF TypeOK, Rows
  <2>2. PICK i \in 1..Len(wire) : wire[i].msg = m
    <3>1. mem.request[m] # None /\ mem.request[m].to = writer
      BY DEF AcceptFrame, AssertPeer, Correlated, RequestOf
    <3>2. writer \in 1..MaxLive
      BY <3>1 DEF TypeOK, Rows
    <3>. QED  BY <3>2, SendAssumption DEF AcceptFrame, Writers, Any
  <2>3. wire[i].via \in Vias /\ i \in DOMAIN wire
    <3>1. wire \in Seq(Frames) /\ wire[i] \in Frames
      BY DEF CallTypes
    <3>. QED  BY <3>1 DEF Frames
  <2>4. Promised!Under(m, wire[i].via) # {}
    BY <2>2, <2>3, UnderIsWire
  <2>5. Promised!Learn(m, e)
    BY <1>2, <2>1, <2>3, <2>4 DEF Promised!Learn, Vias, Promised!Vias
  <2>. QED  BY <1>1, <2>5, IsStep
<1>. QED  BY <1>2, <1>3, <1>4

LEMMA LinkRefines ==
    ASSUME IInv, NEW m \in Messages, LinkUnmatched(m)
    PROVE  Promised!DeliveryNext \/ UNCHANGED Promised!deliveryVars
<1>. DEFINE rows == [mem EXCEPT !.evidence[m] = @ \cup {"reply"}]
<1>. USE DEF IInv, Shape
<1>2. /\ wire' = wire /\ linked' = (IF disk' = disk THEN linked ELSE linked \cup {m})
      /\ disk' = disk \/ (disk' = rows /\ disk = mem)
  BY DEF LinkUnmatched, Commit, CommitFails, MemOK
<1>3. CASE disk' = disk
  BY <1>2, <1>3, Stutters
<1>4. CASE disk' = rows /\ disk = mem /\ disk' # disk
  <2>1. /\ disk'.evidence = [disk.evidence EXCEPT ![m] = @ \cup {"reply"}]
        /\ UNCHANGED <<disk.request, disk.recovery, disk.outcome>>
    BY <1>4 DEF TypeOK, Rows
  <2>2. disk.request[m] # Promised!None
    BY <1>4 DEF LinkUnmatched, Correlated, RequestOf, None, Promised!None
  <2>3. Promised!Link(m, "reply")
    BY <1>2, <1>4, <2>1, <2>2 DEF Promised!Link
  <2>. QED  BY <2>3, IsStep DEF Evidence
<1>. QED  BY <1>2, <1>3, <1>4

LEMMA SendRefines ==
    ASSUME IInv, CallsUnsettled, NEW c \in Callers, SendStep(c)
    PROVE  Promised!DeliveryNext \/ UNCHANGED Promised!deliveryVars
<1>1. CASE Transmit(c)
  BY <1>1, TransmitRefines
<1>2. UNCHANGED <<wire, linked>> \/ Transmit(c)
  BY DEF SendStep, EnterNew, EnterConflict, EnterReplay, EnterRecovery, Resolve,
     ResolveFails, Reserve, ReserveFails, HookThrows, Transmit, TransmitFails, RecordSent,
     RecordSentFails, RecordBroken, RecordBrokenFails
<1>3. CASE Reserve(c) \/ ReserveFails(c)
  <2>1. up /\ UNCHANGED <<wire, linked>>
    BY <1>3, InsideIsAlone DEF Reserve, ReserveFails
  <2>2. disk' = disk \/ (~Reserved(c) /\ disk' = Reservation(c) /\ disk = mem)
    BY <1>3, <2>1 DEF Reserve, ReserveFails, Commit, CommitFails, ledgerVars, IInv, Shape, MemOK
  <2>. QED  BY <1>3, <2>1, <2>2, ReserveRefines, Stutters DEF Reserve, ReserveFails
<1>4. CASE RecordSent(c) \/ RecordSentFails(c) \/ RecordBroken(c) \/ RecordBrokenFails(c)
  BY <1>4, SettleRefines DEF RecordSent, RecordSentFails, RecordBroken, RecordBrokenFails
<1>5. CASE ~(\/ Reserve(c) \/ ReserveFails(c) \/ RecordSent(c) \/ RecordSentFails(c)
             \/ RecordBroken(c) \/ RecordBrokenFails(c))
  <2>1. disk' = disk
    BY <1>5 DEF SendStep, EnterNew, EnterConflict, EnterReplay, EnterRecovery, Resolve,
       ResolveFails, HookThrows, Transmit, TransmitFails, ledgerVars, Diagnose
  <2>. QED  BY <1>1, <1>2, <2>1, Stutters
<1>. QED  BY <1>3, <1>4, <1>5

LEMMA StepRefines ==
    ASSUME IInv, CallsUnsettled, [Next]_vars
    PROVE  Promised!DeliveryNext \/ UNCHANGED Promised!deliveryVars
<1>1. CASE \E c \in Callers : SendStep(c)
  BY <1>1, SendRefines
<1>2. CASE \E m \in Messages, kind \in FrameKinds, writer \in 0..MaxLive :
             AcceptFrame(m, kind, writer)
  BY <1>2, AcceptRefines
<1>3. CASE \E m \in Messages : LinkUnmatched(m)
  BY <1>3, LinkRefines
<1>4. CASE UNCHANGED <<disk, wire, linked>>
  BY <1>4, Stutters
<1>. QED
  BY <1>1, <1>2, <1>3, <1>4 DEF Next, Call, RefuseFrame, Report, Diagnose, Unmatched, HoldBound,
     PeerStatus, Wait, Expire, Replace, Crash, Restart, vars, ledgerVars, callVars

\* Queues, failures, races, crashes and replaced targets: PeerCore keeps to Delivery.
THEOREM SendImplementsDelivery == Spec => ImplementsDelivery
<1>1. Init => Promised!DeliveryInit
  BY DeliveryBegins
<1>2. Init => CallsUnsettled
  BY DEF Init, CallsUnsettled, Unsettled
<1>3. IInv /\ CallsUnsettled /\ [Next]_vars => CallsUnsettled'
  BY NextUnsettled
<1>4. IInv /\ CallsUnsettled /\ [Next]_vars => [Promised!DeliveryNext]_(Promised!deliveryVars)
  BY StepRefines
<1>. QED  BY <1>1, <1>2, <1>3, <1>4, Invariance, PTL
          DEF Spec, ImplementsDelivery, Promised!DeliverySpec
=============================================================================
