----------------------------- MODULE Milestone -----------------------------
(***************************************************************************)
(* The milestone extension (src/extensions/milestone/index.mjs): a target  *)
(* reports a completion, the extension records it and acknowledges it      *)
(* through PeerCore, the target's status frames are evidence for that      *)
(* acknowledgement, and an operator may ask for its one recovery.  The     *)
(* extension runs its operations one at a time on a chain, while PeerCore  *)
(* records frames beside it; each append is a step, the daemon may crash   *)
(* between any two, and a start reconciles first.  An append is durable    *)
(* when it returns; a ledger that fails is taken as a crash.               *)
(***************************************************************************)
EXTENDS Extension, FiniteSets

CONSTANTS Ids, Attempts,   \* completion ids and attempt ids
          MaxRequests,     \* bound: completion frames and recoveries asked for
          MaxStatuses      \* bound: status frames

ASSUME MilestoneAssumption ==
    /\ MaxLive \in Nat \ {0} /\ MaxRequests \in Nat
    /\ MaxStatuses \in Nat /\ MaxCrashes \in Nat

Instructed == 1            \* the process that the instruction was sent to
Vias == {"first", "second"} \* the acknowledgement's own transport id and its recovery's
Statuses == {"held", "delivered", "terminal"}

\* PeerCore's reservations and the wire are per acknowledgement and transport.
VARIABLES via,        \* the transport that the running operation uses
          accepted,   \* milestone_completion_accepted rows, in order
          prepared,   \* ids with a milestone_ack_prepared row
          status,     \* PeerCore's status rows: id, via and what it says
          reserved,   \* id and via of each milestone_ack_send_reserved row
          credited,   \* milestone_ack_delivered, _held and _terminal_failure rows
          asked,      \* history: recoveries that were asked for
          requests

ackOpVars == <<chain, at, via, to>>
ackVars == <<accepted, prepared, reserved, credited>>
coreVars == <<core, status, wire>>
countVars == <<asked, requests, crashes>>
milestoneVars == <<up, live, ackOpVars, ackVars, coreVars, countVars>>

Reconciling == [kind |-> "reconcile"]

AckInit ==
    /\ up = TRUE /\ live = Instructed
    /\ chain = <<Reconciling>> /\ at = "judge" /\ via = "first" /\ to = Nobody
    /\ accepted = <<>> /\ prepared = {} /\ reserved = {} /\ credited = {}
    /\ core = [i \in Ids |-> [v \in Vias |-> Nobody]]
    /\ status = {} /\ wire = [i \in Ids |-> [v \in Vias |-> <<>>]]
    /\ asked = {} /\ requests = 0 /\ crashes = 0

Row(i, v, says) == [id |-> i, via |-> v, says |-> says]
Known(i) == \E n \in DOMAIN accepted : accepted[n].id = i
Tried(attempt) == \E n \in DOMAIN accepted : accepted[n].attempt = attempt
Complete(i) == \E v \in Vias : Row(i, v, "delivered") \in credited
Terminal(i) == \E v \in Vias : Row(i, v, "terminal") \in credited
Failed(i) == \E v \in Vias : Row(i, v, "terminal") \in status

Acked == Head(chain).id

\* The running operation goes on to a step, or ends and the next one begins.
AckGo(step) == at' = step /\ UNCHANGED <<chain, via, to>>
AckDone == chain' = Tail(chain) /\ at' = "judge" /\ via' = "first" /\ to' = Nobody
-----------------------------------------------------------------------------
\* A completion frame arrives: core finds no reply marker in it and the observer takes it.
Report(i, attempt) ==
    /\ requests < MaxRequests
    /\ Enqueue([kind |-> "completion", id |-> i, attempt |-> attempt, by |-> live])
    /\ requests' = requests + 1
    /\ UNCHANGED <<up, live, at, via, to, ackVars, coreVars, asked, crashes>>

\* It is refused when its writer is not the instructed process, and gets a duplicate or a
\* conflict row when its id or its attempt is known.
Refuse ==
    /\ Running({"completion"}, "judge")
    /\ \/ Head(chain).by # Instructed
       \/ Known(Acked)
       \/ Tried(Head(chain).attempt)
    /\ AckDone
    /\ UNCHANGED <<up, live, ackVars, coreVars, countVars>>

MutAckAccept ==
    /\ Running({"completion"}, "judge")
    /\ Head(chain).by = Instructed /\ ~Known(Acked)
    /\ accepted' = Append(accepted, [id |-> Acked, attempt |-> Head(chain).attempt])
    /\ AckGo("prepare")
    /\ UNCHANGED <<up, live, prepared, reserved, credited, coreVars, countVars>>

AckAccept ==
    /\ Running({"completion"}, "judge")
    /\ Head(chain).by = Instructed
    /\ ~Known(Acked) /\ ~Tried(Head(chain).attempt)
    /\ accepted' = Append(accepted, [id |-> Acked, attempt |-> Head(chain).attempt])
    /\ AckGo("prepare")
    /\ UNCHANGED <<up, live, prepared, reserved, credited, coreVars, countVars>>

Prepare ==
    /\ Running({"completion", "recover"}, "prepare")
    /\ prepared' = prepared \cup {Acked}
    /\ AckGo("send")
    /\ UNCHANGED <<up, live, accepted, reserved, credited, coreVars, countVars>>
-----------------------------------------------------------------------------
\* The acknowledgement goes out under its own id, or, once PeerCore knows that id, as its
\* recovery, which core refuses after a terminal failure.
SendAck ==
    /\ Running({"completion", "recover"}, "send")
    /\ LET again == core[Acked]["first"] # Nobody IN
       IF again /\ Failed(Acked)
         THEN AckDone
         ELSE via' = (IF again THEN "second" ELSE "first") /\ at' = "resolve"
              /\ UNCHANGED <<chain, to>>
    /\ UNCHANGED <<up, live, ackVars, coreVars, countVars>>

Resolve ==
    /\ Running({"completion", "recover"}, "resolve")
    /\ \/ to' = live /\ at' = "reserve" /\ UNCHANGED <<chain, via>>
       \/ AckDone
    /\ UNCHANGED <<up, live, ackVars, coreVars, countVars>>

MutReservable == core[Acked][via] = Nobody

\* PeerCore reserves each transport once, and the recovery only for the process of the first.
Reservable == core[Acked][via] = Nobody /\ (via = "second" => core[Acked]["first"] = to)

AckReserve ==
    /\ Running({"completion", "recover"}, "reserve")
    /\ IF Reservable
         THEN core' = [core EXCEPT ![Acked][via] = to] /\ AckGo("note")
         ELSE AckDone /\ UNCHANGED core
    /\ UNCHANGED <<up, live, ackVars, status, wire, countVars>>

\* afterReservation: the extension's own row, before anything is written.
AckNote ==
    /\ Running({"completion", "recover"}, "note")
    /\ reserved' = reserved \cup {[id |-> Acked, via |-> via]}
    /\ AckGo("write")
    /\ UNCHANGED <<up, live, accepted, prepared, credited, coreVars, countVars>>

\* The frame reaches the process it is reserved for, or nobody; nothing is tried again.
AckWrite ==
    /\ Running({"completion", "recover"}, "write")
    /\ \/ to = live /\ wire' = [wire EXCEPT ![Acked][via] = Append(@, to)]
       \/ UNCHANGED wire
    /\ AckDone
    /\ UNCHANGED <<up, live, ackVars, core, status, countVars>>
-----------------------------------------------------------------------------
\* A process that got an acknowledgement says what became of it, perhaps long after: core
\* records the frame, and then the observer takes it on the chain.
StatusFrame(i, v, says) ==
    /\ wire[i][v] # <<>> /\ Row(i, v, says) \notin status /\ Cardinality(status) < MaxStatuses
    /\ Enqueue([kind |-> "status", id |-> i, via |-> v, says |-> says])
    /\ status' = status \cup {Row(i, v, says)}
    /\ UNCHANGED <<up, live, at, via, to, ackVars, core, wire, countVars>>

\* Once the acknowledgement counts as delivered, nothing it hears about it matters.
ObserveStatus ==
    /\ Running({"status"}, "judge")
    /\ LET op == Head(chain) IN
       credited' = IF [id |-> op.id, via |-> op.via] \in reserved /\ ~Complete(op.id)
                     THEN credited \cup {Row(op.id, op.via, op.says)} ELSE credited
    /\ AckDone
    /\ UNCHANGED <<up, live, accepted, prepared, reserved, coreVars, countVars>>

\* Core's delivered row for a transport that this extension reserved, not credited yet.
Evident(i, v) ==
    /\ ~Complete(i) /\ [id |-> i, via |-> v] \in reserved
    /\ Row(i, v, "delivered") \in status

\* Reconcile, and each recovery of its own completion, credits such evidence first.
Credit(i, v) ==
    /\ Running({"reconcile", "recover"}, "judge")
    /\ Head(chain).kind = "recover" => i = Acked
    /\ Known(i) /\ Evident(i, v)
    /\ credited' = credited \cup {Row(i, v, "delivered")}
    /\ UNCHANGED <<up, live, ackOpVars, accepted, prepared, reserved, coreVars, countVars>>

Reconciled ==
    /\ Running({"reconcile"}, "judge")
    /\ \A i \in Ids, v \in Vias : ~(Known(i) /\ Evident(i, v))
    /\ AckDone
    /\ UNCHANGED <<up, live, ackVars, coreVars, countVars>>
-----------------------------------------------------------------------------
\* An operator names a completion and its payload: the only way to a second transport.
AskRecovery(i) ==
    /\ requests < MaxRequests
    /\ Enqueue([kind |-> "recover", id |-> i])
    /\ asked' = asked \cup {i} /\ requests' = requests + 1
    /\ UNCHANGED <<up, live, at, via, to, ackVars, coreVars, crashes>>

\* Nothing is sent for a completion that is unknown, acknowledged, terminal or recovered.
Settled(i) ==
    \/ ~Known(i) \/ Complete(i) \/ Terminal(i)
    \/ i \in prepared /\ [id |-> i, via |-> "second"] \in reserved

\* An alias that is off the table meanwhile cannot be recovered to, and nothing is recorded.
Unlisted ==
    /\ Running({"recover"}, "judge")
    /\ AckDone
    /\ UNCHANGED <<up, live, ackVars, coreVars, countVars>>

Recover ==
    /\ Running({"recover"}, "judge")
    /\ \A v \in Vias : ~Evident(Acked, v)
    /\ IF Settled(Acked) THEN AckDone
       ELSE AckGo(IF Acked \in prepared THEN "send" ELSE "prepare")
    /\ UNCHANGED <<up, live, ackVars, coreVars, countVars>>
-----------------------------------------------------------------------------
AckReplace ==
    /\ live < MaxLive /\ live' = live + 1
    /\ UNCHANGED <<up, ackOpVars, ackVars, coreVars, countVars>>

AckCrash ==
    /\ up /\ crashes < MaxCrashes
    /\ up' = FALSE /\ crashes' = crashes + 1
    /\ chain' = <<>> /\ at' = "judge" /\ via' = "first" /\ to' = Nobody
    /\ UNCHANGED <<live, ackVars, coreVars, asked, requests>>

MutAckRestart ==
    /\ ~up /\ up' = TRUE
    /\ UNCHANGED <<live, ackOpVars, ackVars, coreVars, countVars>>

\* A start reconciles before anyone can ask it for anything.
AckRestart ==
    /\ ~up /\ up' = TRUE
    /\ chain' = <<Reconciling>>
    /\ UNCHANGED <<live, at, via, to, ackVars, coreVars, countVars>>

Work ==
    \/ Refuse \/ AckAccept \/ Prepare
    \/ SendAck \/ Resolve \/ AckReserve \/ AckNote \/ AckWrite
    \/ ObserveStatus \/ Reconciled \/ Unlisted \/ Recover
    \/ \E i \in Ids, v \in Vias : Credit(i, v)

AckNext ==
    \/ Work
    \/ \E i \in Ids, attempt \in Attempts : Report(i, attempt)
    \/ \E i \in Ids, v \in Vias, says \in Statuses : StatusFrame(i, v, says)
    \/ \E i \in Ids : AskRecovery(i)
    \/ AckReplace \/ AckCrash \/ AckRestart

AckSpec == AckInit /\ [][AckNext]_milestoneVars
AckFairSpec == AckSpec /\ WF_milestoneVars(Work) /\ WF_milestoneVars(AckRestart)
-----------------------------------------------------------------------------
AckOps ==
    [kind : {"reconcile"}] \cup [kind : {"recover"}, id : Ids]
    \cup [kind : {"completion"}, id : Ids, attempt : Attempts, by : 1..MaxLive]
    \cup [kind : {"status"}, id : Ids, via : Vias, says : Statuses]

Facts == [id : Ids, via : Vias, says : Statuses]

\* Every variable has its type; a completion id and an attempt id are accepted once, and no
\* acknowledgement is prepared for a completion that is not there.
AckTypeOK ==
    /\ up \in BOOLEAN /\ live \in 1..MaxLive
    /\ chain \in Seq(AckOps) /\ via \in Vias /\ to \in 0..MaxLive
    /\ at \in {"judge", "prepare", "send", "resolve", "reserve", "note", "write"}
    /\ accepted \in Seq([id : Ids, attempt : Attempts])
    /\ \A m, n \in DOMAIN accepted :
           accepted[m].id = accepted[n].id \/ accepted[m].attempt = accepted[n].attempt => m = n
    /\ prepared \subseteq {accepted[n].id : n \in DOMAIN accepted}
    /\ core \in [Ids -> [Vias -> 0..MaxLive]] /\ wire \in [Ids -> [Vias -> Seq(1..MaxLive)]]
    /\ status \subseteq Facts /\ credited \subseteq Facts
    /\ reserved \subseteq [id : Ids, via : Vias] /\ asked \subseteq Ids
    /\ requests \in 0..MaxRequests /\ crashes \in 0..MaxCrashes

\* Across crashes, replays and recoveries each transport of an acknowledgement is written at
\* most once, to the process PeerCore and the extension both recorded before, for a completion
\* that is on record; a second transport exists only where a recovery was asked for, and
\* goes to the process the first was for.  A completion that counts as acknowledged is
\* credited to a transport that was written, by a status row of core.
AckIsAccounted ==
    /\ \A f \in credited : f \in status /\ wire[f.id][f.via] # <<>>
    /\ \A i \in Ids, v \in Vias : wire[i][v] # <<>> =>
           /\ wire[i][v] = <<core[i][v]>>
           /\ [id |-> i, via |-> v] \in reserved /\ i \in prepared /\ Known(i)
           /\ v = "second" => i \in asked /\ core[i]["second"] = core[i]["first"]

\* An acknowledgement is a message of Delivery: its two transports carry what is reserved, to
\* the process it is reserved for and once each, and every status is about one that left,
\* whatever is reported again, recovered, taken over or crashes.  How a transport ended is
\* not in this model.
AckFrames(i, v) ==
    {[id |-> n, msg |-> i, via |-> v, to |-> wire[i][v][n], content |-> "ack"] :
        n \in DOMAIN wire[i][v]}
AckRequest == [i \in Ids |-> IF core[i]["first"] = Nobody THEN [content |-> "none"]
                             ELSE [content |-> "ack", to |-> core[i]["first"]]]
AckRecovered == {i \in Ids : core[i]["second"] # Nobody}
AckLeft == UNION {AckFrames(i, v) : i \in Ids, v \in Vias}
AckOutcome == [i \in Ids |-> [v \in Vias |-> "none"]]
AckEvidence == [i \in Ids |-> {f \in status : f.id = i}]
AckPromised == INSTANCE Delivery WITH
    Messages <- Ids, Contents <- {"ack"}, Targets <- 1..MaxLive,
    Reports <- Facts, Droppable <- {}, request <- AckRequest, recovery <- AckRecovered,
    left <- AckLeft, outcome <- AckOutcome, evidence <- AckEvidence, linked <- {}
AckImplementsDelivery == AckPromised!DeliverySpec

\* Evidence that core recorded is credited in the end, also when the daemon died between
\* core's row and the extension's: the next start reconciles it.
EvidenceIsCredited ==
    \A i \in Ids, v \in Vias : Evident(i, v) ~> Complete(i)
=============================================================================
