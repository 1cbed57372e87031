----------------------------- MODULE CodeReview -----------------------------
(***************************************************************************)
(* The code review extension (src/extensions/code-review/index.mjs) for    *)
(* the rounds of one review: a caller asks for a round, which is sent      *)
(* through PeerCore, and the target answers each with one receipt bound to *)
(* the artifact it was asked about.  The extension's operations run one at *)
(* a time on its chain; any other caller of the daemon may use the same    *)
(* message id for a plain send beside it, and the daemon may crash between *)
(* any two appends.  An append is durable when it returns; a ledger that   *)
(* fails is taken as a crash.                                              *)
(***************************************************************************)
EXTENDS Extension

CONSTANTS Requests, Receipts, Artifacts,
          MAX_ROUNDS,    \* rounds of one review (64 in the code)
          MaxCalls       \* bound: requests and receipts

ASSUME ReviewAssumption ==
    /\ MAX_ROUNDS \in Nat \ {0} /\ MaxLive \in Nat \ {0}
    /\ MaxCalls \in Nat /\ MaxCrashes \in Nat

Verdicts == {"pass", "fail"}
NoSend == [by |-> "nobody", to |-> Nobody]

\* PeerCore's reservation of a request id says who reserved it, and for which process.
VARIABLES rounds,     \* code_review_requested rows, in order
          own,        \* ids with a code_review_request_send_reserved row
          receipts,   \* code_review_receipt_accepted rows, in order
          calls

opVars == <<chain, at, to>>
reviewVars == <<rounds, own, receipts>>
vars == <<up, live, opVars, reviewVars, core, wire, calls, crashes>>

Init ==
    /\ up = TRUE /\ live = 1
    /\ chain = <<>> /\ at = "judge" /\ to = Nobody
    /\ rounds = <<>> /\ own = {} /\ receipts = <<>>
    /\ core = [q \in Requests |-> NoSend] /\ wire = [q \in Requests |-> <<>>]
    /\ calls = 0 /\ crashes = 0

RoundOf(q) == {n \in DOMAIN rounds : rounds[n].request = q}
AnswersTo(q) == {n \in DOMAIN receipts : receipts[n].request = q}
Recorded(r) == \E n \in DOMAIN receipts : receipts[n].id = r

\* The core row and the extension's row are of one and the same send.
OwnReservation(q) == q \in own /\ core[q].by = "review"

\* The state a caller is shown: only the newest round can pass.
View(q) ==
    IF RoundOf(q) = {} THEN "not_found"
    ELSE IF rounds[Len(rounds)].request # q THEN "superseded"
    ELSE IF AnswersTo(q) = {} THEN "awaiting_receipt"
    ELSE IF \E n \in AnswersTo(q) : receipts[n].verdict = "pass" THEN "passed" ELSE "failed"

Ask(op) ==
    /\ Enqueue(op)
    /\ calls < MaxCalls /\ calls' = calls + 1
    /\ UNCHANGED <<up, live, at, to, reviewVars, core, wire, crashes>>

It == Head(chain).request

Go(step) == at' = step /\ UNCHANGED <<chain, to>>
Done == chain' = Tail(chain) /\ at' = "judge" /\ to' = Nobody
-----------------------------------------------------------------------------
AskRound(q, artifact) == Ask([kind |-> "request", request |-> q, artifact |-> artifact])

\* A caller repeats a request: other content or a send of somebody else is a conflict, a send
\* of its own is replayed, and one that PeerCore never heard of is sent now.
Repeat ==
    /\ Running({"request"}, "judge") /\ RoundOf(It) # {}
    /\ IF /\ \A n \in RoundOf(It) : rounds[n].artifact = Head(chain).artifact
          /\ core[It] = NoSend /\ It \notin own
         THEN Go("send") ELSE Done
    /\ UNCHANGED <<up, live, reviewVars, core, wire, calls, crashes>>

\* A new round needs an id that nobody used and a place below the limit, and a target that
\* is on the table, which it may be or not.
Opens(q) == core[q] = NoSend /\ Len(rounds) < MAX_ROUNDS

MutOpenRound ==
    /\ Running({"request"}, "judge")
    /\ IF Opens(It)
         THEN rounds' = Append(rounds, [request |-> It, artifact |-> Head(chain).artifact])
              /\ Go("send")
         ELSE Done /\ UNCHANGED rounds
    /\ UNCHANGED <<up, live, own, receipts, core, wire, calls, crashes>>

OpenRound ==
    /\ Running({"request"}, "judge") /\ RoundOf(It) = {}
    /\ \/ /\ Opens(It)
          /\ rounds' = Append(rounds, [request |-> It, artifact |-> Head(chain).artifact])
          /\ Go("send")
       \/ Done /\ UNCHANGED rounds
    /\ UNCHANGED <<up, live, own, receipts, core, wire, calls, crashes>>

\* PeerCore: an id that is reserved by now is a conflict; otherwise the target is resolved.
Send ==
    /\ Running({"request"}, "send")
    /\ \/ core[It] = NoSend /\ to' = live /\ at' = "reserve" /\ UNCHANGED chain
       \/ Done
    /\ UNCHANGED <<up, live, reviewVars, core, wire, calls, crashes>>

Free(q) == core[q] = NoSend

MutReserve ==
    /\ Running({"request"}, "reserve")
    /\ IF Free(It)
         THEN core' = [core EXCEPT ![It] = [by |-> "review", to |-> to]] /\ Go("write")
         ELSE Done /\ UNCHANGED core
    /\ UNCHANGED <<up, live, reviewVars, wire, calls, crashes>>

Reserve ==
    /\ Running({"request"}, "reserve")
    /\ IF Free(It)
         THEN core' = [core EXCEPT ![It] = [by |-> "review", to |-> to]] /\ Go("note")
         ELSE Done /\ UNCHANGED core
    /\ UNCHANGED <<up, live, reviewVars, wire, calls, crashes>>

\* afterReservation: the extension's own row, before anything is written.
Note ==
    /\ Running({"request"}, "note")
    /\ own' = own \cup {It} /\ Go("write")
    /\ UNCHANGED <<up, live, rounds, receipts, core, wire, calls, crashes>>

\* The frame reaches the process it is reserved for, or nobody; nothing is tried again.
Write ==
    /\ Running({"request"}, "write")
    /\ \/ to = live /\ wire' = [wire EXCEPT ![It] = Append(@, to)]
       \/ UNCHANGED wire
    /\ Done
    /\ UNCHANGED <<up, live, reviewVars, core, calls, crashes>>

\* Another caller sends a plain message under the same id, off the chain.
OtherSend(q) ==
    /\ up /\ core[q] = NoSend
    /\ core' = [core EXCEPT ![q] = [by |-> "other", to |-> live]]
    /\ UNCHANGED <<up, live, opVars, reviewVars, wire, calls, crashes>>
-----------------------------------------------------------------------------
\* A process writes a receipt, perhaps one that was not asked, or about another artifact.
ReceiptFrame(r, q, artifact, verdict, p) ==
    /\ p \in 1..live
    /\ Ask([kind |-> "receipt", request |-> q, id |-> r, artifact |-> artifact,
            verdict |-> verdict, by |-> p])

MutBound(op) ==
    /\ RoundOf(op.request) # {} /\ OwnReservation(op.request)
    /\ op.by = core[op.request].to

\* It counts if it answers a round of this extension's own sending, comes from the process
\* the request is reserved for, and names the round's artifact.
Bound(op) ==
    /\ RoundOf(op.request) # {} /\ OwnReservation(op.request)
    /\ op.by = core[op.request].to
    /\ \A n \in RoundOf(op.request) : rounds[n].artifact = op.artifact

\* One receipt per request and per receipt id; the others are recorded as they are.
Accept ==
    /\ Running({"receipt"}, "judge")
    /\ LET op == Head(chain) IN
       receipts' = IF Bound(op) /\ ~Recorded(op.id) /\ AnswersTo(op.request) = {}
                     THEN Append(receipts, [id |-> op.id, request |-> op.request, by |-> op.by,
                                            artifact |-> op.artifact, verdict |-> op.verdict])
                     ELSE receipts
    /\ Done
    /\ UNCHANGED <<up, live, rounds, own, core, wire, calls, crashes>>
-----------------------------------------------------------------------------
Replace ==
    /\ live < MaxLive /\ live' = live + 1
    /\ UNCHANGED <<up, opVars, reviewVars, core, wire, calls, crashes>>

Crash ==
    /\ up /\ crashes < MaxCrashes
    /\ up' = FALSE /\ crashes' = crashes + 1
    /\ chain' = <<>> /\ at' = "judge" /\ to' = Nobody
    /\ UNCHANGED <<live, reviewVars, core, wire, calls>>

Restart ==
    /\ ~up /\ up' = TRUE
    /\ UNCHANGED <<live, opVars, reviewVars, core, wire, calls, crashes>>

Next ==
    \/ \E q \in Requests, artifact \in Artifacts : AskRound(q, artifact)
    \/ Repeat \/ OpenRound \/ Send \/ Reserve \/ Note \/ Write
    \/ \E q \in Requests : OtherSend(q)
    \/ \E r \in Receipts, q \in Requests, artifact \in Artifacts, verdict \in Verdicts,
           p \in 1..MaxLive : ReceiptFrame(r, q, artifact, verdict, p)
    \/ Accept \/ Replace \/ Crash \/ Restart

Spec == Init /\ [][Next]_vars
-----------------------------------------------------------------------------
Ops ==
    [kind : {"request"}, request : Requests, artifact : Artifacts]
    \cup [kind : {"receipt"}, request : Requests, id : Receipts, artifact : Artifacts,
          verdict : Verdicts, by : 1..MaxLive]

\* Every variable has its type, and no request id opens two rounds.
TypeOK ==
    /\ up \in BOOLEAN /\ live \in 1..MaxLive
    /\ chain \in Seq(Ops) /\ to \in 0..MaxLive
    /\ at \in {"judge", "send", "reserve", "note", "write"}
    /\ rounds \in Seq([request : Requests, artifact : Artifacts]) /\ Len(rounds) <= MAX_ROUNDS
    /\ \A m, n \in DOMAIN rounds : rounds[m].request = rounds[n].request => m = n
    /\ core \in [Requests -> [by : {"nobody", "review", "other"}, to : 0..MaxLive]]
    /\ own \subseteq Requests /\ wire \in [Requests -> Seq(1..MaxLive)]
    /\ receipts \in Seq([id : Receipts, request : Requests, by : 1..MaxLive,
                         artifact : Artifacts, verdict : Verdicts])
    /\ calls \in 0..MaxCalls /\ crashes \in 0..MaxCrashes

\* A request is written once, to the process that PeerCore and the extension both recorded,
\* and never under an id that another caller reserved first, whatever is retried or crashes.
RequestSentOnce ==
    \A q \in Requests : wire[q] # <<>> =>
        wire[q] = <<core[q].to>> /\ OwnReservation(q) /\ RoundOf(q) # {}

\* A verdict is bound: each request and each receipt id has one accepted receipt at most, from
\* the process its request is reserved for and about the artifact of its round, and a review
\* passes only on the artifact of its newest round.
VerdictIsBound ==
    /\ \A m, n \in DOMAIN receipts :
           receipts[m].request = receipts[n].request \/ receipts[m].id = receipts[n].id => m = n
    /\ \A n \in DOMAIN receipts :
           /\ receipts[n].by = core[receipts[n].request].to
           /\ \E k \in RoundOf(receipts[n].request) : rounds[k].artifact = receipts[n].artifact
    /\ \A q \in Requests : View(q) = "passed" =>
           \E n \in AnswersTo(q) : receipts[n].verdict = "pass"
               /\ receipts[n].artifact = rounds[Len(rounds)].artifact

\* A request is a message of Delivery: the id belongs to whoever reserves it first, the
\* extension or another caller, and what leaves under it is a review only if it is reserved
\* for one, once, to the process it is reserved for.
RequestFrames(q) ==
    {[id |-> n, msg |-> q, via |-> "first", to |-> wire[q][n], content |-> "review"] :
        n \in DOMAIN wire[q]}
Request == [q \in Requests |-> IF core[q] = NoSend THEN [content |-> "none"]
                               ELSE [content |-> core[q].by, to |-> core[q].to]]
Left == UNION {RequestFrames(q) : q \in Requests}
Outcome == [q \in Requests |-> [v \in {"first", "second"} |-> "none"]]
Promised == INSTANCE Delivery WITH
    Messages <- Requests, Contents <- {"review", "other"}, Targets <- 1..MaxLive,
    Reports <- {}, Droppable <- {}, request <- Request, recovery <- {}, left <- Left,
    outcome <- Outcome, evidence <- [q \in Requests |-> {}], linked <- {}
ImplementsDelivery == Promised!DeliverySpec
=============================================================================
