------------------------------ MODULE Doorbell ------------------------------
(***************************************************************************)
(* DoorbellService of src/core/doorbell-service.mjs with the two ways a    *)
(* doorbell is carried: the native send to a Claude session (PeerCore.send *)
(* under a derived id) and CodexWake of src/extensions/codex-queue with    *)
(* its reservation file.  Rings of one message are started by the append   *)
(* hook, the sweep, a recipient that came back and the Owner's relink;     *)
(* every await is a point where they interleave, where the alias may come  *)
(* to name another session, the recipient may process the message, or the  *)
(* daemon may crash.  An append that fails leaves the ledger refusing      *)
(* every later one, so it is a crash as far as this module goes.           *)
(***************************************************************************)
EXTENDS Naturals, Sequences, FiniteSets

CONSTANTS Messages, Sessions,
          MaxRelinks,   \* bound: relinks of one message
          MaxMoves,     \* bound: times the alias comes to name another session
          MaxCrashes    \* bound: daemon crashes

MaxRerings == 2         \* MAX_RERINGS of the code, not a bound of the model

ASSUME DoorbellAssumption ==
    /\ MaxRelinks \in Nat /\ MaxMoves \in Nat /\ MaxCrashes \in Nat
    /\ Sessions # {}   \* an alias is recorded with a session of its own

Generations == 0..MaxRelinks

VARIABLES
    kind,      \* of each message's recipient: "claude" or "codex"
    posted,    \* peer_post
    binding,   \* the session of each relink generation, as far as there are any
    intent, retried, alerted, processed, stale,     \* rows that are there or not
    outcomes,  \* doorbell_outcome rows in order
    rerings,   \* doorbell_rering rows
    relinkRung,\* generations with a doorbell_relink_ring row
    carrier,   \* per attempt: what its reservation (a row or a file) says
    rung,      \* every doorbell that really reached a session
    named,     \* the session the alias names now
    job,       \* `running`: the ring of a message in one generation
    claims,    \* doorbell_rering rows whose ring has not started
    relinkDue, \* the relink of this process has yet to ring
    toRaise,   \* the sweep wrote the alert row and has yet to raise its alarm
    raised,    \* the line of alerts.jsonl
    moves, crashes

rowVars == <<posted, binding, intent, retried, alerted, processed, stale,
             outcomes, rerings, relinkRung>>
worldVars == <<kind, named, moves, crashes>>
alarmVars == <<toRaise, raised>>
queueVars == <<claims, relinkDue, alarmVars>>
vars == <<rowVars, worldVars, queueVars, carrier, rung, job>>

Stages == {"none", "first", "retry", "begin",     \* ring
           "send", "write", "wrote",               \* #ringClaude
           "wake", "reserved", "answered", "fallback",  \* wake, #queueFallback
           "record"}
\* An outcome: quiet are the codes that mean nobody is waiting for a ring.
Results == [state : {"sent", "held", "unknown", "not_sent"}, quiet : BOOLEAN]
NoResult == [state |-> "none", quiet |-> FALSE]
At(s) == [stage |-> s, result |-> NoResult]
Idle == At("none")

Init ==
    /\ kind \in [Messages -> {"claude", "codex"}]
    /\ posted = [m \in Messages |-> FALSE] /\ binding = [m \in Messages |-> <<>>]
    /\ intent = [m \in Messages |-> FALSE] /\ retried = [m \in Messages |-> FALSE]
    /\ alerted = [m \in Messages |-> FALSE] /\ processed = [m \in Messages |-> FALSE]
    /\ stale = [m \in Messages |-> FALSE]
    /\ outcomes = [m \in Messages |-> <<>>] /\ rerings = [m \in Messages |-> 0]
    /\ relinkRung = [m \in Messages |-> {}]
    /\ carrier = [m \in Messages |-> [g \in Generations |-> "none"]]
    /\ rung = <<>>
    /\ named = CHOOSE s \in Sessions : TRUE   \* any: sessions are alike
    /\ job = [m \in Messages |-> [g \in Generations |-> Idle]]
    /\ claims = [m \in Messages |-> 0] /\ relinkDue = [m \in Messages |-> FALSE]
    /\ toRaise = [m \in Messages |-> FALSE] /\ raised = [m \in Messages |-> FALSE]
    /\ moves = 0 /\ crashes = 0

\* generationOf and bindingOf: the latest relink, or the accepted row.
Generation(m) == Len(binding[m]) - 1
Binding(m) == binding[m][Len(binding[m])]
Ringing(m) == \E g \in Generations : job[m][g] # Idle

\* authorize, for an attempt of generation g.
Authorized(m, g) == g = Generation(m) /\ ~processed[m] /\ named = Binding(m)
Refusal(m, g) == [state |-> "not_sent", quiet |-> g = Generation(m)]

Loud(state) == [state |-> state, quiet |-> FALSE]
To(m, g, s) == job' = [job EXCEPT ![m][g] = At(s)]
Report(m, g, result) == job' = [job EXCEPT ![m][g] = [stage |-> "record", result |-> result]]
Carry(m, g, what) == carrier' = [carrier EXCEPT ![m][g] = what]
Reaches(m, g, session, how) ==
    rung' = Append(rung, [msg |-> m, gen |-> g, session |-> session, how |-> how])
In(m, g, s) == job[m][g].stage = s

\* Something is handed to a carrier: it gets through and is `told`, or there is
\* no clear answer (the child or its pipe is gone, the timer ends, the server
\* reports an error) whether or not it got through.
Exchange(m, g, session, how, told, unclear) ==
    \/ Reaches(m, g, session, how) /\ told
    \/ Reaches(m, g, session, how) /\ unclear
    \/ UNCHANGED rung /\ unclear

\* What the app-servers say of a thread.  "none": the entry is not usable, no
\* live candidate lists the thread, or it is neither idle nor active;
\* "release": no CLI of the server's release; "turnless": active, with no turn
\* in progress to steer into.
Findings == {"none", "release", "turnless", "idle", "active"}
-----------------------------------------------------------------------------
\* The accepted row; its hook starts the first ring in the same turn.
Post(m) ==
    /\ ~posted[m]
    /\ posted' = [posted EXCEPT ![m] = TRUE]
    /\ binding' = [binding EXCEPT ![m] = <<named>>]
    /\ To(m, 0, "first")
    /\ UNCHANGED <<intent, retried, alerted, processed, stale, outcomes, rerings, relinkRung,
                   worldVars, queueVars, carrier, rung>>

\* The intent is written at most once, decided inside the append.
Intend(m, g) ==
    /\ In(m, g, "first")
    /\ intent' = [intent EXCEPT ![m] = TRUE]
    /\ To(m, g, IF intent[m] THEN "none" ELSE "begin")
    /\ UNCHANGED <<posted, binding, retried, alerted, processed, stale, outcomes, rerings,
                   relinkRung, worldVars, queueVars, carrier, rung>>

NoteRetry(m, g) ==
    /\ In(m, g, "retry")
    /\ retried' = [retried EXCEPT ![m] = TRUE]
    /\ To(m, g, "begin")
    /\ UNCHANGED <<posted, binding, intent, alerted, processed, stale, outcomes, rerings,
                   relinkRung, worldVars, queueVars, carrier, rung>>

\* The attempt is fixed and authorized; a relink since the ring was asked for
\* ends it without a row.
Begin(m, g) ==
    /\ In(m, g, "begin")
    /\ IF g # Generation(m) THEN To(m, g, "none")
       ELSE IF ~Authorized(m, g) THEN Report(m, g, Refusal(m, g))
       ELSE \/ kind[m] = "claude" /\ To(m, g, "send")
            \/ kind[m] = "codex" /\ To(m, g, "wake")
            \/ Report(m, g, [state |-> "not_sent", quiet |-> TRUE])  \* not configured
    /\ UNCHANGED <<rowVars, worldVars, queueVars, carrier, rung>>

\* Claude: an id already reserved is replayed, which sends nothing; only
\* evidence of a written doorbell counts as sent.  A reservation whose wording
\* this build does not know is unknown too.
MutSendReplay(m, g) ==
    /\ In(m, g, "send") /\ carrier[m][g] # "none"
    /\ Report(m, g, Loud("sent"))
    /\ UNCHANGED <<rowVars, worldVars, queueVars, carrier, rung>>
SendReplay(m, g) ==
    /\ In(m, g, "send") /\ carrier[m][g] # "none"
    /\ \/ carrier[m][g] = "written" /\ Report(m, g, Loud("sent"))
       \/ Report(m, g, Loud("unknown"))
    /\ UNCHANGED <<rowVars, worldVars, queueVars, carrier, rung>>

\* The target does not resolve: nothing is reserved.
SendRefused(m, g) ==
    /\ In(m, g, "send") /\ carrier[m][g] = "none"
    /\ Report(m, g, Loud("not_sent"))
    /\ UNCHANGED <<rowVars, worldVars, queueVars, carrier, rung>>

\* expectSessionId: the session that resolved is the one the attempt is for.
MutExpected(m, g, session) == session \in Sessions
Expected(m, g, session) == session = binding[m][g + 1]

\* It resolves (to the session the alias names, or to its successor) and the
\* id is reserved under the send lock.
SendReserve(m, g, session) ==
    /\ In(m, g, "send") /\ carrier[m][g] = "none" /\ Expected(m, g, session)
    /\ Carry(m, g, "reserved")
    /\ job' = [job EXCEPT ![m][g] = [stage |-> "write", result |-> NoResult, to |-> session]]
    /\ UNCHANGED <<rowVars, worldVars, queueVars, rung>>

\* The socket: the bytes leave or do not, and a failure may be reported though
\* they left.
SendWrite(m, g) ==
    /\ In(m, g, "write")
    /\ Exchange(m, g, job[m][g].to, "direct", To(m, g, "wrote"), Report(m, g, Loud("unknown")))
    /\ UNCHANGED <<rowVars, worldVars, queueVars, carrier>>

SendWritten(m, g) ==
    /\ In(m, g, "wrote")
    /\ Carry(m, g, "written")
    /\ Report(m, g, Loud("sent"))
    /\ UNCHANGED <<rowVars, worldVars, queueVars, rung>>

\* A frame of the session that got the line raises the stored status.
Evidence(m, g) ==
    /\ kind[m] = "claude" /\ carrier[m][g] = "reserved"
    /\ \E i \in 1..Len(rung) : rung[i].msg = m /\ rung[i].gen = g
    /\ Carry(m, g, "written")
    /\ UNCHANGED <<rowVars, worldVars, queueVars, rung, job>>

\* Codex: a reservation file that is there answers with its result, or with
\* DELIVERY_UNCERTAIN when it has none.
WakeReplay(m, g) ==
    /\ In(m, g, "wake") /\ carrier[m][g] # "none"
    /\ Report(m, g, Loud(IF carrier[m][g] = "written" THEN "sent" ELSE "unknown"))
    /\ UNCHANGED <<rowVars, worldVars, queueVars, carrier, rung>>

\* The file is created; if it cannot then be written and synced, the ring ends
\* as not_sent although the file stays.
WakeReserve(m, g) ==
    /\ In(m, g, "wake") /\ carrier[m][g] = "none"
    /\ Carry(m, g, "reserved")
    /\ To(m, g, "reserved") \/ Report(m, g, Loud("not_sent"))
    /\ UNCHANGED <<rowVars, worldVars, queueVars, rung>>

\* Nothing was attempted: the reservation is dropped again.
Drop(m, g) == In(m, g, "reserved") /\ Carry(m, g, "none")

\* The servers refuse or do not hold the thread; the queue is next only in the
\* second case.
WakeUnanswered(m, g) ==
    /\ Drop(m, g)
    /\ \E found \in {"none", "release"} :
        IF found = "none" THEN To(m, g, "fallback") ELSE Report(m, g, Loud("not_sent"))
    /\ UNCHANGED <<rowVars, worldVars, queueVars, rung>>

\* A server holds it, and by now the attempt is no longer authorized or there is
\* no turn to steer into.
WakeWithdrawn(m, g) ==
    /\ Drop(m, g)
    /\ \E found \in Findings \ {"none", "release"} :
        IF ~Authorized(m, g) THEN Report(m, g, Refusal(m, g))
        ELSE found = "turnless" /\ To(m, g, "fallback")
    /\ UNCHANGED <<rowVars, worldVars, queueVars, rung>>

\* turn/start on an idle thread, turn/steer into the turn of an active one.
MutWakeAsk(m, g) ==
    /\ In(m, g, "reserved") /\ Authorized(m, g)
    /\ \/ Reaches(m, g, binding[m][g + 1], "direct") /\ To(m, g, "answered") /\ UNCHANGED carrier
       \/ /\ Reaches(m, g, binding[m][g + 1], "direct")
          /\ Report(m, g, Loud("not_sent")) /\ Carry(m, g, "none")
    /\ UNCHANGED <<rowVars, worldVars, queueVars>>
WakeAsk(m, g) ==
    /\ In(m, g, "reserved") /\ Authorized(m, g)
    /\ Exchange(m, g, binding[m][g + 1], "direct", To(m, g, "answered"),
                Report(m, g, Loud("unknown")))
    /\ UNCHANGED <<rowVars, worldVars, queueVars, carrier>>

\* The result goes into the reservation file, or that write fails.
WakeKeep(m, g) ==
    /\ In(m, g, "answered")
    /\ \/ Carry(m, g, "written") /\ Report(m, g, Loud("sent"))
       \/ UNCHANGED carrier /\ Report(m, g, Loud("unknown"))
    /\ UNCHANGED <<rowVars, worldVars, queueVars, rung>>

\* The CLI queue: no pinned release, or the CLI is of another one; or the
\* attempt is no longer authorized.
QueueRefused(m, g) ==
    /\ In(m, g, "fallback")
    /\ \/ Report(m, g, Loud("not_sent"))
       \/ ~Authorized(m, g) /\ Report(m, g, Refusal(m, g))
    /\ UNCHANGED <<rowVars, worldVars, queueVars, carrier, rung>>

\* `codex queue` is run, without any reservation.
Enqueue(m, g) ==
    /\ In(m, g, "fallback") /\ Authorized(m, g)
    /\ Exchange(m, g, binding[m][g + 1], "queue", Report(m, g, Loud("held")),
                Report(m, g, Loud("unknown")))
    /\ UNCHANGED <<rowVars, worldVars, queueVars, carrier>>

Outcome(g, result) == [gen |-> g, state |-> result.state, quiet |-> result.quiet]

Record(m, g) ==
    /\ In(m, g, "record")
    /\ outcomes' = [outcomes EXCEPT ![m] = Append(@, Outcome(g, job[m][g].result))]
    /\ To(m, g, "none")
    /\ UNCHANGED <<posted, binding, intent, retried, alerted, processed, stale, rerings,
                   relinkRung, worldVars, queueVars, carrier, rung>>
-----------------------------------------------------------------------------
\* A visit of the sweep: an unprocessed post nobody is ringing.
Visited(m) == posted[m] /\ ~processed[m] /\ ~Ringing(m)

SweepIntent(m) ==
    /\ Visited(m) /\ ~intent[m]
    /\ To(m, Generation(m), "first")
    /\ UNCHANGED <<rowVars, worldVars, queueVars, carrier, rung>>

SweepRetry(m) ==
    /\ Visited(m) /\ intent[m] /\ outcomes[m] = <<>> /\ ~retried[m]
    /\ To(m, Generation(m), "retry")
    /\ UNCHANGED <<rowVars, worldVars, queueVars, carrier, rung>>

\* RETRY_EXHAUSTED: the retry was cut short as well.
MutSweepExhausted(m) ==
    /\ Visited(m) /\ intent[m] /\ outcomes[m] = <<>> /\ retried[m]
    /\ UNCHANGED vars
SweepExhausted(m) ==
    /\ Visited(m) /\ intent[m] /\ outcomes[m] = <<>> /\ retried[m]
    /\ outcomes' = [outcomes EXCEPT ![m] = <<Outcome(Generation(m), Loud("unknown"))>>]
    /\ UNCHANGED <<posted, binding, intent, retried, alerted, processed, stale, rerings,
                   relinkRung, worldVars, queueVars, carrier, rung, job>>

\* A first outcome that did not ring, or has been unknown for half an hour: the
\* row that this was noticed, once.
SweepAlert(m) ==
    /\ Visited(m) /\ outcomes[m] # <<>> /\ ~alerted[m]
    /\ Head(outcomes[m]).state \in {"not_sent", "unknown"}
    /\ alerted' = [alerted EXCEPT ![m] = TRUE]
    /\ toRaise' = [toRaise EXCEPT ![m] = TRUE]
    /\ UNCHANGED <<posted, binding, intent, retried, processed, stale, outcomes, rerings,
                   relinkRung, worldVars, claims, relinkDue, raised, carrier, rung, job>>

\* The alarm itself; an error on the way is swallowed.
Alarm(m) ==
    /\ toRaise[m]
    /\ toRaise' = [toRaise EXCEPT ![m] = FALSE]
    /\ \E done \in BOOLEAN : raised' = [raised EXCEPT ![m] = @ \/ done]
    /\ UNCHANGED <<rowVars, worldVars, claims, relinkDue, carrier, rung, job>>

\* Refused every time, and the first time not because nobody was waiting.
NeverReached(m) ==
    /\ outcomes[m] # <<>> /\ ~Head(outcomes[m]).quiet
    /\ \A i \in 1..Len(outcomes[m]) : outcomes[m][i].state = "not_sent"

\* eligibleAgain: its session is the one that is back.
MutEligibleAgain(m) ==
    /\ posted[m] /\ ~processed[m] /\ Generation(m) = 0 /\ rerings[m] <= MaxRerings
    /\ NeverReached(m) /\ ~Ringing(m) /\ named = Binding(m)
EligibleAgain(m) ==
    /\ posted[m] /\ ~processed[m] /\ Generation(m) = 0 /\ rerings[m] < MaxRerings
    /\ NeverReached(m) /\ ~Ringing(m) /\ named = Binding(m)

\* ringAgain: the claim is decided inside the append; the ring starts later.
ClaimAgain(m) ==
    /\ EligibleAgain(m)
    /\ rerings' = [rerings EXCEPT ![m] = @ + 1]
    /\ claims' = [claims EXCEPT ![m] = @ + 1]
    /\ UNCHANGED <<posted, binding, intent, retried, alerted, processed, stale, outcomes,
                   relinkRung, worldVars, relinkDue, alarmVars, carrier, rung, job>>

\* A ring that runs under the same key is joined instead.
RingAgain(m) ==
    /\ claims[m] > 0
    /\ claims' = [claims EXCEPT ![m] = @ - 1]
    /\ IF job[m][Generation(m)] = Idle THEN To(m, Generation(m), "begin") ELSE UNCHANGED job
    /\ UNCHANGED <<rowVars, worldVars, relinkDue, alarmVars, carrier, rung>>

\* The Owner binds the message to the session its alias names now.
Relink(m) ==
    /\ posted[m] /\ ~processed[m] /\ named # Binding(m) /\ Generation(m) < MaxRelinks
    /\ binding' = [binding EXCEPT ![m] = Append(@, named)]
    /\ relinkDue' = [relinkDue EXCEPT ![m] = TRUE]
    /\ UNCHANGED <<posted, intent, retried, alerted, processed, stale, outcomes, rerings,
                   relinkRung, worldVars, claims, alarmVars, carrier, rung, job>>

\* ringRelinked: once per generation, by a row of its own.
RingRelinked(m) ==
    /\ relinkDue[m]
    /\ relinkDue' = [relinkDue EXCEPT ![m] = FALSE]
    /\ LET g == Generation(m) IN
       IF processed[m] \/ g \in relinkRung[m]
       THEN UNCHANGED <<relinkRung, job>>
       ELSE /\ relinkRung' = [relinkRung EXCEPT ![m] = @ \cup {g}]
            /\ IF job[m][g] = Idle THEN To(m, g, "begin") ELSE UNCHANGED job
    /\ UNCHANGED <<posted, binding, intent, retried, alerted, processed, stale, outcomes,
                   rerings, worldVars, claims, alarmVars, carrier, rung>>

\* The recipient closes the message; the hook of that row marks a doorbell
\* that still sits in a queue as stale.
Process(m) ==
    /\ posted[m] /\ ~processed[m]
    /\ processed' = [processed EXCEPT ![m] = TRUE]
    /\ stale' = [stale EXCEPT ![m] =
                    outcomes[m] # <<>> /\ Head(outcomes[m]).state = "held"]
    /\ UNCHANGED <<posted, binding, intent, retried, alerted, outcomes, rerings, relinkRung,
                   worldVars, queueVars, carrier, rung, job>>

\* The alias comes to name another session.
Move(session) ==
    /\ session # named /\ moves < MaxMoves
    /\ named' = session /\ moves' = moves + 1
    /\ UNCHANGED <<rowVars, kind, crashes, queueVars, carrier, rung, job>>

\* The daemon dies and the next one starts on the same rows and files.
Crash ==
    /\ crashes < MaxCrashes
    /\ crashes' = crashes + 1
    /\ job' = [m \in Messages |-> [g \in Generations |-> Idle]]
    /\ claims' = [m \in Messages |-> 0] /\ relinkDue' = [m \in Messages |-> FALSE]
    /\ toRaise' = [m \in Messages |-> FALSE]
    /\ UNCHANGED <<rowVars, kind, named, moves, raised, carrier, rung>>

RingStep(m, g) ==
    \/ Intend(m, g) \/ NoteRetry(m, g) \/ Begin(m, g)
    \/ SendReplay(m, g) \/ SendRefused(m, g) \/ SendWrite(m, g) \/ SendWritten(m, g)
    \/ \E s \in Sessions : SendReserve(m, g, s)
    \/ WakeReplay(m, g) \/ WakeReserve(m, g) \/ WakeUnanswered(m, g)
    \/ WakeWithdrawn(m, g) \/ WakeAsk(m, g) \/ WakeKeep(m, g)
    \/ QueueRefused(m, g) \/ Enqueue(m, g) \/ Record(m, g)

SweepStep(m) ==
    \/ SweepIntent(m) \/ SweepRetry(m) \/ SweepExhausted(m) \/ SweepAlert(m) \/ Alarm(m)

Next ==
    \/ \E m \in Messages, g \in Generations : RingStep(m, g) \/ Evidence(m, g)
    \/ \E m \in Messages : \/ SweepStep(m) \/ RingAgain(m) \/ RingRelinked(m)
                           \/ Post(m) \/ ClaimAgain(m) \/ Relink(m) \/ Process(m)
    \/ \E s \in Sessions : Move(s)
    \/ Crash

Spec == Init /\ [][Next]_vars

\* Every await of a ring ends (the socket, the RPC and the CLI have timers) and
\* the sweep runs on start and every five minutes; nobody owes anything else.
FairSpec ==
    /\ Spec
    /\ \A m \in Messages :
        /\ WF_vars(SweepStep(m)) /\ WF_vars(RingAgain(m)) /\ WF_vars(RingRelinked(m))
        /\ \A g \in Generations : WF_vars(RingStep(m, g))
-----------------------------------------------------------------------------
\* The shape of the rows and of a running ring.
TypeOK ==
    /\ \A m \in Messages :
        /\ Len(binding[m]) \in 0..MaxRelinks + 1 /\ posted[m] = (binding[m] # <<>>)
        /\ \A i \in 1..Len(outcomes[m]) :
            outcomes[m][i] \in [gen : Generations, state : {"sent", "held", "unknown", "not_sent"},
                                quiet : BOOLEAN]
        /\ rerings[m] \in 0..MaxRerings /\ claims[m] \in 0..MaxRerings
        /\ \A g \in Generations :
            /\ job[m][g].stage \in Stages /\ carrier[m][g] \in {"none", "reserved", "written"}
            /\ job[m][g].result \in Results \cup {NoResult}
    /\ named \in Sessions /\ moves \in 0..MaxMoves /\ crashes \in 0..MaxCrashes

Rings(m, g, ways) ==
    {i \in 1..Len(rung) : rung[i].msg = m /\ rung[i].gen = g /\ rung[i].how \in ways}

\* However many ask for it and whatever crashes, one attempt puts its doorbell
\* into a session at most once by the ways that hold a reservation (the socket,
\* turn/start, turn/steer).
OneDirectRing == \A m \in Messages, g \in Generations : Cardinality(Rings(m, g, {"direct"})) <= 1

\* A doorbell reaches only the session its generation is bound to, also when
\* the alias moves or the message is relinked while the ring is under way.
RungWhereBound == \A i \in 1..Len(rung) : rung[i].session = binding[rung[i].msg][rung[i].gen + 1]

\* Each attempt is a message of Delivery of its own: its reservation names one session, is dropped
\* only while nothing was tried under it, and its doorbell goes through a socket or a turn at
\* most once, to that session, whatever is rung again, relinked, moved or crashes.  A doorbell
\* in the queue of the Codex CLI is none of these: that way holds no reservation.
Attempted == Messages \X Generations
Promised == INSTANCE Delivery WITH
    Messages <- Attempted, Contents <- {"doorbell"}, Targets <- Sessions,
    Reports <- {}, Droppable <- Attempted,
    request <- [a \in Attempted |->
                   IF carrier[a[1]][a[2]] = "none" THEN [content |-> "none"]
                   ELSE [content |-> "doorbell", to |-> binding[a[1]][a[2] + 1]]],
    recovery <- {},
    left <- {[id |-> i, msg |-> <<rung[i].msg, rung[i].gen>>, via |-> "first",
              to |-> rung[i].session, content |-> "doorbell"] :
                 i \in {k \in DOMAIN rung : rung[k].how = "direct"}},
    outcome <- [a \in Attempted |-> [v \in {"first", "second"} |->
                   IF v = "first" /\ carrier[a[1]][a[2]] = "written" THEN "written" ELSE "none"]],
    evidence <- [a \in Attempted |-> {}], linked <- {}
ImplementsDelivery == Promised!DeliverySpec

\* "sent" in a row means that attempt did ring; a reservation alone, or a
\* success in another generation, never counts.
SentMeansRung ==
    \A m \in Messages : \A i \in 1..Len(outcomes[m]) :
        outcomes[m][i].state = "sent" => Rings(m, outcomes[m][i].gen, {"direct"}) # {}

\* No post is forgotten by the daemon however often its rings are cut short: in
\* the end the rows say that it is processed, that its first doorbell is out, or
\* that the sweep noticed it.  That the alarm behind such a row is raised, and
\* that a relinked generation is rung, are the next two, which do not hold.
EveryPostSettles ==
    \A m \in Messages :
        posted[m] ~> \/ processed[m] \/ alerted[m]
                     \/ outcomes[m] # <<>> /\ Head(outcomes[m]).state \in {"sent", "held"}

\* The header of the service lists the row as "one alarm per message": an alert
\* row has its alarm in the end.
EveryAlertIsRaised == \A m \in Messages : alerted[m] ~> raised[m]

\* ringRelinked: "ring it there now, once, so the session that now holds it
\* knows".  A relinked message is rung where it is bound now, or nobody waits for
\* it any more.
EveryRelinkIsRung ==
    \A m \in Messages : relinkDue[m] ~> processed[m] \/ Generation(m) \in relinkRung[m]

\* The sweep's comment says of its retry: "same id; the wake reservation never
\* sends twice".
NeverRungTwice ==
    \A m \in Messages, g \in Generations : Cardinality(Rings(m, g, {"direct", "queue"})) <= 1
=============================================================================
