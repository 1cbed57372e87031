------------------------------ MODULE Receiver ------------------------------
(***************************************************************************)
(* The receiving half of the Claude adapter                                *)
(* (src/adapters/claude-native-v1/receiver.mjs) over the lives of the      *)
(* daemons of one state directory, one at a time: the start that reclaims  *)
(* what a dead daemon left, the socket, the key and the registry row it    *)
(* publishes, the frames of its connections on their chains, and the stop  *)
(* that drains them, reports what it could not record and takes its files  *)
(* away.  The session directory is shared: another program may get the pid *)
(* of a dead daemon and write its own row under that number.               *)
(***************************************************************************)
EXTENDS Naturals, FiniteSets

CONSTANTS Pids, Conns,
          MaxFrames,   \* bound: frames sent on one connection
          MaxStarts,   \* bound: daemons started on the directory
          MaxTalks     \* bound: senders connect to the first so many of them

ASSUME ReceiverAssumption == MaxFrames \in Nat /\ MaxStarts \in Nat /\ MaxTalks \in Nat

Nobody == 0
Other == MaxStarts + 1          \* a row that another program wrote
Lives == 1..MaxStarts           \* daemons, numbered as they start
Reasons == {"none", "clean", "unclean", "refused", "broken", "killed"}

VARIABLES
    phase, gen, pid,     \* the daemon that runs: where it is, its number and pid
    pidOf,               \* the pid each daemon had
    socket, row, key,    \* whose socket file there is; per pid whose row and key
    todo, claim,         \* rows left to look at; the row being reclaimed
    foreign,             \* pids other programs hold now
    ledger,              \* "ok", "poisoned" (appends fail) or "stuck" (they never settle)
    conn,                \* per connection: its stage and how far its frames are
    fate,                \* per connection and frame: the rows there are about it
    drain, stranded, missed,  \* the drain, the frames to report, "one was not recorded"
    removing,            \* artifacts of its own the closing receiver still has
    exit,                \* how the last daemon ended
    torn, recycled       \* history: lives that died without a row, and whose pid was taken since

fileVars == <<socket, row, key>>
lifeVars == <<gen, pid, pidOf>>
startVars == <<todo, claim>>
frameVars == <<conn, fate>>
closeVars == <<drain, stranded, missed, removing>>
historyVars == <<torn, recycled>>
vars == <<phase, lifeVars, fileVars, startVars, foreign, ledger, frameVars, closeVars,
          exit, historyVars>>

NoClaim == [pid |-> Nobody, raw |-> Nobody, at |-> 0]
NoConn == [stage |-> "none", sent |-> 0, read |-> 0, done |-> 0, refusing |-> FALSE]
NoDrain == [stage |-> "none", quiet |-> 0, seen |-> 0, look |-> [c \in Conns |-> 0]]
Phases == {"off", "reclaim", "publish", "serving", "stopping",
           "draining", "reporting", "removing"}

Init ==
    /\ phase = "off" /\ gen = 0 /\ pid = Nobody /\ pidOf = [g \in Lives |-> Nobody]
    /\ socket = Nobody /\ row = [p \in Pids |-> Nobody] /\ key = [p \in Pids |-> Nobody]
    /\ todo = {} /\ claim = NoClaim /\ foreign = {} /\ ledger = "ok"
    /\ conn = [c \in Conns |-> NoConn]
    /\ fate = [c \in Conns |-> [i \in 1..MaxFrames |-> {}]]
    /\ drain = NoDrain /\ stranded = {} /\ missed = FALSE /\ removing = {}
    /\ exit = "none" /\ torn = {} /\ recycled = {}

Listening == phase \in {"publish", "serving", "stopping", "draining"}
Running == Listening \/ phase \in {"reporting", "removing"}   \* its chains run

\* The process ends and leaves its files as they are.
End(reason) ==
    /\ phase' = "off" /\ exit' = reason /\ claim' = NoClaim /\ todo' = {}
    /\ drain' = NoDrain /\ stranded' = {} /\ missed' = FALSE /\ removing' = {}
    /\ torn' = IF socket = gen /\ row[pid] # gen THEN torn \cup {gen} ELSE torn
    /\ UNCHANGED <<lifeVars, fileVars, foreign, frameVars, recycled>>
-----------------------------------------------------------------------------
Former(p) == {g \in 1..gen : pidOf[g] = p}

\* A daemon starts: under some free pid it lists the registry.
Start(p) ==
    /\ phase = "off" /\ gen < MaxStarts /\ p \notin foreign
    /\ phase' = "reclaim" /\ gen' = gen + 1 /\ pid' = p
    /\ pidOf' = [pidOf EXCEPT ![gen + 1] = p]
    /\ todo' = {q \in Pids : row[q] # Nobody}
    /\ ledger' = "ok" /\ exit' = "none" /\ recycled' = recycled \cup Former(p)
    /\ conn' = [c \in Conns |-> NoConn]
    /\ fate' = [c \in Conns |-> [i \in 1..MaxFrames |-> {}]]
    /\ UNCHANGED <<fileVars, claim, foreign, closeVars, torn>>

\* recordedProcessIsDead: only a pid nobody has.
Dead(p) == p # pid /\ p \notin foreign

\* A row of another program, or whose pid somebody has, is left alone.
SkipRow(p) ==
    /\ phase = "reclaim" /\ claim = NoClaim /\ p \in todo
    /\ row[p] \notin Lives \/ ~Dead(p)
    /\ todo' = todo \ {p}
    /\ UNCHANGED <<phase, lifeVars, fileVars, claim, foreign, ledger, frameVars, closeVars,
                   exit, historyVars>>

\* What reclaimRow does, in its order.
Order == <<"socket", "reread", "row", "key">>
At(step) == claim # NoClaim /\ Order[claim.at] = step
Onwards == IF claim.at = 4 THEN NoClaim ELSE [claim EXCEPT !.at = @ + 1]

ClaimRow(p) ==
    /\ phase = "reclaim" /\ claim = NoClaim /\ p \in todo
    /\ row[p] \in Lives /\ Dead(p)
    /\ todo' = todo \ {p}
    /\ claim' = [pid |-> p, raw |-> row[p], at |-> 1]
    /\ UNCHANGED <<phase, lifeVars, fileVars, foreign, ledger, frameVars, closeVars, exit,
                   historyVars>>

\* The checks of the socket (owner, mode, nobody answers, same inode) hold in a
\* lane whose only daemon is the one that starts.
ReclaimSocket ==
    /\ At("socket")
    /\ socket' = Nobody /\ claim' = Onwards
    /\ UNCHANGED <<phase, lifeVars, row, key, todo, foreign, ledger, frameVars, closeVars,
                   exit, historyVars>>

\* The row must be what was read; if not, the rest of this row is skipped.
ReclaimReread ==
    /\ At("reread")
    /\ claim' = IF row[claim.pid] = claim.raw THEN Onwards ELSE NoClaim
    /\ UNCHANGED <<phase, lifeVars, fileVars, todo, foreign, ledger, frameVars, closeVars,
                   exit, historyVars>>

ReclaimUnlink ==
    /\ At("row")
    /\ row' = [row EXCEPT ![claim.pid] = Nobody] /\ claim' = Onwards
    /\ UNCHANGED <<phase, lifeVars, socket, key, todo, foreign, ledger, frameVars, closeVars,
                   exit, historyVars>>

ReclaimKey ==
    /\ At("key")
    /\ key' = [key EXCEPT ![claim.pid] = IF @ = claim.raw THEN Nobody ELSE @]
    /\ claim' = NoClaim
    /\ UNCHANGED <<phase, lifeVars, socket, row, todo, foreign, ledger, frameVars, closeVars,
                   exit, historyVars>>

Reclaim == ReclaimSocket \/ ReclaimReread \/ ReclaimUnlink \/ ReclaimKey

\* A socket file that is still there has no owner proven dead: no start.
RefuseStart ==
    /\ phase = "reclaim" /\ todo = {} /\ claim = NoClaim /\ socket # Nobody
    /\ End("refused")
    /\ UNCHANGED ledger

Listen ==
    /\ phase = "reclaim" /\ todo = {} /\ claim = NoClaim /\ socket = Nobody
    /\ socket' = gen /\ phase' = "publish"
    /\ UNCHANGED <<lifeVars, row, key, startVars, foreign, ledger, frameVars, closeVars, exit,
                   historyVars>>

\* The key first, then the row that makes others look for it.
PublishKey ==
    /\ phase = "publish" /\ key[pid] # gen
    /\ key' = [key EXCEPT ![pid] = gen]
    /\ UNCHANGED <<phase, lifeVars, socket, row, startVars, foreign, ledger, frameVars,
                   closeVars, exit, historyVars>>

MutPublishRow ==
    /\ phase = "publish" /\ row[pid] # gen
    /\ row' = [row EXCEPT ![pid] = gen]
    /\ phase' = IF key[pid] = gen THEN "serving" ELSE "publish"
    /\ UNCHANGED <<lifeVars, socket, key, startVars, foreign, ledger, frameVars, closeVars,
                   exit, historyVars>>
PublishRow ==
    /\ phase = "publish" /\ key[pid] = gen
    /\ row' = [row EXCEPT ![pid] = gen] /\ phase' = "serving"
    /\ UNCHANGED <<lifeVars, socket, key, startVars, foreign, ledger, frameVars, closeVars,
                   exit, historyVars>>

\* A write of either fails: the start is over.
PublishFails ==
    /\ phase = "publish"
    /\ End("broken")
    /\ UNCHANGED ledger
-----------------------------------------------------------------------------
\* A sender finds the socket: first in the listen backlog, then accepted.
Connect(c) ==
    /\ Listening /\ conn[c].stage = "none" /\ gen <= MaxTalks
    /\ conn' = [conn EXCEPT ![c].stage = "backlog"]
    /\ UNCHANGED <<phase, lifeVars, fileVars, startVars, foreign, ledger, fate, closeVars,
                   exit, historyVars>>

Accept(c) ==
    /\ Listening /\ conn[c].stage = "backlog"
    /\ conn' = [conn EXCEPT ![c].stage = "open"]
    /\ UNCHANGED <<phase, lifeVars, fileVars, startVars, foreign, ledger, fate, closeVars,
                   exit, historyVars>>

SendFrame(c) ==
    /\ conn[c].stage \in {"backlog", "open"} /\ conn[c].sent < MaxFrames
    /\ conn' = [conn EXCEPT ![c].sent = @ + 1]
    /\ UNCHANGED <<phase, lifeVars, fileVars, startVars, foreign, ledger, fate, closeVars,
                   exit, historyVars>>

\* A complete line: a frame that is accepted goes on the connection's chain.
ReadFrame(c) ==
    /\ Running /\ conn[c].stage = "open" /\ conn[c].read < conn[c].sent
    /\ conn' = [conn EXCEPT ![c].read = @ + 1]
    /\ UNCHANGED <<phase, lifeVars, fileVars, startVars, foreign, ledger, fate, closeVars,
                   exit, historyVars>>

\* Too large, unparsable, without a nameable writer or a valid token: the
\* report goes on the chain and the connection is destroyed.
RefuseFrame(c) ==
    /\ Running /\ conn[c].stage = "open" /\ conn[c].read < conn[c].sent
    /\ conn' = [conn EXCEPT ![c].stage = "gone", ![c].refusing = TRUE]
    /\ UNCHANGED <<phase, lifeVars, fileVars, startVars, foreign, ledger, fate, closeVars,
                   exit, historyVars>>

Note(c, i, what) == fate' = [fate EXCEPT ![c][i] = @ \cup {what}]

\* The next frame of the chain settles: its rows are written, or a handler
\* rejects it, its refusal is written if the ledger takes it, and the
\* connection ends.
HandleFrame(c) ==
    /\ Running /\ conn[c].done < conn[c].read /\ ledger # "stuck"
    /\ \/ /\ ledger = "ok" /\ Note(c, conn[c].done + 1, "recorded")
          /\ conn' = [conn EXCEPT ![c].done = @ + 1]
       \/ /\ IF ledger = "ok" THEN Note(c, conn[c].done + 1, "refused") ELSE UNCHANGED fate
          /\ conn' = [conn EXCEPT ![c].done = @ + 1, ![c].stage = "gone"]
    /\ UNCHANGED <<phase, lifeVars, fileVars, startVars, foreign, ledger, closeVars, exit,
                   historyVars>>

ReportRefusal(c) ==
    /\ Running /\ conn[c].refusing /\ conn[c].done = conn[c].read /\ ledger # "stuck"
    /\ conn' = [conn EXCEPT ![c].refusing = FALSE]
    /\ UNCHANGED <<phase, lifeVars, fileVars, startVars, foreign, ledger, fate, closeVars,
                   exit, historyVars>>

\* The sender's hold ends, or it closes.
HangUp(c) ==
    /\ conn[c].stage \in {"backlog", "open"}
    /\ conn' = [conn EXCEPT ![c].stage = "gone"]
    /\ UNCHANGED <<phase, lifeVars, fileVars, startVars, foreign, ledger, fate, closeVars,
                   exit, historyVars>>

LedgerFails(how) ==
    /\ Running /\ ledger = "ok"
    /\ ledger' = how
    /\ UNCHANGED <<phase, lifeVars, fileVars, startVars, foreign, frameVars, closeVars, exit,
                   historyVars>>
-----------------------------------------------------------------------------
\* SIGTERM, SIGINT or daemon_shutdown: first the row of it is awaited.
Sigterm ==
    /\ phase = "serving"
    /\ phase' = "stopping"
    /\ UNCHANGED <<lifeVars, fileVars, startVars, foreign, ledger, frameVars, closeVars, exit,
                   historyVars>>

Accepted == {c \in Conns : conn[c].stage \notin {"none", "backlog"}}

\* daemon_stopping is written or refused; then everything closes at once.
BeginClose ==
    /\ phase = "stopping" /\ ledger # "stuck"
    /\ phase' = "draining"
    /\ drain' = [NoDrain EXCEPT !.stage = "sleep", !.seen = Cardinality(Accepted)]
    /\ UNCHANGED <<lifeVars, fileVars, startVars, foreign, ledger, frameVars, stranded, missed,
                   removing, exit, historyVars>>

\* A poll: after its sleep the drain takes the chains there are and waits.
Look ==
    /\ phase = "draining" /\ drain.stage = "sleep" /\ drain.quiet < 2
    /\ drain' = [drain EXCEPT !.stage = "settle", !.look = [c \in Conns |-> conn[c].read]]
    /\ UNCHANGED <<phase, lifeVars, fileVars, startVars, foreign, ledger, frameVars, stranded,
                   missed, removing, exit, historyVars>>

Pending(c) == conn[c].done < conn[c].read
Busy == Cardinality(Accepted) # drain.seen \/ \E c \in Conns : Pending(c)

MutJudge ==
    /\ phase = "draining" /\ drain.stage = "settle"
    /\ \A c \in Conns : conn[c].done >= drain.look[c]
    /\ drain' = [drain EXCEPT !.stage = "settle", !.seen = Cardinality(Accepted),
                              !.quiet = IF Busy THEN 0 ELSE @ + 1]
    /\ UNCHANGED <<phase, lifeVars, fileVars, startVars, foreign, ledger, frameVars, stranded,
                   missed, removing, exit, historyVars>>
Judge ==
    /\ phase = "draining" /\ drain.stage = "settle"
    /\ \A c \in Conns : conn[c].done >= drain.look[c]
    /\ drain' = [drain EXCEPT !.stage = "sleep", !.seen = Cardinality(Accepted),
                              !.quiet = IF Busy THEN 0 ELSE @ + 1]
    /\ UNCHANGED <<phase, lifeVars, fileVars, startVars, foreign, ledger, frameVars, stranded,
                   missed, removing, exit, historyVars>>

\* strandedOrdinals of every connection.
MutUnfinished == {}
Unfinished ==
    UNION {{<<c, i>> : i \in conn[c].done + 1..conn[c].read} : c \in Conns}

Destroyed == [c \in Conns |-> [conn[c] EXCEPT !.stage = IF @ = "none" THEN @ ELSE "gone"]]
Artifacts == {"socket", "row", "key"}

\* Two quiet polls or the bound end the drain, and the server stops listening.
\* With nothing to report the connections go in the same turn.
Drained ==
    /\ phase = "draining" /\ stranded' = Unfinished /\ missed' = (Unfinished # {})
    /\ IF Unfinished = {}
       THEN phase' = "removing" /\ removing' = Artifacts /\ conn' = Destroyed
       ELSE phase' = "reporting" /\ UNCHANGED <<removing, conn>>
    /\ drain' = NoDrain
    /\ UNCHANGED <<lifeVars, fileVars, startVars, foreign, ledger, fate, exit, historyVars>>

DrainQuiet == drain.quiet = 2 /\ drain.stage = "sleep" /\ Drained
MutDrainBound == drain.quiet = 2 /\ Drained
DrainBound == drain.stage \in {"sleep", "settle"} /\ Drained

\* One report after another, each confirmed or given up when the time is over.
ReportStranded(c, i) ==
    /\ phase = "reporting" /\ <<c, i>> \in stranded
    /\ stranded' = stranded \ {<<c, i>>}
    /\ \/ ledger = "ok" /\ Note(c, i, "named")
       \/ UNCHANGED fate
    /\ UNCHANGED <<phase, lifeVars, fileVars, startVars, foreign, ledger, conn, drain, missed,
                   removing, exit, historyVars>>

Destroy ==
    /\ phase = "reporting" /\ stranded = {}
    /\ phase' = "removing" /\ removing' = Artifacts /\ conn' = Destroyed
    /\ UNCHANGED <<lifeVars, fileVars, startVars, foreign, ledger, fate, drain, stranded,
                   missed, exit, historyVars>>

\* The three files go in any order, each only if it is still this daemon's.
Remove(a) ==
    /\ phase = "removing" /\ a \in removing
    /\ removing' = removing \ {a}
    /\ socket' = IF a = "socket" /\ socket = gen THEN Nobody ELSE socket
    /\ row' = IF a = "row" /\ row[pid] = gen THEN [row EXCEPT ![pid] = Nobody] ELSE row
    /\ key' = IF a = "key" /\ key[pid] = gen THEN [key EXCEPT ![pid] = Nobody] ELSE key
    /\ UNCHANGED <<phase, lifeVars, startVars, foreign, ledger, frameVars, drain, stranded,
                   missed, exit, historyVars>>

RemoveFails(a) ==
    /\ phase = "removing" /\ a \in removing
    /\ removing' = removing \ {a} /\ missed' = TRUE
    /\ UNCHANGED <<phase, lifeVars, fileVars, startVars, foreign, ledger, frameVars, drain,
                   stranded, exit, historyVars>>

\* The exit code says whether everything was in order, the ledger's end too.
Leave ==
    /\ phase = "removing" /\ removing = {}
    /\ End(IF missed \/ ledger = "stuck" THEN "unclean" ELSE "clean")
    /\ UNCHANGED ledger

Kill == phase # "off" /\ End("killed") /\ UNCHANGED ledger

\* Another program gets a free pid, writes a row under it, and ends.
ForeignStart(p) ==
    /\ p \notin foreign /\ (p # pid \/ phase = "off")
    /\ foreign' = foreign \cup {p} /\ recycled' = recycled \cup Former(p)
    /\ UNCHANGED <<phase, lifeVars, fileVars, startVars, ledger, frameVars, closeVars, exit, torn>>

ForeignRow(p) ==
    /\ p \in foreign /\ row[p] # Other
    /\ row' = [row EXCEPT ![p] = Other]
    /\ UNCHANGED <<phase, lifeVars, socket, key, startVars, foreign, ledger, frameVars,
                   closeVars, exit, historyVars>>

ForeignEnd(p) ==
    /\ p \in foreign
    /\ foreign' = foreign \ {p}
    /\ row' = [row EXCEPT ![p] = IF @ = Other THEN Nobody ELSE @]
    /\ UNCHANGED <<phase, lifeVars, socket, key, startVars, ledger, frameVars, closeVars,
                   exit, historyVars>>

ConnStep(c) == Accept(c) \/ ReadFrame(c) \/ RefuseFrame(c) \/ HandleFrame(c) \/ ReportRefusal(c)
StartStep == Reclaim \/ RefuseStart \/ Listen \/ PublishKey \/ PublishRow \/ PublishFails
CloseStep ==
    \/ Look \/ Judge \/ DrainQuiet \/ DrainBound \/ Destroy \/ Leave
    \/ \E c \in Conns, i \in 1..MaxFrames : ReportStranded(c, i)
    \/ \E a \in Artifacts : Remove(a) \/ RemoveFails(a)

Next ==
    \/ \E p \in Pids : \/ Start(p) \/ SkipRow(p) \/ ClaimRow(p)
                       \/ ForeignStart(p) \/ ForeignRow(p) \/ ForeignEnd(p)
    \/ \E c \in Conns : ConnStep(c) \/ Connect(c) \/ SendFrame(c) \/ HangUp(c)
    \/ \E how \in {"poisoned", "stuck"} : LedgerFails(how)
    \/ StartStep \/ Sigterm \/ BeginClose \/ CloseStep \/ Kill

Spec == Init /\ [][Next]_vars

\* Every timer of a stop fires and every system call of it returns; an append
\* settles unless the ledger is stuck.  Nothing is owed by senders or signals.
FairSpec ==
    /\ Spec
    /\ WF_vars(BeginClose)
    /\ WF_vars(DrainBound) /\ WF_vars(Destroy) /\ WF_vars(Leave)
    /\ WF_vars(\E c \in Conns, i \in 1..MaxFrames : ReportStranded(c, i))
    /\ WF_vars(\E a \in Artifacts : Remove(a) \/ RemoveFails(a))
-----------------------------------------------------------------------------
\* The shape of the daemon, its files and its connections.
TypeOK ==
    /\ phase \in Phases /\ gen \in 0..MaxStarts /\ pid \in Pids \cup {Nobody}
    /\ socket \in 0..MaxStarts /\ key \in [Pids -> 0..MaxStarts] /\ row \in [Pids -> 0..Other]
    /\ todo \subseteq Pids /\ foreign \subseteq Pids /\ recycled \subseteq Lives
    /\ ledger \in {"ok", "poisoned", "stuck"} /\ exit \in Reasons /\ torn \subseteq Lives
    /\ claim.at \in 0..4 /\ removing \subseteq Artifacts /\ missed \in BOOLEAN
    /\ drain.quiet \in 0..2 /\ drain.stage \in {"none", "sleep", "settle"}
    /\ \A c \in Conns :
        /\ conn[c].stage \in {"none", "backlog", "open", "gone"}
        /\ conn[c].done <= conn[c].read /\ conn[c].read <= conn[c].sent
        /\ \A i \in 1..MaxFrames : fate[c][i] \subseteq {"recorded", "refused", "named"}

\* Exit 0 means that the stop left nothing undone: the socket, the row and the
\* key are gone, and unless the ledger refused its rows there is one about each
\* frame it accepted, also about those that arrived while it stopped.
CleanMeansDone ==
    exit = "clean" =>
        /\ socket # gen /\ row[pid] # gen /\ key[pid] # gen
        /\ ledger = "ok" => \A c \in Conns : \A i \in 1..conn[c].read : fate[c][i] # {}

\* A reclaim takes neither too much nor too little.  While a daemon serves,
\* whoever reads its row finds the socket and the key that belong to it; and a
\* start is refused only for a socket whose owner died without its row, or
\* whose pid somebody has had since, never for another kill or for a reclaim
\* that was itself killed half way.
ReclaimIsExact ==
    /\ Listening /\ row[pid] = gen => socket = gen /\ key[pid] = gen
    /\ exit = "refused" => socket \in torn \cup recycled

\* Once the receiver closes, the process ends, even if no append ever settles
\* again.
CloseEnds == phase = "draining" ~> phase = "off"
=============================================================================
