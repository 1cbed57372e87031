-------------------------------- MODULE Mail --------------------------------
(***************************************************************************)
(* The mail of src/core/posts.mjs: acceptPost with the spool of            *)
(* inbound-spool.mjs behind it, the answers and acknowledgements of        *)
(* src/daemon.mjs, the receipts of receipts.mjs, the deletions of          *)
(* retention.mjs and the sweep of orphans.mjs.  A body is spooled before   *)
(* the row that names it and deleted after the row that says so; a writer, *)
(* an acknowledgement and a deletion wait between their decision and their *)
(* append, the process may crash, a body may be written in part, and an    *)
(* append that fails leaves the ledger refusing rows until a restart,      *)
(* which may then read that very row.                                      *)
(* Files of which no row knows have no name worth keeping: one that is     *)
(* deleted or moved aside may stand for a later one.  Neither an append    *)
(* nor a sweep takes the ten minutes graceMs leaves a young file alone.    *)
(***************************************************************************)
EXTENDS Naturals, Sequences, FiniteSets

CONSTANTS Messages, Sessions,
          Callers,      \* clients of the control socket and frames of peers
          Limits        \* bounds: which of these are at work in one instance,
                        \* how often the recipient's alias names another session,
                        \* how many bodies are deleted, how often the daemon dies
                        \* or a body cannot be written

ASSUME MailAssumption ==
    /\ Limits \subseteq [callers : SUBSET Callers, moves : Nat, deletions : Nat, crashes : Nat]
    /\ "receipts" \notin Callers
    /\ Sessions # {} /\ "nobody" \notin Sessions

\* Ids are derived: an answer's from the message it answers, a receipt's from
\* its cause and the message (queued_busy and not_delivered exclude each other).
Kinds == {"mail", "reply", "undelivered", "unanswered"}
Ids == [for : Messages, kind : Kinds]
Id(m, kind) == [for |-> m, kind |-> kind]
Writers == Callers \cup {"receipts"}
Deleters == {"retention", "discard"}
Files == [id : Ids, by : Writers]   \* bound: one file of each writer for an id
Nobody == "nobody"

VARIABLES
    limit,      \* the bounds in force
    up, crashes, \* the daemon, and how often it died or could not write a body
    health,     \* the ledger: "ok" or "poisoned"
    ghosts,     \* rows of failed appends that reached the disk all the same
    litter,     \* there is a temporary file of a body that nobody is writing
    rows,       \* peer_post rows of each id, in order
    bound,      \* sessions each message was bound to: its row, then the relinks
    processed,  \* peer_post_processed: by which session
    stuck,      \* the first doorbell_outcome of each message says so
    handled,    \* inbound_body_disposition "processed"
    expired,    \* files with an inbound_body_expired row
    spool,      \* body files on disk
    named, succeeded, moves,   \* the alias, and the proven successions
    job,        \* what each writer is doing
    acking,     \* sessions whose acknowledgement waits for its append
    deleting    \* what each deleter is doing

ledgerVars == <<rows, bound, processed, stuck, handled, expired>>
healthVars == <<limit, up, crashes, health, ghosts, litter>>
aliasVars == <<named, succeeded, moves>>
workVars == <<job, acking, deleting>>
vars == <<healthVars, ledgerVars, spool, aliasVars, workVars>>

Idle == [stage |-> "idle"]
Init ==
    /\ limit \in Limits
    /\ up = TRUE /\ crashes = 0 /\ health = "ok" /\ ghosts = {} /\ litter = FALSE
    /\ rows = [i \in Ids |-> <<>>] /\ bound = [m \in Messages |-> <<>>]
    /\ processed = [m \in Messages |-> Nobody] /\ stuck = [m \in Messages |-> FALSE]
    /\ handled = {} /\ expired = {} /\ spool = {}
    /\ named = (CHOOSE s \in Sessions : TRUE) /\ succeeded = {} /\ moves = 0
    /\ job = [w \in Writers |-> Idle]
    /\ acking = [m \in Messages |-> {}]
    /\ deleting = [d \in Deleters |-> Idle]

Rows == UNION {{rows[i][k] : k \in DOMAIN rows[i]} : i \in Ids}
Accepted(i) == rows[i] # <<>>
Row(i) == rows[i][1]
Referenced == {r.file : r \in Rows}
Holding(w) == job[w].stage # "idle"
Spooled(w) == job[w].stage \in {"append", "discard"}
Ghostly == {g.file : g \in ghosts}
Held == {job[w].file : w \in {v \in Writers : Holding(v)}}

\* sessionLineage: the session and every session it succeeded, near or far.
Lineage(s) ==
    {t \in Sessions : \A L \in SUBSET Sessions :
        s \in L /\ (\A e \in succeeded : e[1] \in L => e[2] \in L) => t \in L}
Binding(m) == bound[m][Len(bound[m])]
\* Only a session the message is bound to, or a successor of one, acts on it.
MutReadable(m) == Accepted(Id(m, "mail"))
Readable(m) == Accepted(Id(m, "mail")) /\ Binding(m) \in Lineage(named)

Free(w) == up /\ job[w].stage = "idle"
To(w, entry) == job' = [job EXCEPT ![w] = entry]
\* A file name is the time and eight random bytes: no other writer makes it.
Name(w, i) == [id |-> i, by |-> w]
-----------------------------------------------------------------------------
\* acceptPost, up to the temporary file of the body.  A copy of an accepted id
\* ends before the spool, as a duplicate or a conflict, with a row that decides
\* nothing; so do the rows that link a quarantined frame to the message it
\* turns out to be.
Spool(w, i, who) ==
    /\ Free(w) /\ w \in limit.callers \cup {"receipts"} /\ ~Accepted(i) /\ Name(w, i) \notin spool
    /\ To(w, [stage |-> "write", id |-> i, file |-> Name(w, i), who |-> who])
    /\ UNCHANGED <<healthVars, ledgerVars, spool, aliasVars, acking, deleting>>

\* atomicPrivateWrite: the file gets its name when it is whole.
Publish(w) ==
    /\ up /\ job[w].stage = "write"
    /\ spool' = spool \cup {job[w].file}
    /\ To(w, [job[w] EXCEPT !.stage = "append"])
    /\ UNCHANGED <<healthVars, ledgerVars, aliasVars, acking, deleting>>

\* It fails before that, and nobody removes what it wrote, or after it, in
\* making the directory durable; the caller gets the error.
SpoolFails(w) ==
    /\ up /\ job[w].stage = "write" /\ crashes < limit.crashes /\ crashes' = crashes + 1
    /\ \/ litter' = TRUE /\ UNCHANGED spool
       \/ spool' = spool \cup {job[w].file} /\ UNCHANGED litter
    /\ To(w, Idle)
    /\ UNCHANGED <<limit, up, health, ghosts, ledgerVars, aliasVars, acking, deleting>>

\* An authenticated sender: the recipient is the session the alias names now.
Post(w, m) == Spool(w, Id(m, "mail"), named)

\* Only the recipient answers, into the inbox of the session that asked.
Reply(w, m) == Readable(m) /\ Spool(w, Id(m, "reply"), named)

\* The row, unless another copy of the id was first.
MutFirst(i) == TRUE
First(i) == ~Accepted(i)
AppendRow(w) ==
    /\ up /\ job[w].stage = "append" /\ health = "ok"
    /\ LET i == job[w].id
           row == [file |-> job[w].file, who |-> job[w].who]
       IN IF First(i)
          THEN /\ rows' = [rows EXCEPT ![i] = Append(@, row)]
               /\ bound' = IF i.kind = "mail" THEN [bound EXCEPT ![i.for] = <<row.who>>] ELSE bound
               /\ To(w, Idle)
          ELSE /\ To(w, [job[w] EXCEPT !.stage = "discard"])
               /\ UNCHANGED <<rows, bound>>
    /\ UNCHANGED <<healthVars, processed, stuck, handled, expired,
                   spool, aliasVars, acking, deleting>>

\* The append fails, now or because one failed before; the line of the first
\* that fails may be on disk all the same.
AppendFails(w) ==
    /\ up /\ job[w].stage = "append"
    /\ health' = "poisoned"
    /\ \/ health = "ok" /\ First(job[w].id) /\ ghosts' = ghosts \cup {job[w]}
       \/ UNCHANGED ghosts
    /\ To(w, [job[w] EXCEPT !.stage = "discard"])
    /\ UNCHANGED <<limit, up, crashes, litter, ledgerVars, spool, aliasVars, acking, deleting>>

\* discardSpooled: the body of a row that was not written goes, or is left to
\* the sweep.
Discard(w) ==
    /\ up /\ job[w].stage = "discard"
    /\ spool' = spool \ {job[w].file} \/ UNCHANGED spool
    /\ To(w, Idle)
    /\ UNCHANGED <<healthVars, ledgerVars, aliasVars, acking, deleting>>

\* The first doorbell of a message could not be sent, or waits in a queue.
Outcome(m) ==
    /\ up /\ health = "ok" /\ Accepted(Id(m, "mail"))
    /\ stuck' = [stuck EXCEPT ![m] = TRUE]
    /\ UNCHANGED <<healthVars, rows, bound, processed, handled, expired, spool, aliasVars,
                   workVars>>

\* receiptsDue: a stuck message that nobody has handled, or one processed ten
\* minutes ago whose answer was asked for (here: each) and did not come.
Answered(m) == Accepted(Id(m, "reply"))
Due(m, kind) ==
    /\ Accepted(Id(m, "mail")) /\ ~Answered(m) /\ ~Accepted(Id(m, kind))
    /\ \/ kind = "undelivered" /\ stuck[m] /\ processed[m] = Nobody
       \/ kind = "unanswered" /\ processed[m] # Nobody

\* Hook and sweep share one chain and judge again before each receipt.
Receipt(m, kind) == Due(m, kind) /\ Spool("receipts", Id(m, kind), Nobody)
-----------------------------------------------------------------------------
\* ackOwnInbox: what it decides by lineage waits for the append, which only
\* asks whether the message was processed meanwhile.
Acknowledge(m) ==
    /\ up /\ Readable(m) /\ processed[m] = Nobody /\ named \notin acking[m]
    /\ acking' = [acking EXCEPT ![m] = @ \cup {named}]
    /\ UNCHANGED <<healthVars, ledgerVars, spool, aliasVars, job, deleting>>

Process(m, s) ==
    /\ up /\ s \in acking[m]
    /\ processed' = IF health = "ok" /\ processed[m] = Nobody
                    THEN [processed EXCEPT ![m] = s] ELSE processed
    /\ acking' = [acking EXCEPT ![m] = @ \ {s}]
    /\ UNCHANGED <<healthVars, rows, bound, stuck, handled, expired,
                   spool, aliasVars, job, deleting>>

\* relinkPost: the operator gives a held message to the session of now; to the
\* one that has it already is not a move.
Relink(m) ==
    /\ up /\ health = "ok" /\ Accepted(Id(m, "mail")) /\ processed[m] = Nobody
    /\ named # Binding(m) /\ Len(bound[m]) <= limit.moves
    /\ bound' = [bound EXCEPT ![m] = Append(@, named)]
    /\ UNCHANGED <<healthVars, rows, processed, stuck, handled, expired,
                   spool, aliasVars, workVars>>

\* The alias comes to name a successor, proven in the ledger, or (register
\* --replace) any other session.  The steps of this are module Targets.
Move(s) ==
    /\ up /\ s # named /\ moves < limit.moves
    /\ named' = s /\ moves' = moves + 1
    /\ succeeded' \in {succeeded, succeeded \cup {<<s, named>>}}
    /\ UNCHANGED <<healthVars, ledgerVars, spool, workVars>>
-----------------------------------------------------------------------------
\* The bound: F and the bodies handled or deleted before are few enough.
Touched(F) ==
    Cardinality(F \cup expired \cup {Row(i).file : i \in handled}
                  \cup {deleting[d].file : d \in {e \in Deleters : deleting[e] # Idle}})
        <= limit.deletions

\* A body is handled: from here retention may take it.
Handle(i) ==
    /\ up /\ health = "ok" /\ Accepted(i) /\ Row(i).file \notin expired /\ i \notin handled
    /\ Touched({Row(i).file})
    /\ handled' = handled \cup {i}
    /\ UNCHANGED <<healthVars, rows, bound, processed, stuck, expired,
                   spool, aliasVars, workVars>>

\* A body whose readers are done with it, and one that is on disk and says so.
Concluded(i) == i \in handled
OnDisk(i) == Row(i).file \in spool \ expired

\* deleteBody, up to the digest of the file that is there: for a handled body
\* past its age, or for any body somebody discards.
Delete(d, i) ==
    /\ up /\ deleting[d].stage = "idle" /\ Accepted(i)
    /\ d = "retention" => Concluded(i)
    /\ OnDisk(i) /\ Touched({Row(i).file})
    /\ deleting' = [deleting EXCEPT ![d] = [stage |-> "row", file |-> Row(i).file]]
    /\ UNCHANGED <<healthVars, ledgerVars, spool, aliasVars, job, acking>>

\* The row comes before the unlink, and no row means no unlink.
Expire(d) ==
    /\ up /\ deleting[d].stage = "row"
    /\ \/ /\ health = "ok"
          /\ expired' = expired \cup {deleting[d].file}
          /\ deleting' = [deleting EXCEPT ![d].stage = "unlink"]
       \/ /\ health = "poisoned"
          /\ deleting' = [deleting EXCEPT ![d] = Idle]
          /\ UNCHANGED expired
    /\ UNCHANGED <<healthVars, rows, bound, processed, stuck, handled,
                   spool, aliasVars, job, acking>>

\* It fails, which nothing comes back to, because the row is there.
Unlink(d) ==
    /\ up /\ deleting[d].stage = "unlink"
    /\ spool' = spool \ {deleting[d].file} \/ UNCHANGED spool
    /\ deleting' = [deleting EXCEPT ![d] = Idle]
    /\ UNCHANGED <<healthVars, ledgerVars, aliasVars, job, acking>>

\* sweepOrphanBodies in maintenance: what no row names is moved aside, but for
\* the young files of writers that have yet to append.
MutStray == spool \ Referenced
Stray == spool \ (Referenced \cup Held)
MutSweep == up /\ spool' = spool \ {f \in Stray : f \notin Files}
            /\ UNCHANGED <<healthVars, ledgerVars, aliasVars, workVars>>
Sweep ==
    /\ up /\ Stray # {}
    /\ spool' = spool \ Stray
    /\ UNCHANGED <<healthVars, ledgerVars, aliasVars, workVars>>

Crash ==
    /\ up /\ crashes < limit.crashes
    /\ up' = FALSE /\ crashes' = crashes + 1
    /\ litter' = (litter \/ \E w \in Writers : job[w].stage = "write")
    /\ job' = [w \in Writers |-> Idle] /\ acking' = [m \in Messages |-> {}]
    /\ deleting' = [d \in Deleters |-> Idle]
    /\ UNCHANGED <<limit, health, ghosts, ledgerVars, spool, aliasVars>>

\* The ledger is read again, the line that was taken for lost with it, and the
\* startup sweep spares no file for its age; a temporary file is none to it.
Restart ==
    /\ ~up
    /\ up' = TRUE /\ health' = "ok"
    /\ LET missed(i) == {g \in ghosts : g.id = i /\ g.file \notin Referenced}
           row(i) == LET g == CHOOSE g \in missed(i) : TRUE
                     IN [file |-> g.file, who |-> g.who]
       IN /\ rows' = [i \in Ids |-> IF missed(i) = {} THEN rows[i] ELSE Append(rows[i], row(i))]
          /\ bound' = [m \in Messages |-> IF missed(Id(m, "mail")) = {} THEN bound[m]
                                         ELSE <<row(Id(m, "mail")).who>>]
    /\ spool' = spool \cap Referenced'
    /\ UNCHANGED <<processed, stuck, handled, expired, limit, ghosts, litter, crashes,
                   aliasVars, workVars>>
-----------------------------------------------------------------------------
WriterStep(w) == Publish(w) \/ SpoolFails(w) \/ AppendRow(w) \/ AppendFails(w) \/ Discard(w)
ReceiptStep == \E m \in Messages, k \in {"undelivered", "unanswered"} : Receipt(m, k)

Next ==
    \/ \E w \in Callers, m \in Messages : Reply(w, m) \/ Post(w, m)
    \/ \E w \in Writers : WriterStep(w)
    \/ \E m \in Messages : \/ Outcome(m) \/ Acknowledge(m) \/ Relink(m)
                           \/ \E s \in Sessions : Process(m, s)
    \/ ReceiptStep
    \/ \E s \in Sessions : Move(s)
    \/ \E i \in Ids : Handle(i) \/ \E d \in Deleters : Delete(d, i)
    \/ \E d \in Deleters : Expire(d) \/ Unlink(d)
    \/ Sweep \/ Crash \/ Restart

Spec == Init /\ [][Next]_vars

\* The timers of the receipts and of maintenance go on, the daemon is started
\* again, and the work it has begun goes on.
FairSpec ==
    /\ Spec
    /\ WF_vars(ReceiptStep) /\ WF_vars(WriterStep("receipts"))
    /\ WF_vars(Sweep) /\ WF_vars(Restart)
-----------------------------------------------------------------------------
Entries == {Idle} \cup [stage : {"write", "append", "discard"}, id : Ids, file : Files,
                        who : Sessions \cup {Nobody}]

\* The shape of the ledger and of the work in hand; a writer that has yet
\* to append has its file, and no other writer has it.
TypeOK ==
    /\ up \in BOOLEAN /\ limit \in Limits /\ crashes \in 0..limit.crashes
    /\ health \in {"ok", "poisoned"}
    /\ ghosts \subseteq Entries /\ job \in [Writers -> Entries]
    /\ stuck \in [Messages -> BOOLEAN] /\ processed \in [Messages -> Sessions \cup {Nobody}]
    /\ acking \in [Messages -> SUBSET Sessions]
    /\ handled \subseteq {i \in Ids : Accepted(i)}
    /\ expired \subseteq Referenced /\ spool \subseteq Files /\ litter \in BOOLEAN
    /\ \A w \in Writers : Spooled(w) => job[w].file \in spool
    /\ \A v, w \in Writers :
        v # w /\ Holding(v) /\ Holding(w) => job[v].file # job[w].file

\* However often a message is sent, and whichever copies race, its id has one
\* row, its file is that row's alone, and the body is on disk until a row says
\* it is not.  The one exception is a row of which the writer was told it
\* failed (posts.mjs says "No row names the file") and the next start reads.
OneBodyPerPost ==
    /\ \A i \in Ids : Len(rows[i]) <= 1
    /\ \A i, j \in Ids : Accepted(i) /\ Accepted(j) /\ i # j => Row(i).file # Row(j).file
    /\ \A r \in Rows : r.file \in spool \cup expired \cup Ghostly

\* A message is processed, and answered, by a session it was bound to, or by
\* one that proved it succeeded such a session: not by whoever has the alias.
OnlyHoldersAct ==
    \A m \in Messages : \A s \in Sessions :
        processed[m] = s \/ (Answered(m) /\ Row(Id(m, "reply")).who = s)
            => \E k \in DOMAIN bound[m] : bound[m][k] \in Lineage(s)

\* A sender whose message is stuck is told, across crashes, unless the message
\* was handled after all or the ledger takes no rows; and a whole body that no
\* row names, left by a crash, a lost race or a failed step, is swept away.
Told(m) ==
    Accepted(Id(m, "undelivered")) \/ processed[m] # Nobody \/ Answered(m) \/ health = "poisoned"
NothingIsStuck ==
    /\ \A m \in Messages : stuck[m] ~> Told(m)
    /\ []<>(Stray = {})

\* daemon.mjs, of the sweep at start: "a crash between the two never leaves a
\* body outside retention".  Also not a body that was being written.
StartFindsAll == [][Restart => ~litter']_vars

\* retention.mjs: "Deletion, automatic or explicit, is always: digest checked
\* ..., then the `inbound_body_expired` row, then the unlink."  A body of which
\* the row says that it is gone is gone, or about to be.
ExpiredIsGone ==
    \A f \in expired \cap spool :
        \E d \in Deleters : deleting[d].stage = "unlink" /\ deleting[d].file = f

\* To the sessions that use it this is a Mailbox: whatever races, fails, is read again or
\* swept, each letter is written once and on its grounds, who acts on a message is entitled
\* to it when the row is written, and a body that is not released stays.
Wrote == [i \in Ids |-> IF Accepted(i) THEN {Row(i).who} ELSE {}]
Given == [m \in Messages |-> {bound[m][k] : k \in DOMAIN bound[m]}]
Failed == {g.id : g \in ghosts}
Released == {i \in Ids : Accepted(i) /\ Row(i).file \in expired}
Bodies == {i \in Ids : Accepted(i) /\ Row(i).file \in spool}
Promised == INSTANCE Mailbox WITH
    by <- Wrote, given <- Given, heirs <- succeeded,
    failed <- Failed, released <- Released, bodies <- Bodies
ImplementsMailbox == Promised!MailboxSpec
=============================================================================
