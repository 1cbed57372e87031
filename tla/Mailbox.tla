------------------------------ MODULE Mailbox ------------------------------
(***************************************************************************)
(* What src/core/posts.mjs, receipts.mjs and retention.mjs promise to the  *)
(* sessions that write to each other, with no file, ledger, daemon or race *)
(* in sight.  A message is one letter that somebody was given; its answer  *)
(* and its two receipts are letters of their own, each on its grounds and  *)
(* each once.  A letter has its body until it is released, unless its      *)
(* writer was told that it failed.  Mail implements this.                  *)
(***************************************************************************)
CONSTANTS Messages, Sessions

Kinds == {"mail", "reply", "undelivered", "unanswered"}
Letters == [for : Messages, kind : Kinds]
Original(m) == [for |-> m, kind |-> "mail"]
Nobody == "nobody"

VARIABLES by,           \* who wrote each letter: none or one
          given,        \* the sessions that each message was given to
          heirs,        \* pairs of a session and one that it succeeded
          processed,    \* the session that processed each message, or Nobody
          stuck,        \* the messages whose doorbell did not get through
          failed,       \* letters that a writer was told are not there
          released,     \* letters whose body nobody needs
          bodies        \* letters whose body is there

mailboxVars == <<by, given, heirs, processed, stuck, failed, released, bodies>>

MailboxInit ==
    /\ by = [i \in Letters |-> {}] /\ given = [m \in Messages |-> {}] /\ heirs = {}
    /\ processed = [m \in Messages |-> Nobody] /\ stuck = [m \in Messages |-> FALSE]
    /\ failed = {} /\ released = {} /\ bodies = {}

\* What a session is, and was before each proven succession.
Ancestry(s) ==
    {t \in Sessions : \A L \in SUBSET Sessions :
        s \in L /\ (\A e \in heirs : e[1] \in L => e[2] \in L) => t \in L}
Entitled(m, s) == given[m] \cap Ancestry(s) # {}

Grounds(i, who) ==
    /\ i.kind = "mail" => who \in Sessions
    /\ i.kind # "mail" => by[Original(i.for)] # {}
    /\ i.kind = "reply" => Entitled(i.for, who)
    /\ i.kind = "undelivered" => stuck[i.for]
    /\ i.kind = "unanswered" => processed[i.for] # Nobody

Write(i, who) ==
    /\ by[i] = {} /\ Grounds(i, who)
    /\ by' = [by EXCEPT ![i] = {who}]
    /\ given' = IF i.kind = "mail" THEN [given EXCEPT ![i.for] = {who}] ELSE given
    /\ \/ bodies' = bodies \cup {i}
       \/ i \in failed /\ UNCHANGED bodies
    /\ UNCHANGED <<heirs, processed, stuck, failed, released>>

\* A writer is told that its letter failed, which is not the last word on it.
Fail(i) ==
    /\ by[i] = {}
    /\ failed' = failed \cup {i}
    /\ UNCHANGED <<by, given, heirs, processed, stuck, released, bodies>>

Hold(m) ==
    /\ by[Original(m)] # {}
    /\ stuck' = [stuck EXCEPT ![m] = TRUE]
    /\ UNCHANGED <<by, given, heirs, processed, failed, released, bodies>>

Process(m, s) ==
    /\ Entitled(m, s) /\ processed[m] = Nobody
    /\ processed' = [processed EXCEPT ![m] = s]
    /\ UNCHANGED <<by, given, heirs, stuck, failed, released, bodies>>

\* A message that nobody has processed can be given to somebody else.
Give(m, s) ==
    /\ by[Original(m)] # {} /\ processed[m] = Nobody
    /\ given' = [given EXCEPT ![m] = @ \cup {s}]
    /\ UNCHANGED <<by, heirs, processed, stuck, failed, released, bodies>>

Succeed(s, t) ==
    /\ heirs' = heirs \cup {<<s, t>>}
    /\ UNCHANGED <<by, given, processed, stuck, failed, released, bodies>>

Release(i) ==
    /\ i \in bodies
    /\ released' = released \cup {i}
    /\ UNCHANGED <<by, given, heirs, processed, stuck, failed, bodies>>

Remove(i) ==
    /\ i \in released
    /\ bodies' = bodies \ {i}
    /\ UNCHANGED <<by, given, heirs, processed, stuck, failed, released>>

MailboxNext ==
    \/ \E i \in Letters : \/ \E who \in Sessions \cup {Nobody} : Write(i, who)
                          \/ Fail(i) \/ Release(i) \/ Remove(i)
    \/ \E m \in Messages : Hold(m) \/ \E s \in Sessions : Process(m, s) \/ Give(m, s)
    \/ \E s, t \in Sessions : Succeed(s, t)

MailboxSpec == MailboxInit /\ [][MailboxNext]_mailboxVars
=============================================================================
