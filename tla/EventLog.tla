------------------------------ MODULE EventLog ------------------------------
(***************************************************************************)
(* What src/core/events.mjs promises its callers, with no chain, file      *)
(* handle or process in sight: one log that only grows at its end, a tail  *)
(* that a power loss may still take away, and rows that were promised to a *)
(* caller and therefore stay.  Ledger implements this specification.       *)
(***************************************************************************)
EXTENDS Naturals, Sequences

CONSTANT Keys          \* what a guarded row may be unique about

VARIABLES log,         \* the complete rows a reader of the file would load
          kept,        \* the first `kept` rows survive a power loss
          told         \* the rows some caller was told are written

logVars == <<log, kept, told>>

Guarded == {"reserve", "checked"}
Clash(r, s) == r.how \in Guarded /\ r.how = s.how /\ r.key = s.key

Fresh(r, rows) == \A i \in 1..Len(rows) : ~Clash(r, rows[i])

LogInit == log = <<>> /\ kept = 0 /\ told = {}

\* A row gets the next number, and a guarded one is the only one of its kind.
Grow(how, key) ==
    LET r == [seq |-> Len(log) + 1, how |-> how, key |-> key] IN
    /\ Fresh(r, log)
    /\ log' = Append(log, r)
    /\ UNCHANGED <<kept, told>>

\* Only the newest row is promised, only once, and it is safe from then on.
Promise ==
    /\ log # <<>>
    /\ log[Len(log)] \notin told
    /\ told' = told \cup {log[Len(log)]}
    /\ kept' = Len(log)
    /\ UNCHANGED log

Secure ==
    /\ kept' = Len(log)
    /\ UNCHANGED <<log, told>>

\* Only rows nobody was promised can be lost.
Lose ==
    \E n \in kept..Len(log) :
        /\ log' = SubSeq(log, 1, n)
        /\ kept' = n
        /\ UNCHANGED told

LogNext ==
    \/ \E how \in {"append"} \cup Guarded, key \in Keys : Grow(how, key)
    \/ Promise \/ Secure \/ Lose

LogSpec == LogInit /\ [][LogNext]_logVars
=============================================================================
