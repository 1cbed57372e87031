----------------------------- MODULE Extension -----------------------------
(***************************************************************************)
(* What the milestone and code review extensions have in common: each runs *)
(* its operations one at a time on a promise chain, inside a daemon that   *)
(* may crash, and sends through PeerCore to a target that one live process *)
(* after another owns.  Each extension says what its operations do.        *)
(***************************************************************************)
EXTENDS Naturals, Sequences

CONSTANTS MaxLive,       \* bound: processes that own the target in turn
          MaxCrashes     \* bound: daemon crashes

Nobody == 0

VARIABLES up, live,   \* the daemon runs; the process that owns the target
          chain,      \* operations of the extension, the running one first
          at, to,     \* where that one is, and the process it resolved
          core,       \* PeerCore's reservations, and whom they are for
          wire,       \* the processes that each transport was written to, in order
          crashes

\* An operation waits behind the ones before it, whether they succeed or not.
Enqueue(op) ==
    /\ up
    /\ chain' = Append(chain, op)

Running(kinds, step) == up /\ chain # <<>> /\ Head(chain).kind \in kinds /\ at = step
=============================================================================
