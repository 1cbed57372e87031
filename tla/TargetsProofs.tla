---------------------------- MODULE TargetsProofs ----------------------------
(***************************************************************************)
(* Proofs about Targets for any aliases, requests, sessions and processes: *)
(* its type invariant and its three safety invariants.                     *)
(***************************************************************************)
EXTENDS Targets, FiniteSetTheorems, TLAPS

Places == {"idle", "observe", "read", "assign", "start", "find", "rewrite", "remember", "sent",
           "rebound", "enter", "first", "second", "note"}

\* Where a request may go on after it has read the table.
Entries == {"idle", "start", "enter", "sent", "rebound", "note"}

Record ==
    [kind : Kinds \cup {"ring", "none"}, alias : Aliases \cup {None}, by : 0..MaxProcess,
     replace : BOOLEAN, pc : Places, after : Entries,
     read : TableType \cup {<<>>}, checked : TableType \cup {<<>>},
     rebind : Aliases \cup {None}, expected : 0..MaxSession, found : 0..MaxSession]

\* What a table gives to an alias is proven for it.
Lawful(t) == \A a \in Aliases : t[a] # None => t[a] \in Heirs(a)

\* A request that runs belongs to a daemon that runs; it carries what its place needs.
RequestOK(q) ==
    /\ q.pc # "idle" => up /\ q.alias \in Aliases /\ q.by \in Processes /\ q.kind \in Kinds \cup {"ring"}
    /\ q.kind \in {"register_codex", "unregister"} =>
           /\ q.found = None /\ q.after \in {"idle", "enter"}
           /\ q.pc \in {"idle", "observe", "read", "assign", "enter", "first", "second"}
    /\ q.pc = "assign" => q.read \in TableType /\ Lawful(q.read)
    /\ q.pc \in {"find", "rewrite", "remember"} => q.rebind \in Aliases
    /\ q.pc = "find" => q.expected \in Heirs(q.rebind)
    /\ q.pc = "rewrite" => q.found \in Heirs(q.rebind)
    /\ q.pc = "remember" => q.expected \in Sessions
    /\ q.pc \in {"first", "second"} =>
           /\ q.kind \in {"register", "register_codex"}
           /\ q.kind = "register" => q.found \in Sessions
    /\ q.pc = "second" =>
           IF q.kind = "register" THEN q.alias \notin codex ELSE claude[q.alias] = None

RequestsOK == req \in [Requests -> Record] /\ \A r \in Requests : RequestOK(req[r])

\* A session that could succeed another one has its receipt in the history.
ReceiptsOK ==
    \A p \in Processes : Live(p) /\ process[p].resumes # None /\ ~process[p].fork =>
        [from |-> process[p].resumes, to |-> process[p].id] \in receipts

\* Both copies of the table are lawful.
TablesOK == Lawful(claude) /\ Lawful(table)

\* While the version last looked at is the newest, whoever holds a reading
\* holds the newest, unless readings overlapped; with no reader it is enforced
\* or could not be loaded.
WatchOK ==
    up /\ ~overlapped /\ watch = stamp =>
        /\ \A r \in Requests : req[r].pc = "assign" => req[r].read = claude
        /\ (\A r \in Requests : ~Reading(r)) => table = claude \/ unreadable

IInv == TypeOK /\ RequestsOK /\ ReceiptsOK /\ TablesOK /\ AliasInOneTable /\ WatchOK
-----------------------------------------------------------------------------
\* What is proven for an alias is an id, and stays proven when more is
\* registered and more receipts are carried.
LEMMA HeirsGrow ==
    ASSUME NEW a \in Aliases, registered \subseteq registered', receipts \subseteq receipts'
    PROVE  Heirs(a) \subseteq Sessions /\ Heirs(a) \subseteq Heirs(a)'
<1>1. Registered(a) \subseteq Registered(a)'
  BY DEF Registered
<1>. QED  BY <1>1 DEF Heirs

\* An id that was registered for an alias is proven for it, at once.
LEMMA RegisteredHeir ==
    ASSUME NEW a \in Aliases, NEW s \in Sessions, [alias |-> a, id |-> s] \in registered'
    PROVE  s \in Heirs(a)'
<1>1. s \in Registered(a)'
  BY DEF Registered
<1>. QED  BY <1>1 DEF Heirs

\* The receipt of a session makes its id as proven as the one it resumed.
LEMMA ReceiptHeir ==
    ASSUME NEW a \in Aliases, NEW s \in Heirs(a), NEW t \in Sessions,
           [from |-> s, to |-> t] \in receipts
    PROVE  t \in Heirs(a)
BY DEF Heirs

\* A table stays lawful while the evidence grows.
LEMMA LawfulGrows ==
    ASSUME NEW t, Lawful(t), registered \subseteq registered', receipts \subseteq receipts'
    PROVE  \A a \in Aliases : t[a] # None => t[a] \in Heirs(a)'
BY HeirsGrow DEF Lawful

\* So does what a request carries, unless it is between its two writes and
\* somebody else writes.
LEMMA RequestGrows ==
    ASSUME NEW q, RequestOK(q), q.pc # "idle" => up', q.rebind \in Aliases \cup {None},
           registered \subseteq registered', receipts \subseteq receipts',
           q.pc = "second" => UNCHANGED <<claude, codex>>
    PROVE  RequestOK(q)'
<1>1. q.pc = "assign" => \A a \in Aliases : q.read[a] # None => q.read[a] \in Heirs(a)'
  <2>. SUFFICES ASSUME q.pc = "assign"
                PROVE  \A a \in Aliases : q.read[a] # None => q.read[a] \in Heirs(a)'
    OBVIOUS
  <2>1. Lawful(q.read)
    BY DEF RequestOK
  <2>. QED  BY <2>1, LawfulGrows
<1>2. \A a \in Aliases : Heirs(a) \subseteq Heirs(a)'
  BY HeirsGrow
<1>3. q.pc # "idle" => up' /\ q.alias \in Aliases /\ q.by \in Processes /\ q.kind \in Kinds \cup {"ring"}
  BY DEF RequestOK
<1>4. /\ q.pc = "find" => q.expected \in Heirs(q.rebind)'
      /\ q.pc = "rewrite" => q.found \in Heirs(q.rebind)'
  BY <1>2 DEF RequestOK
<1>. QED  BY <1>1, <1>3, <1>4 DEF RequestOK, Lawful

\* One request moves; the others keep what they carry, because whoever is
\* between its two writes has the queue.
LEMMA RequestStep ==
    ASSUME IInv, NEW r \in Requests, NEW x \in Record, req' = [req EXCEPT ![r] = x],
           RequestOK(x)', up' = up,
           registered \subseteq registered', receipts \subseteq receipts',
           \A q \in Requests \ {r} : req[q].pc = "second" => UNCHANGED <<claude, codex>>
    PROVE  /\ RequestsOK' /\ req'[r] = x
           /\ \A q \in Requests \ {r} : req'[q] = req[q]
<1>1. /\ req' \in [Requests -> Record] /\ req'[r] = x
      /\ \A q \in Requests \ {r} : req'[q] = req[q]
  BY DEF IInv, RequestsOK
<1>2. ASSUME NEW q \in Requests \ {r} PROVE RequestOK(req[q])'
  <2>1. RequestOK(req[q]) /\ req[q] \in Record
    BY DEF IInv, RequestsOK
  <2>2. (req[q].pc # "idle" => up') /\ req[q].rebind \in Aliases \cup {None}
    BY <2>1 DEF RequestOK, Record
  <2>3. \A y : y = req[q] => RequestOK(y)'
    BY <2>1, <2>2, RequestGrows
  <2>4. req'[q] = req[q]
    BY <1>1
  <2>. QED  BY <2>3, <2>4
<1>3. RequestOK(req[r])'
  <2>1. \A y : y = x => RequestOK(y)'
    OBVIOUS
  <2>. QED  BY <2>1, <1>1
<1>. QED  BY <1>1, <1>2, <1>3 DEF RequestsOK

\* A request moves and no table, receipt, queue or copy does.
LEMMA QuietInv ==
    ASSUME IInv, NEW r \in Requests, NEW x \in Record, req' = [req EXCEPT ![r] = x],
           RequestOK(x), req[r].pc \notin {"read", "assign", "first", "second"},
           x.pc \notin {"read", "assign", "first", "second"},
           UNCHANGED <<claude, codex, stamp, processVars, daemonVars, registered>>,
           history' \in [Aliases -> SUBSET Sessions], seen' \in [Sessions -> 0..MaxProcess],
           sentTo' \in [Aliases -> [Sessions -> 0..MaxProcess]],
           asks' \in 0..MaxWork, faults' \in 0..MaxWork
    PROVE  IInv'
<1>. USE DEF processVars, daemonVars
<1>1. RequestOK(x)'
  <2>1. x.rebind \in Aliases \cup {None} /\ (x.pc # "idle" => up')
    BY DEF Record, RequestOK
  <2>. QED  BY <2>1, RequestGrows
<1>2. /\ RequestsOK' /\ req'[r] = x
      /\ \A q \in Requests \ {r} : req'[q] = req[q]
  BY <1>1, RequestStep
<1>3. ASSUME NEW q \in Requests PROVE (queue' = q) = (req'[q].pc \in {"first", "second"})
  <2>1. (queue = q) = (req[q].pc \in {"first", "second"}) /\ queue' = queue
    BY DEF IInv, TypeOK
  <2>2. (req[q].pc \in {"first", "second"}) = (req'[q].pc \in {"first", "second"})
    BY <1>2
  <2>. QED  BY <2>1, <2>2
<1>4. TypeOK'
  BY <1>3 DEF IInv, TypeOK
<1>5. WatchOK'
  BY <1>2 DEF IInv, WatchOK, Reading
<1>6. ReceiptsOK' /\ AliasInOneTable'
  BY DEF IInv, ReceiptsOK, AliasInOneTable, Live
<1>7. TablesOK'
  <2>1. (\A a \in Aliases : claude[a] # None => claude[a] \in Heirs(a)')
        /\ (\A a \in Aliases : table[a] # None => table[a] \in Heirs(a)')
    BY LawfulGrows DEF IInv, TablesOK
  <2>. QED  BY <2>1 DEF TablesOK, Lawful
<1>. QED  BY <1>2, <1>4, <1>5, <1>6, <1>7 DEF IInv
-----------------------------------------------------------------------------
\* Where a request stands after Go and after Reread.
Moved(r, pc) ==
    IF pc = "idle" THEN Idle ELSE [req[r] EXCEPT !.pc = pc, !.rebind = None, !.expected = None]
Back(r, pc) == [req[r] EXCEPT !.pc = "observe", !.after = pc, !.rebind = None, !.expected = None]

\* A request for a Codex thread, or to remove an alias, goes nowhere but to the queue.
MayEnter(r, pc) == req[r].kind \in {"register_codex", "unregister"} => pc \in {"idle", "enter"}

LEMMA IdleIsRecord == Idle \in Record /\ RequestOK(Idle) /\ Idle.pc = "idle"
<1>1. Idle \in Record
  BY TargetsAssumption DEF Idle, Record, Kinds, None, Places, Entries
<1>2. RequestOK(Idle) /\ Idle.pc = "idle"
  BY DEF Idle, RequestOK
<1>. QED  BY <1>1, <1>2

LEMMA PlacesAndNone ==
    /\ Entries \cup {"observe", "read", "find", "rewrite", "remember", "first", "second"} \subseteq Places
    /\ None \in 0..MaxSession /\ None \in Aliases \cup {None}
BY TargetsAssumption DEF Entries, Places, None

\* An entry asks for nothing but the request itself.
LEMMA Moves ==
    ASSUME RequestsOK, NEW r \in Requests, NEW pc \in Entries \cup {"read"},
           req[r].pc # "idle", pc # "read" => MayEnter(r, pc)
    PROVE  Moved(r, pc) \in Record /\ RequestOK(Moved(r, pc)) /\ Moved(r, pc).pc = pc
<1>1. CASE pc = "idle"
  BY <1>1, IdleIsRecord DEF Moved
<1>2. CASE pc # "idle"
  <2>. DEFINE x == [req[r] EXCEPT !.pc = pc, !.rebind = None, !.expected = None]
  <2>1. req[r] \in Record /\ RequestOK(req[r])
    BY DEF RequestsOK
  <2>2. x \in Record
    BY <2>1, PlacesAndNone DEF Record
  <2>3. /\ x.pc = pc /\ x.kind = req[r].kind /\ x.alias = req[r].alias /\ x.by = req[r].by
        /\ x.found = req[r].found /\ x.after = req[r].after
    BY <2>1 DEF Record
  <2>4. RequestOK(x)
    BY <1>2, <2>1, <2>3 DEF RequestOK, MayEnter, Entries
  <2>. QED  BY <1>2, <2>2, <2>3, <2>4 DEF Moved
<1>. QED  BY <1>1, <1>2

LEMMA Returns ==
    ASSUME RequestsOK, NEW r \in Requests, NEW pc \in Entries, req[r].pc # "idle",
           MayEnter(r, pc), req[r].kind \in {"register_codex", "unregister"} => req[r].found = None
    PROVE  Back(r, pc) \in Record /\ RequestOK(Back(r, pc)) /\ Back(r, pc).pc = "observe"
<1>. DEFINE x == Back(r, pc)
<1>1. req[r] \in Record /\ RequestOK(req[r])
  BY DEF RequestsOK
<1>2. x \in Record
  BY <1>1, PlacesAndNone DEF Back, Record
<1>3. /\ x.pc = "observe" /\ x.kind = req[r].kind /\ x.alias = req[r].alias
      /\ x.by = req[r].by /\ x.found = req[r].found /\ x.after = pc
  BY <1>1 DEF Back, Record
<1>4. RequestOK(x)
  BY <1>1, <1>3 DEF RequestOK, MayEnter
<1>. QED  BY <1>2, <1>3, <1>4

\* A request that goes on to an entry, or reads the table again, and nothing else.
LEMMA GoInv ==
    ASSUME IInv, NEW r \in Requests, NEW pc \in Entries, MayEnter(r, pc),
           req[r].pc \notin {"idle", "read", "assign", "first", "second"},
           Go(r, pc) \/ Reread(r, pc),
           UNCHANGED <<claude, codex, stamp, processVars, daemonVars, registered>>,
           history' \in [Aliases -> SUBSET Sessions], seen' \in [Sessions -> 0..MaxProcess],
           sentTo' \in [Aliases -> [Sessions -> 0..MaxProcess]],
           UNCHANGED countVars
    PROVE  IInv'
<1>1. RequestsOK /\ RequestOK(req[r]) /\ asks' \in 0..MaxWork /\ faults' \in 0..MaxWork
  BY DEF IInv, RequestsOK, countVars, TypeOK
<1>2. CASE Go(r, pc)
  <2>1. Moved(r, pc) \in Record /\ RequestOK(Moved(r, pc)) /\ Moved(r, pc).pc = pc
    BY <1>1, Moves
  <2>2. req' = [req EXCEPT ![r] = Moved(r, pc)]
    BY <1>2 DEF Go, Moved
  <2>3. Moved(r, pc).pc \notin {"read", "assign", "first", "second"}
    BY <2>1 DEF Entries
  <2>. QED  BY <1>1, <2>1, <2>2, <2>3, QuietInv
<1>3. CASE Reread(r, pc)
  <2>1. req[r].kind \in {"register_codex", "unregister"} => req[r].found = None
    BY <1>1 DEF RequestOK
  <2>2. Back(r, pc) \in Record /\ RequestOK(Back(r, pc)) /\ Back(r, pc).pc = "observe"
    BY <1>1, <2>1, Returns
  <2>3. req' = [req EXCEPT ![r] = Back(r, pc)]
    BY <1>1, <1>3 DEF Reread, Back, RequestsOK
  <2>. QED  BY <1>1, <2>2, <2>3, QuietInv
<1>. QED  BY <1>2, <1>3
-----------------------------------------------------------------------------
LEMMA AskInv ==
    ASSUME IInv, NEW r \in Requests, NEW kind \in Kinds, NEW a \in Aliases, NEW p \in Processes,
           NEW replace \in BOOLEAN, Ask(r, kind, a, p, replace)
    PROVE  IInv'
<1>. DEFINE x == [Request(kind, a, p, replace) EXCEPT !.pc = "observe", !.after = First(kind)]
<1>. USE DEF Ask
<1>1. /\ First(kind) \in Entries
      /\ kind \in {"register_codex", "unregister"} => First(kind) = "enter"
  <2>. HIDE DEF Ask
  <2>1. First(kind) = "start" \/ First(kind) = "enter"
    BY DEF First
  <2>2. kind \in {"register_codex", "unregister"} => First(kind) = "enter"
    BY DEF First
  <2>. QED  BY <2>1, <2>2 DEF Entries
<1>2. claude \in TableType /\ p \in 0..MaxProcess /\ p \in Processes
  BY TargetsAssumption DEF IInv, TypeOK, Processes
<1>. HIDE DEF Ask
<1>. DEFINE y == Request(kind, a, p, replace)
            read == IF kind = "send" THEN claude ELSE <<>>
<1>3. /\ y \in Record
      /\ y.kind = kind /\ y.alias = a /\ y.by = p /\ y.found = None
  <2>1. y = [Idle EXCEPT !.kind = kind, !.alias = a, !.by = p, !.replace = replace,
                         !.checked = read]
    BY DEF Request
  <2>2. read \in TableType \cup {<<>>}
    BY <1>2
  <2>3. Idle \in Record /\ Idle.found = None
    BY IdleIsRecord DEF Idle
  <2>. HIDE DEF y, read
  <2>4. y \in Record
    BY <1>2, <2>1, <2>2, <2>3 DEF Record
  <2>5. y.kind = kind /\ y.alias = a /\ y.by = p /\ y.found = None
    BY <2>1, <2>3 DEF Record
  <2>. QED  BY <2>4, <2>5
<1>4. /\ x \in Record
      /\ x.kind = kind /\ x.alias = a /\ x.by = p /\ x.pc = "observe"
      /\ x.after = First(kind) /\ x.found = None
  <2>. HIDE DEF y
  <2>1. x = [y EXCEPT !.pc = "observe", !.after = First(kind)]
    BY DEF y
  <2>2. x \in Record
    BY <1>1, <1>3, <2>1, PlacesAndNone DEF Record
  <2>. QED  BY ZenonT(60), <1>3, <2>1, <2>2 DEF Record
<1>. USE DEF Ask
<1>5. RequestOK(x)
  BY <1>1, <1>2, <1>4 DEF RequestOK
<1>6. req' = [req EXCEPT ![r] = x] /\ req[r].pc = "idle" /\ x.pc = "observe"
  BY <1>4
<1>7. asks' \in 0..MaxWork
  <2>1. /\ launched \in 1..MaxProcess /\ asks \in 0..MaxWork /\ faults \in 0..MaxWork
        /\ MaxProcess \in Nat /\ MaxWork \in Nat
    BY TargetsAssumption DEF IInv, TypeOK, Processes
  <2>2. launched + asks + faults < MaxWork /\ asks' = asks + 1
    BY DEF Room
  <2>. HIDE DEF Ask
  <2>. QED  BY <2>1, <2>2
<1>. HIDE DEF x
<1>8. history' = history /\ seen' = seen /\ sentTo' = sentTo
  BY DEF fileVars, ledgerVars
<1>9. UNCHANGED <<claude, codex, stamp, processVars, daemonVars, registered>> /\ faults' = faults
  BY DEF fileVars, ledgerVars
<1>. HIDE DEF Ask
<1>10. /\ history' \in [Aliases -> SUBSET Sessions] /\ seen' \in [Sessions -> 0..MaxProcess]
       /\ sentTo' \in [Aliases -> [Sessions -> 0..MaxProcess]] /\ faults' \in 0..MaxWork
  BY <1>8, <1>9 DEF IInv, TypeOK
<1>. QED  BY <1>4, <1>5, <1>6, <1>7, <1>9, <1>10, QuietInv

LEMMA RingInv == ASSUME IInv, NEW r \in Requests, NEW a \in Aliases, Ring(r, a) PROVE IInv'
<1>. DEFINE x == [Request("ring", a, 1, FALSE) EXCEPT !.pc = "start"]
<1>1. /\ up /\ req[r].pc = "idle" /\ Room /\ req' = [req EXCEPT ![r] = x] /\ asks' = asks + 1
      /\ UNCHANGED <<fileVars, processVars, daemonVars, ledgerVars, faults>>
  BY DEF Ring
<1>2. 1 \in Processes /\ 1 \in 0..MaxProcess
  BY TargetsAssumption DEF Processes
<1>. DEFINE y == Request("ring", a, 1, FALSE)
            none == <<>>
            no == FALSE
<1>3. y = [Idle EXCEPT !.kind = "ring", !.alias = a, !.by = 1, !.replace = no, !.checked = none]
  BY DEF Request
<1>4. /\ x \in Record /\ x.kind = "ring" /\ x.alias = a /\ x.by = 1 /\ x.pc = "start"
  <2>1. Idle \in Record /\ none \in TableType \cup {<<>>} /\ no \in BOOLEAN
    BY IdleIsRecord
  <2>. HIDE DEF y, none, no
  <2>2. y \in Record
    BY <1>2, <1>3, <2>1 DEF Record
  <2>3. y.kind = "ring" /\ y.alias = a /\ y.by = 1
    BY <1>3, <2>1 DEF Record
  <2>4. x = [y EXCEPT !.pc = "start"]
    BY DEF y
  <2>5. "start" \in Places
    BY DEF Places
  <2>6. x \in Record
    BY <2>2, <2>4, <2>5 DEF Record
  <2>7. x.kind = y.kind /\ x.alias = y.alias /\ x.by = y.by /\ x.pc = "start"
    BY ZenonT(60), <2>2, <2>4 DEF Record
  <2>. QED  BY <2>3, <2>6, <2>7
<1>. HIDE DEF x
<1>5. RequestOK(x)
  BY <1>1, <1>2, <1>4 DEF RequestOK
<1>6. asks' \in 0..MaxWork
  <2>1. /\ launched \in 1..MaxProcess /\ asks \in 0..MaxWork /\ faults \in 0..MaxWork
        /\ MaxProcess \in Nat /\ MaxWork \in Nat
    BY TargetsAssumption DEF IInv, TypeOK, Processes
  <2>2. launched + asks + faults < MaxWork /\ asks' = asks + 1
    BY <1>1 DEF Room
  <2>. QED  BY <2>1, <2>2
<1>7. UNCHANGED <<claude, codex, stamp, history, seen, sentTo, registered, processVars, daemonVars,
                  faults>>
  BY <1>1 DEF fileVars, ledgerVars
<1>8. /\ history' \in [Aliases -> SUBSET Sessions] /\ seen' \in [Sessions -> 0..MaxProcess]
      /\ sentTo' \in [Aliases -> [Sessions -> 0..MaxProcess]] /\ faults' \in 0..MaxWork
  BY <1>7 DEF IInv, TypeOK
<1>9. /\ req[r].pc \notin {"read", "assign", "first", "second"}
      /\ x.pc \notin {"read", "assign", "first", "second"}
  BY <1>1, <1>4
<1>. QED  BY <1>1, <1>4, <1>5, <1>6, <1>7, <1>8, <1>9, QuietInv

\* The tables and the receipts stand as they are when a reading goes on.
LEMMA ReadingInv ==
    ASSUME IInv, NEW r \in Requests, NEW x \in Record, req' = [req EXCEPT ![r] = x], RequestOK(x),
           req[r].pc \notin {"first", "second"}, x.pc \notin {"first", "second"},
           UNCHANGED <<fileVars, processVars, up, queue, ledgerVars, countVars>>,
           table' \in TableType, Lawful(table'), watch' \in 0..stamp, overlapped' \in BOOLEAN,
           unreadable' \in BOOLEAN, WatchOK'
    PROVE  IInv'
<1>. USE DEF fileVars, processVars, ledgerVars, countVars
<1>1. RequestOK(x)'
  <2>1. x.rebind \in Aliases \cup {None} /\ (x.pc # "idle" => up')
    BY DEF Record, RequestOK
  <2>. QED  BY <2>1, RequestGrows
<1>2. /\ RequestsOK' /\ req'[r] = x
      /\ \A q \in Requests \ {r} : req'[q] = req[q]
  BY <1>1, RequestStep
<1>3. ASSUME NEW q \in Requests PROVE (queue' = q) = (req'[q].pc \in {"first", "second"})
  <2>1. (queue = q) = (req[q].pc \in {"first", "second"}) /\ queue' = queue
    BY DEF IInv, TypeOK
  <2>2. (req[q].pc \in {"first", "second"}) = (req'[q].pc \in {"first", "second"})
    BY <1>2
  <2>. QED  BY <2>1, <2>2
<1>4. TypeOK'
  BY <1>3 DEF IInv, TypeOK
<1>5. ReceiptsOK' /\ AliasInOneTable'
  BY DEF IInv, ReceiptsOK, AliasInOneTable, Live
<1>6. TablesOK'
  <2>1. Lawful(claude)
    BY DEF IInv, TablesOK
  <2>2. (\A a \in Aliases : claude[a] # None => claude[a] \in Heirs(a)')
    BY <2>1, LawfulGrows
  <2>3. \A t : Lawful(t) => \A a \in Aliases : t[a] # None => t[a] \in Heirs(a)'
    BY LawfulGrows
  <2>4. \A a \in Aliases : table'[a] # None => table'[a] \in Heirs(a)'
    BY <2>3
  <2>. QED  BY <2>2, <2>4 DEF TablesOK, Lawful
<1>. QED  BY <1>2, <1>4, <1>5, <1>6 DEF IInv

LEMMA ObserveInv == ASSUME IInv, NEW r \in Requests, Observe(r) PROVE IInv'
<1>. USE DEF Observe
<1>1. /\ RequestsOK /\ RequestOK(req[r]) /\ req[r] \in Record /\ req[r].pc = "observe"
      /\ table' = table /\ table \in TableType /\ Lawful(table) /\ stamp' = stamp
      /\ UNCHANGED <<fileVars, processVars, up, queue, ledgerVars, countVars>>
  BY DEF IInv, RequestsOK, TypeOK, TablesOK, fileVars
<1>2. overlapped' \in BOOLEAN /\ (~overlapped' => ~overlapped /\ \A q \in Requests : ~Reading(q))
  BY Zenon DEF IInv, TypeOK
<1>6. unreadable' \in BOOLEAN
  BY DEF IInv, TypeOK
<1>3. Lawful(table')
  BY <1>1
<1>4. CASE Unchanged
  <2>. DEFINE pc == req[r].after
  <2>1. pc \in Entries /\ MayEnter(r, pc)
    BY <1>1 DEF Record, RequestOK, MayEnter
  <2>2. Moved(r, pc) \in Record /\ RequestOK(Moved(r, pc)) /\ Moved(r, pc).pc = pc
    BY <1>1, <2>1, Moves
  <2>3. req' = [req EXCEPT ![r] = Moved(r, pc)] /\ watch' = watch /\ watch' \in 0..stamp
    BY <1>4 DEF Go, Moved, IInv, TypeOK
  <2>4. pc \notin {"first", "second", "read", "assign"}
    BY <2>1 DEF Entries
  <2>5. /\ req'[r].pc = pc
        /\ \A q \in Requests \ {r} : req'[q] = req[q]
    BY <1>1, <2>2, <2>3 DEF RequestsOK
  <2>6. WatchOK'
    <3>1. SUFFICES ASSUME up', ~overlapped', watch' = stamp'
                   PROVE  /\ \A q \in Requests : req'[q].pc # "assign"
                          /\ table' = claude' \/ unreadable'
      BY DEF WatchOK
    <3>2. claude' = claude /\ up' = up
      BY <1>1 DEF fileVars
    <3>3. \A q \in Requests : ~Reading(q)
      BY <1>2, <3>1
    <3>4. (table = claude \/ unreadable) /\ unreadable' = unreadable
      BY <1>1, <1>2, <1>4, <2>3, <3>1, <3>2, <3>3 DEF IInv, WatchOK
    <3>. QED  BY <1>1, <2>4, <2>5, <3>2, <3>3, <3>4 DEF Reading
  <2>. QED  BY <1>1, <1>2, <1>3, <1>6, <2>2, <2>3, <2>4, <2>6, ReadingInv
<1>5. CASE ~Unchanged
  <2>1. Moved(r, "read") \in Record /\ RequestOK(Moved(r, "read")) /\ Moved(r, "read").pc = "read"
    BY <1>1, Moves
  <2>2. req' = [req EXCEPT ![r] = Moved(r, "read")] /\ watch' = stamp /\ watch' \in 0..stamp
    BY <1>5 DEF Go, Moved, IInv, TypeOK
  <2>3. /\ req'[r].pc = "read"
        /\ \A q \in Requests \ {r} : req'[q] = req[q]
    BY <1>1, <2>1, <2>2 DEF RequestsOK
  <2>4. WatchOK'
    BY <1>2, <2>3 DEF WatchOK, Reading
  <2>. QED  BY <1>1, <1>2, <1>3, <1>6, <2>1, <2>2, <2>4, ReadingInv
<1>. QED  BY <1>4, <1>5

LEMMA ReadTableInv == ASSUME IInv, NEW r \in Requests, ReadTable(r) PROVE IInv'
<1>. DEFINE x == [req[r] EXCEPT !.pc = "assign", !.read = claude]
<1>. USE DEF ReadTable
<1>1. /\ RequestsOK /\ RequestOK(req[r]) /\ req[r] \in Record /\ req[r].pc = "read"
      /\ claude \in TableType /\ Lawful(claude) /\ table \in TableType /\ Lawful(table)
      /\ watch \in 0..stamp /\ overlapped \in BOOLEAN /\ unreadable \in BOOLEAN
  BY DEF IInv, RequestsOK, TypeOK, TablesOK
<1>2. x \in Record
  BY <1>1 DEF Record, Places
<1>3. /\ x.pc = "assign" /\ x.read = claude /\ x.kind = req[r].kind /\ x.alias = req[r].alias
      /\ x.by = req[r].by /\ x.found = req[r].found /\ x.after = req[r].after
  BY <1>1 DEF Record
<1>4. RequestOK(x)
  BY <1>1, <1>3 DEF RequestOK
<1>5. req' = [req EXCEPT ![r] = x]
  BY <1>1 DEF RequestsOK
<1>. HIDE DEF x
<1>6. /\ UNCHANGED <<fileVars, processVars, up, queue, ledgerVars, countVars>>
      /\ table' = table /\ watch' = watch /\ overlapped' = overlapped
      /\ unreadable' = unreadable
      /\ claude' = claude /\ stamp' = stamp
  BY DEF daemonVars, fileVars
<1>7. /\ req'[r] = x
      /\ \A q \in Requests \ {r} : req'[q] = req[q]
  BY <1>1, <1>5 DEF RequestsOK
<1>8. WatchOK'
  BY <1>1, <1>3, <1>6, <1>7 DEF IInv, WatchOK, Reading
<1>9. Lawful(table')
  BY <1>1, <1>6
<1>. QED  BY <1>1, <1>2, <1>3, <1>4, <1>5, <1>6, <1>8, <1>9, ReadingInv

\* A request goes on from its reading, whether that gave a table or not.
LEMMA EndReadingInv ==
    ASSUME IInv, NEW r \in Requests, EndReading(r),
           (table' = req[r].read /\ unreadable' = unreadable) \/ (table' = table /\ unreadable' = TRUE),
           UNCHANGED <<fileVars, processVars, up, watch, queue, overlapped, ledgerVars, countVars>>
    PROVE  IInv'
<1>. DEFINE pc == req[r].after
            y == [req[r] EXCEPT !.pc = pc, !.read = <<>>]
            x == IF pc = "idle" THEN Idle ELSE y
<1>. USE DEF EndReading
<1>1. /\ RequestsOK /\ RequestOK(req[r]) /\ req[r] \in Record /\ req[r].pc = "assign"
      /\ watch \in 0..stamp /\ overlapped \in BOOLEAN /\ unreadable \in BOOLEAN
      /\ table \in TableType /\ Lawful(table)
  BY DEF IInv, RequestsOK, TypeOK, TablesOK
<1>2. pc \in Entries /\ MayEnter(r, pc)
  BY <1>1 DEF Record, RequestOK, MayEnter
<1>3. x \in Record /\ RequestOK(x) /\ x.pc = pc
  <2>1. y \in Record
    BY <1>1, <1>2, PlacesAndNone DEF Record
  <2>2. /\ y.pc = pc /\ y.kind = req[r].kind /\ y.alias = req[r].alias
        /\ y.by = req[r].by /\ y.found = req[r].found /\ y.after = req[r].after
    BY <1>1 DEF Record
  <2>3. pc # "idle" => RequestOK(y)
    BY <1>1, <1>2, <2>2 DEF RequestOK, MayEnter, Entries
  <2>. QED  BY <2>1, <2>2, <2>3, IdleIsRecord
<1>4. req' = [req EXCEPT ![r] = x]
  BY <1>1 DEF RequestsOK
<1>5. pc \notin {"first", "second", "read", "assign"}
  BY <1>2 DEF Entries
<1>6. req[r].read \in TableType /\ Lawful(req[r].read)
  BY <1>1 DEF RequestOK
<1>. HIDE DEF x, pc
<1>7. /\ watch' = watch /\ overlapped' = overlapped
      /\ claude' = claude /\ stamp' = stamp /\ up' = up
  BY DEF fileVars
<1>8. /\ req'[r] = x
      /\ \A q \in Requests \ {r} : req'[q] = req[q]
  BY <1>1, <1>4 DEF RequestsOK
<1>9. WatchOK'
  <2>1. SUFFICES ASSUME up', ~overlapped', watch' = stamp'
                 PROVE  /\ \A q \in Requests : req'[q].pc = "assign" => req'[q].read = claude'
                        /\ table' = claude' \/ unreadable'
    BY DEF WatchOK
  <2>2. \A q \in Requests : req[q].pc = "assign" => req[q].read = claude
    BY <1>7, <2>1 DEF IInv, WatchOK
  <2>. QED  BY <1>1, <1>3, <1>5, <1>7, <1>8, <2>2
<1>10. Lawful(table') /\ table' \in TableType /\ unreadable' \in BOOLEAN
  BY <1>1, <1>6
<1>. QED  BY <1>1, <1>3, <1>4, <1>5, <1>7, <1>9, <1>10, ReadingInv

LEMMA AssignInv == ASSUME IInv, NEW r \in Requests, Assign(r) PROVE IInv'
<1>1. /\ EndReading(r) /\ table' = req[r].read
      /\ UNCHANGED <<fileVars, processVars, up, watch, unreadable, queue, overlapped, ledgerVars,
                     countVars>>
  BY DEF Assign
<1>. QED  BY <1>1, EndReadingInv

LEMMA LoadFailsInv == ASSUME IInv, NEW r \in Requests, LoadFails(r) PROVE IInv'
<1>1. /\ EndReading(r) /\ unreadable' = TRUE
      /\ UNCHANGED <<fileVars, processVars, up, table, watch, queue, overlapped, ledgerVars,
                     countVars>>
  BY DEF LoadFails
<1>. QED  BY <1>1, EndReadingInv
-----------------------------------------------------------------------------
LEMMA OneIsSome == ASSUME NEW S, Cardinality(S) = 1 PROVE S # {}
<1>1. Cardinality({}) = 0
  BY FS_EmptySet
<1>. QED  BY <1>1

\* A succession starts from what the enforced table gives to an alias.
LEMMA LookInv ==
    ASSUME IInv, NEW r \in Requests, NEW a \in Aliases, table[a] # None,
           req[r].pc = "start", req[r].kind \in {"send", "ring", "register"},
           req' = [req EXCEPT ![r].pc = "find", ![r].rebind = a, ![r].expected = table[a]],
           UNCHANGED <<fileVars, processVars, daemonVars, ledgerVars, countVars>>
    PROVE  IInv'
<1>. DEFINE x == [req[r] EXCEPT !.pc = "find", !.rebind = a, !.expected = table[a]]
<1>1. /\ RequestOK(req[r]) /\ req[r] \in Record /\ table[a] \in Heirs(a)
      /\ table[a] \in 0..MaxSession
  BY DEF IInv, RequestsOK, TablesOK, Lawful, TypeOK, TableType
<1>2. x \in Record
  BY <1>1, PlacesAndNone DEF Record
<1>3. /\ x.pc = "find" /\ x.rebind = a /\ x.expected = table[a] /\ x.kind = req[r].kind
      /\ x.alias = req[r].alias /\ x.by = req[r].by
  BY <1>1 DEF Record
<1>4. RequestOK(x)
  BY <1>1, <1>3 DEF RequestOK
<1>5. req' = [req EXCEPT ![r] = x]
  BY DEF IInv, RequestsOK
<1>. HIDE DEF x
<1>6. UNCHANGED <<claude, codex, stamp, history, seen, sentTo, registered, asks, faults>>
  BY DEF fileVars, ledgerVars, countVars
<1>7. /\ history' \in [Aliases -> SUBSET Sessions] /\ seen' \in [Sessions -> 0..MaxProcess]
      /\ sentTo' \in [Aliases -> [Sessions -> 0..MaxProcess]]
      /\ asks' \in 0..MaxWork /\ faults' \in 0..MaxWork
  BY <1>6 DEF IInv, TypeOK
<1>8. req[r].pc \notin {"read", "assign", "first", "second"}
      /\ x.pc \notin {"read", "assign", "first", "second"}
  BY <1>3
<1>. QED  BY <1>2, <1>4, <1>5, <1>6, <1>7, <1>8, QuietInv

LEMMA ResolveInv == ASSUME IInv, NEW r \in Requests, Resolve(r) PROVE IInv'
<1>. DEFINE a == req[r].alias
            s == table[a]
<1>1. /\ req[r].pc = "start" /\ req[r].kind \in {"send", "ring"} /\ s # None
      /\ UNCHANGED <<fileVars, processVars, daemonVars, seen, registered, countVars>>
      /\ \/ /\ Cardinality(Holders(s)) = 1
            /\ sentTo' = [sentTo EXCEPT ![a][s] = CHOOSE p \in Holders(s) : TRUE]
            /\ Finish(r)
         \/ /\ req' = [req EXCEPT ![r].pc = "find", ![r].rebind = a, ![r].expected = s]
            /\ UNCHANGED sentTo
  BY DEF Resolve, Start, Sends
<1>2. a \in Aliases
  BY <1>1 DEF IInv, RequestsOK, RequestOK
<1>3. CASE /\ Cardinality(Holders(s)) = 1
           /\ sentTo' = [sentTo EXCEPT ![a][s] = CHOOSE p \in Holders(s) : TRUE]
           /\ Finish(r)
  <2>1. (CHOOSE p \in Holders(s) : TRUE) \in 0..MaxProcess
    <3>1. Holders(s) # {}
      BY <1>3, OneIsSome
    <3>2. Holders(s) \subseteq 0..MaxProcess
      BY TargetsAssumption DEF Holders, Processes
    <3>. QED  BY <3>1, <3>2
  <2>2. sentTo' \in [Aliases -> [Sessions -> 0..MaxProcess]]
    BY <1>2, <1>3, <2>1 DEF IInv, TypeOK
  <2>3. UNCHANGED <<claude, codex, stamp, history, seen, registered>> /\ Go(r, "idle")
    BY <1>1, <1>3 DEF fileVars, Finish
  <2>4. history' \in [Aliases -> SUBSET Sessions] /\ seen' \in [Sessions -> 0..MaxProcess]
    BY <2>3 DEF IInv, TypeOK
  <2>. QED  BY <1>1, <2>2, <2>3, <2>4, GoInv DEF Entries, MayEnter
<1>4. CASE /\ req' = [req EXCEPT ![r].pc = "find", ![r].rebind = a, ![r].expected = s]
           /\ UNCHANGED sentTo
  <2>1. UNCHANGED <<fileVars, processVars, daemonVars, ledgerVars, countVars>>
    BY <1>1, <1>4 DEF ledgerVars
  <2>. QED  BY <1>1, <1>2, <1>4, <2>1, LookInv
<1>. QED  BY <1>1, <1>3, <1>4

\* A request goes on and everything else is left alone.
LEMMA OnInv ==
    ASSUME IInv, NEW r \in Requests, NEW pc \in Entries, MayEnter(r, pc),
           req[r].pc \notin {"idle", "read", "assign", "first", "second"},
           Go(r, pc) \/ Reread(r, pc),
           UNCHANGED <<fileVars, processVars, daemonVars, ledgerVars, countVars>>
    PROVE  IInv'
<1>1. UNCHANGED <<claude, codex, stamp, history, seen, sentTo, registered>>
  BY DEF fileVars, ledgerVars
<1>2. /\ history' \in [Aliases -> SUBSET Sessions] /\ seen' \in [Sessions -> 0..MaxProcess]
      /\ sentTo' \in [Aliases -> [Sessions -> 0..MaxProcess]]
  BY <1>1 DEF IInv, TypeOK
<1>. QED  BY <1>1, <1>2, GoInv

LEMMA UnverifiedInv == ASSUME IInv, NEW r \in Requests, Unverified(r) PROVE IInv'
<1>1. "idle" \in Entries /\ MayEnter(r, "idle") /\ Go(r, "idle") /\ req[r].pc = "start"
  BY DEF Entries, MayEnter, Unverified, Finish, Start
<1>2. UNCHANGED <<fileVars, processVars, daemonVars, ledgerVars, countVars>>
  BY DEF Unverified
<1>. QED  BY <1>1, <1>2, OnInv

LEMMA IdentifyInv == ASSUME IInv, NEW r \in Requests, Identify(r) PROVE IInv'
<1>. DEFINE p == req[r].by
            a == CHOOSE x \in Claimed(p) : TRUE
<1>1. /\ req[r].pc = "start" /\ req[r].kind = "register"
      /\ UNCHANGED <<fileVars, processVars, daemonVars, ledgerVars, countVars>>
      /\ \/ Go(r, "idle") \/ Go(r, "enter")
         \/ /\ Cardinality(Claimed(p)) = 1
            /\ req' = [req EXCEPT ![r].pc = "find", ![r].rebind = a, ![r].expected = table[a]]
  BY DEF Identify, Start, Finish
<1>2. CASE Go(r, "idle") \/ Go(r, "enter")
  <2>1. \A pc \in {"idle", "enter"} : pc \in Entries /\ MayEnter(r, pc)
    BY DEF Entries, MayEnter
  <2>. QED  BY <1>1, <1>2, <2>1, OnInv
<1>3. CASE /\ Cardinality(Claimed(p)) = 1
           /\ req' = [req EXCEPT ![r].pc = "find", ![r].rebind = a, ![r].expected = table[a]]
  <2>1. Claimed(p) # {}
    BY <1>3, OneIsSome
  <2>2. a \in Aliases /\ table[a] # None
    BY <2>1 DEF Claimed
  <2>. QED  BY <1>1, <1>3, <2>2, LookInv
<1>. QED  BY <1>1, <1>2, <1>3

\* Where a request goes on after a succession are entries, and those who may
\* not start one do not come there.
LEMMA AfterSuccession ==
    ASSUME IInv, NEW r \in Requests, req[r].pc \in {"find", "rewrite", "remember", "sent", "rebound"}
    PROVE  /\ AfterRefusal(r) \in Entries /\ AfterRebind(r) \in Entries
           /\ \A pc : MayEnter(r, pc)
           /\ req[r].kind \notin {"register_codex", "unregister"}
<1>1. RequestOK(req[r])
  BY DEF IInv, RequestsOK
<1>2. req[r].kind \notin {"register_codex", "unregister"}
  BY <1>1 DEF RequestOK
<1>. QED  BY <1>2 DEF AfterRefusal, AfterRebind, Entries, MayEnter

LEMMA FindInv == ASSUME IInv, NEW r \in Requests, Find(r) PROVE IInv'
<1>. DEFINE s == req[r].expected
            a == req[r].rebind
<1>1. /\ req[r].pc = "find"
      /\ UNCHANGED <<fileVars, processVars, daemonVars, ledgerVars, countVars>>
      /\ \/ \E p \in Successors(s) :
               req' = [req EXCEPT ![r].pc = "rewrite", ![r].found = process[p].id,
                                  ![r].by = IF req[r].kind \in Sends THEN p ELSE @]
         \/ Go(r, AfterRefusal(r))
  BY DEF Find
<1>2. CASE Go(r, AfterRefusal(r))
  BY <1>1, <1>2, AfterSuccession, OnInv
<1>3. CASE \E p \in Successors(s) :
               req' = [req EXCEPT ![r].pc = "rewrite", ![r].found = process[p].id,
                                  ![r].by = IF req[r].kind \in Sends THEN p ELSE @]
  <2>1. PICK p \in Successors(s) :
               req' = [req EXCEPT ![r].pc = "rewrite", ![r].found = process[p].id,
                                  ![r].by = IF req[r].kind \in Sends THEN p ELSE @]
    BY <1>3
  <2>. DEFINE by == IF req[r].kind \in Sends THEN p ELSE req[r].by
              x == [req[r] EXCEPT !.pc = "rewrite", !.found = process[p].id, !.by = by]
  <2>2. /\ RequestOK(req[r]) /\ req[r] \in Record /\ a \in Aliases /\ s \in Heirs(a)
        /\ req[r].alias \in Aliases /\ req[r].by \in Processes /\ req[r].kind \in Kinds \cup {"ring"} /\ up
    BY <1>1 DEF IInv, RequestsOK, RequestOK
  <2>3. /\ p \in Processes /\ Live(p) /\ process[p].resumes = s /\ ~process[p].fork
        /\ s \in Sessions /\ s # None /\ process[p].id \in Sessions
    <3>1. p \in Processes /\ Live(p) /\ process[p].resumes = s /\ ~process[p].fork
      BY DEF Successors, Lane, Carries
    <3>2. s \in Sessions /\ s # None
      BY <2>2 DEF Heirs, Sessions, None
    <3>3. process[p].id \in 0..MaxSession
      BY <3>1 DEF IInv, TypeOK
    <3>. QED  BY <3>1, <3>2, <3>3, TargetsAssumption DEF Live, Sessions, None
  <2>4. process[p].id \in Heirs(a)
    <3>1. [from |-> s, to |-> process[p].id] \in receipts
      BY <2>3 DEF IInv, ReceiptsOK
    <3>. QED  BY <2>2, <2>3, <3>1, ReceiptHeir
  <2>5. by \in Processes /\ by \in 0..MaxProcess /\ process[p].id \in 0..MaxSession
    <3>1. by \in Processes
      BY <2>2, <2>3
    <3>. QED  BY <2>3, <3>1, TargetsAssumption DEF Processes, Sessions
  <2>6. req' = [req EXCEPT ![r] = x]
    BY <2>1 DEF IInv, RequestsOK
  <2>. HIDE DEF by
  <2>7. x \in Record
    BY <2>2, <2>5, PlacesAndNone DEF Record
  <2>8. /\ x.pc = "rewrite" /\ x.found = process[p].id /\ x.by = by /\ x.kind = req[r].kind
        /\ x.alias = req[r].alias /\ x.rebind = a
    BY <2>2 DEF Record
  <2>9. req[r].kind \notin {"register_codex", "unregister"}
    BY <1>1, AfterSuccession
  <2>10. RequestOK(x)
    BY <2>2, <2>4, <2>5, <2>8, <2>9 DEF RequestOK
  <2>. HIDE DEF x
  <2>11. UNCHANGED <<claude, codex, stamp, history, seen, sentTo, registered, asks, faults>>
    BY <1>1 DEF fileVars, ledgerVars, countVars
  <2>12. /\ history' \in [Aliases -> SUBSET Sessions] /\ seen' \in [Sessions -> 0..MaxProcess]
         /\ sentTo' \in [Aliases -> [Sessions -> 0..MaxProcess]]
         /\ asks' \in 0..MaxWork /\ faults' \in 0..MaxWork
    BY <2>11 DEF IInv, TypeOK
  <2>13. req[r].pc \notin {"read", "assign", "first", "second"}
         /\ x.pc \notin {"read", "assign", "first", "second"}
    BY <1>1, <2>8
  <2>. QED  BY <1>1, <2>6, <2>7, <2>10, <2>11, <2>12, <2>13, QuietInv
<1>. QED  BY <1>1, <1>2, <1>3
-----------------------------------------------------------------------------
\* Who writes has the queue, so nobody else is between two writes; what it
\* writes is lawful, keeps every alias in one table, and is a new version
\* of the table unless that is as it was.
LEMMA WriteInv ==
    ASSUME IInv, NEW r \in Requests, NEW x \in Record, req' = [req EXCEPT ![r] = x], RequestOK(x)',
           queue \in {r, "free"}, queue' = IF x.pc \in {"first", "second"} THEN r ELSE "free",
           req[r].pc \notin {"read", "assign"}, x.pc \notin {"read", "assign"},
           claude' \in TableType, codex' \subseteq Aliases,
           AliasInOneTable', Lawful(claude)',
           (stamp' = stamp /\ claude' = claude) \/ stamp' = stamp + 1,
           registered \subseteq registered', registered' \subseteq [alias : Aliases, id : Sessions],
           UNCHANGED <<history, processVars, up, table, watch, unreadable, overlapped, seen, sentTo, countVars>>
    PROVE  IInv'
<1>. USE DEF processVars, countVars
<1>1. \A q \in Requests \ {r} : req[q].pc \notin {"first", "second"} /\ queue # q
  <2>. SUFFICES ASSUME NEW q \in Requests \ {r}
                PROVE  req[q].pc \notin {"first", "second"} /\ queue # q
    OBVIOUS
  <2>1. queue # q
    BY TargetsAssumption
  <2>2. (queue = q) = (req[q].pc \in {"first", "second"})
    BY DEF IInv, TypeOK
  <2>. QED  BY <2>1, <2>2
<1>2. /\ RequestsOK' /\ req'[r] = x
      /\ \A q \in Requests \ {r} : req'[q] = req[q]
  BY <1>1, RequestStep
<1>3. ASSUME NEW q \in Requests PROVE (queue' = q) = (req'[q].pc \in {"first", "second"})
  <2>1. CASE q = r
    BY <2>1, <1>2, TargetsAssumption
  <2>2. CASE q # r
    <3>1. req'[q].pc \notin {"first", "second"}
      BY <2>2, <1>1, <1>2
    <3>2. queue' # q
      BY <2>2, TargetsAssumption
    <3>. QED  BY <3>1, <3>2
  <2>. QED  BY <2>1, <2>2
<1>4. stamp' \in Nat /\ watch' \in 0..stamp' /\ queue' \in Requests \cup {"free"}
  BY DEF IInv, TypeOK
<1>5. TypeOK'
  BY <1>3, <1>4 DEF IInv, TypeOK
<1>6. ReceiptsOK'
  BY DEF IInv, ReceiptsOK, Live
<1>7. TablesOK'
  <2>1. \A a \in Aliases : table[a] # None => table[a] \in Heirs(a)'
    BY LawfulGrows DEF IInv, TablesOK
  <2>. QED  BY <2>1 DEF TablesOK, Lawful
<1>8. WatchOK'
  <2>1. CASE stamp' = stamp /\ claude' = claude
    BY <2>1, <1>2 DEF IInv, WatchOK, Reading
  <2>2. CASE stamp' = stamp + 1
    <3>1. watch' # stamp'
      BY <2>2 DEF IInv, TypeOK
    <3>. QED  BY <3>1 DEF WatchOK
  <2>. QED  BY <2>1, <2>2
<1>. QED  BY <1>2, <1>5, <1>6, <1>7, <1>8 DEF IInv

\* What is on record when somebody has the queue, or it is free.
LEMMA Facts ==
    ASSUME IInv
    PROVE  /\ claude \in TableType /\ codex \subseteq Aliases /\ Lawful(claude)
           /\ registered \subseteq [alias : Aliases, id : Sessions]
           /\ \A r \in Requests :
                 /\ req[r] \in Record /\ RequestOK(req[r])
                 /\ (queue = r) = (req[r].pc \in {"first", "second"})
BY DEF IInv, RequestsOK, TypeOK, TablesOK

LEMMA RewriteInv == ASSUME IInv, NEW r \in Requests, Rewrite(r) PROVE IInv'
<1>. DEFINE a == req[r].rebind
<1>1. /\ req[r].pc = "rewrite" /\ queue = "free"
      /\ UNCHANGED <<codex, history, processVars, daemonVars, ledgerVars, countVars>>
      /\ \/ Go(r, AfterRefusal(r)) /\ UNCHANGED <<claude, stamp>>
         \/ Reread(r, AfterRebind(r)) /\ UNCHANGED <<claude, stamp>>
         \/ /\ claude[a] # None
            /\ claude' = [claude EXCEPT ![a] = req[r].found] /\ stamp' = stamp + 1
            /\ req' = [req EXCEPT ![r].pc = "remember", ![r].expected = claude[a]]
  BY DEF Rewrite, Repoint
<1>2. CASE (Go(r, AfterRefusal(r)) \/ Reread(r, AfterRebind(r))) /\ UNCHANGED <<claude, stamp>>
  <2>1. UNCHANGED <<fileVars, processVars, daemonVars, ledgerVars, countVars>>
    BY <1>1, <1>2 DEF fileVars
  <2>. QED  BY <1>1, <1>2, <2>1, AfterSuccession, OnInv
<1>3. CASE /\ claude[a] # None
           /\ claude' = [claude EXCEPT ![a] = req[r].found] /\ stamp' = stamp + 1
           /\ req' = [req EXCEPT ![r].pc = "remember", ![r].expected = claude[a]]
  <2>. SUFFICES ASSUME NEW x, x = [req[r] EXCEPT !.pc = "remember", !.expected = claude[a]]
                PROVE  IInv'
    OBVIOUS
  <2>1. /\ claude \in TableType /\ codex \subseteq Aliases /\ Lawful(claude)
        /\ req[r] \in Record /\ RequestOK(req[r]) /\ a \in Aliases /\ req[r].found \in Heirs(a)
        /\ req[r].found \in 0..MaxSession
    BY <1>1, Facts DEF RequestOK, Record
  <2>2. /\ UNCHANGED <<history, processVars, up, table, watch, unreadable, overlapped, seen, sentTo, countVars>>
        /\ queue' = "free" /\ registered' = registered /\ codex' = codex /\ receipts' = receipts
    BY <1>1 DEF processVars, daemonVars, ledgerVars
  <2>3. claude[a] \in 0..MaxSession /\ claude[a] \in Sessions
    <3>1. claude[a] \in 0..MaxSession
      BY <2>1 DEF TableType
    <3>. QED  BY <3>1, <1>3, TargetsAssumption DEF Sessions, None
  <2>4. x \in Record
    BY <2>1, <2>3, PlacesAndNone DEF Record
  <2>5. /\ x.pc = "remember" /\ x.expected = claude[a] /\ x.kind = req[r].kind
        /\ x.alias = req[r].alias /\ x.by = req[r].by /\ x.rebind = a
    BY <2>1 DEF Record
  <2>6. req[r].kind \notin {"register_codex", "unregister"}
    BY <1>1, AfterSuccession
  <2>7. RequestOK(x)'
    BY <1>1, <2>1, <2>2, <2>3, <2>5, <2>6 DEF RequestOK, daemonVars
  <2>8. req' = [req EXCEPT ![r] = x]
    BY <1>3 DEF IInv, RequestsOK
  <2>9. AliasInOneTable'
    BY <1>3, <2>1, <2>2 DEF IInv, AliasInOneTable, TableType
  <2>10. Lawful(claude)' /\ claude' \in TableType
    <3>1. \A b \in Aliases : Heirs(b)' = Heirs(b)
      BY <2>2 DEF Heirs, Registered
    <3>. QED  BY <1>3, <2>1, <3>1 DEF Lawful, TableType
  <2>11. registered \subseteq registered' /\ registered' \subseteq [alias : Aliases, id : Sessions]
         /\ codex' \subseteq Aliases
    BY <2>1, <2>2, Facts
  <2>12. queue' = IF x.pc \in {"first", "second"} THEN r ELSE "free"
    BY <2>2, <2>5
  <2>. HIDE DEF a
  <2>. QED  BY <1>1, <1>3, <2>2, <2>4, <2>5, <2>7, <2>8, <2>9, <2>10, <2>11, <2>12, WriteInv
<1>. QED  BY <1>1, <1>2, <1>3

LEMMA RememberInv == ASSUME IInv, NEW r \in Requests, Remember(r) PROVE IInv'
<1>1. /\ req[r].pc = "remember" /\ Reread(r, AfterRebind(r))
      /\ UNCHANGED <<claude, codex, stamp, processVars, daemonVars, ledgerVars, countVars>>
  BY DEF Remember
<1>2. req[r].rebind \in Aliases /\ req[r].expected \in Sessions
  BY <1>1, Facts DEF RequestOK
<1>3. history' \in [Aliases -> SUBSET Sessions]
  <2>1. history \in [Aliases -> SUBSET Sessions]
    BY DEF IInv, TypeOK
  <2>2. \/ history' = [history EXCEPT ![req[r].rebind] = @ \cup {req[r].expected}]
        \/ history' = history
    BY DEF Remember, RecordSuccession
  <2>. QED  BY <1>2, <2>1, <2>2
<1>4. UNCHANGED <<seen, sentTo, registered>>
  BY <1>1 DEF ledgerVars
<1>5. seen' \in [Sessions -> 0..MaxProcess] /\ sentTo' \in [Aliases -> [Sessions -> 0..MaxProcess]]
  BY <1>4 DEF IInv, TypeOK
<1>. QED  BY <1>1, <1>3, <1>4, <1>5, AfterSuccession, GoInv

\* What the ledger says of processes is written as a request ends or goes on.
LEMMA NotedInv ==
    ASSUME IInv, NEW r \in Requests, NEW pc \in {"idle", "enter"}, Go(r, pc),
           req[r].pc \in {"sent", "rebound", "note"},
           seen' \in [Sessions -> 0..MaxProcess],
           sentTo' \in [Aliases -> [Sessions -> 0..MaxProcess]],
           UNCHANGED <<fileVars, processVars, daemonVars, registered, countVars>>
    PROVE  IInv'
<1>1. UNCHANGED <<claude, codex, stamp, history>>
  BY DEF fileVars
<1>2. history' \in [Aliases -> SUBSET Sessions]
  BY <1>1 DEF IInv, TypeOK
<1>3. pc \in Entries /\ MayEnter(r, pc)
  BY DEF Entries, MayEnter
<1>4. req[r].pc \notin {"idle", "read", "assign", "first", "second"}
  OBVIOUS
<1>. QED  BY <1>1, <1>2, <1>3, <1>4, GoInv

LEMMA NoteSentInv == ASSUME IInv, NEW r \in Requests, NoteSent(r) PROVE IInv'
<1>1. req[r].by \in 0..MaxProcess
  BY Facts DEF Record
<1>2. /\ req[r].pc = "sent" /\ Go(r, "idle")
      /\ \/ sentTo' = [sentTo EXCEPT ![req[r].alias][req[r].found] = req[r].by]
         \/ sentTo' = sentTo
      /\ UNCHANGED <<fileVars, processVars, daemonVars, seen, registered, countVars>>
  BY DEF NoteSent, Finish
<1>3. seen' \in [Sessions -> 0..MaxProcess] /\ sentTo' \in [Aliases -> [Sessions -> 0..MaxProcess]]
  <2>1. seen \in [Sessions -> 0..MaxProcess] /\ sentTo \in [Aliases -> [Sessions -> 0..MaxProcess]]
    BY DEF IInv, TypeOK
  <2>2. CASE sentTo' = sentTo
    BY <1>2, <2>1, <2>2
  <2>3. CASE sentTo' = [sentTo EXCEPT ![req[r].alias][req[r].found] = req[r].by]
    BY <1>1, <1>2, <2>1, <2>3
  <2>. QED  BY <1>2, <2>2, <2>3
<1>. QED  BY <1>2, <1>3, NotedInv

LEMMA NoteReboundInv == ASSUME IInv, NEW r \in Requests, NoteRebound(r) PROVE IInv'
<1>1. req[r].by \in 0..MaxProcess
  BY Facts DEF Record
<1>2. /\ req[r].pc = "rebound" /\ Go(r, "enter")
      /\ seen' = [seen EXCEPT ![process[req[r].by].id] = req[r].by] \/ seen' = seen
      /\ UNCHANGED <<fileVars, processVars, daemonVars, sentTo, registered, countVars>>
  BY DEF NoteRebound
<1>3. seen' \in [Sessions -> 0..MaxProcess] /\ sentTo' \in [Aliases -> [Sessions -> 0..MaxProcess]]
  BY <1>1, <1>2 DEF IInv, TypeOK
<1>. QED  BY <1>2, <1>3, NotedInv

LEMMA NoteRegisteredInv == ASSUME IInv, NEW r \in Requests, NoteRegistered(r) PROVE IInv'
<1>1. req[r].by \in 0..MaxProcess
  BY Facts DEF Record
<1>2. /\ req[r].pc = "note" /\ Go(r, "idle")
      /\ seen' = [seen EXCEPT ![req[r].found] = req[r].by]
      /\ UNCHANGED <<fileVars, processVars, daemonVars, sentTo, registered, countVars>>
  BY DEF NoteRegistered, Finish
<1>3. seen' \in [Sessions -> 0..MaxProcess] /\ sentTo' \in [Aliases -> [Sessions -> 0..MaxProcess]]
  BY <1>1, <1>2 DEF IInv, TypeOK
<1>. QED  BY <1>2, <1>3, NotedInv
-----------------------------------------------------------------------------
\* A writer takes the queue and has written nothing yet.
LEMMA TurnInv ==
    ASSUME IInv, NEW r \in Requests, NEW x \in Record, req' = [req EXCEPT ![r] = x], RequestOK(x),
           req[r].pc = "enter", queue = "free", queue' = r, x.pc = "first",
           UNCHANGED <<fileVars, processVars, up, table, watch, unreadable, overlapped, ledgerVars, countVars>>
    PROVE  IInv'
<1>1. UNCHANGED <<claude, codex, stamp, history, receipts, seen, sentTo, registered>>
  BY DEF fileVars, ledgerVars, processVars
<1>2. RequestOK(x)'
  <2>1. x.rebind \in Aliases \cup {None} /\ (x.pc # "idle" => up')
    BY DEF Record, RequestOK
  <2>. QED  BY <1>1, <2>1, RequestGrows
<1>3. claude' \in TableType /\ codex' \subseteq Aliases
      /\ registered \subseteq registered' /\ registered' \subseteq [alias : Aliases, id : Sessions]
  BY <1>1, Facts
<1>4. AliasInOneTable' /\ Lawful(claude)'
  <2>1. \A b \in Aliases : Heirs(b)' = Heirs(b)
    BY <1>1 DEF Heirs, Registered
  <2>. QED  BY <1>1, <2>1, Facts DEF Lawful, AliasInOneTable, IInv
<1>5. queue' = IF x.pc \in {"first", "second"} THEN r ELSE "free"
  OBVIOUS
<1>. QED  BY <1>1, <1>2, <1>3, <1>4, <1>5, WriteInv

LEMMA EnterClaudeInv == ASSUME IInv, NEW r \in Requests, EnterClaude(r) PROVE IInv'
<1>. DEFINE s == process[req[r].by].id
            x == [req[r] EXCEPT !.pc = "first", !.found = s]
<1>1. /\ req[r].pc = "enter" /\ req[r].kind = "register" /\ queue = "free"
      /\ UNCHANGED <<fileVars, processVars, up, table, watch, unreadable, overlapped, ledgerVars, countVars>>
      /\ \/ (Go(r, "idle") \/ Reread(r, "idle")) /\ UNCHANGED queue
         \/ /\ s # None /\ queue' = r
            /\ req' = [req EXCEPT ![r].pc = "first", ![r].found = s]
  BY DEF EnterClaude, Finish
<1>2. CASE (Go(r, "idle") \/ Reread(r, "idle")) /\ UNCHANGED queue
  <2>1. UNCHANGED daemonVars
    BY <1>1, <1>2 DEF daemonVars
  <2>2. "idle" \in Entries /\ MayEnter(r, "idle")
    BY DEF Entries, MayEnter
  <2>. QED  BY <1>1, <1>2, <2>1, <2>2, OnInv
<1>3. CASE s # None /\ queue' = r /\ req' = [req EXCEPT ![r].pc = "first", ![r].found = s]
  <2>1. /\ req[r] \in Record /\ RequestOK(req[r]) /\ req[r].by \in Processes
        /\ req[r].alias \in Aliases /\ up
    BY <1>1, Facts DEF RequestOK
  <2>2. s \in 0..MaxSession /\ s \in Sessions
    <3>1. s \in 0..MaxSession
      BY <2>1 DEF IInv, TypeOK
    <3>. QED  BY <3>1, <1>3, TargetsAssumption DEF Sessions, None
  <2>3. x \in Record
    BY <2>1, <2>2, PlacesAndNone DEF Record
  <2>4. /\ x.pc = "first" /\ x.found = s /\ x.kind = "register" /\ x.by = req[r].by
        /\ x.alias = req[r].alias
    BY <1>1, <2>1 DEF Record
  <2>5. RequestOK(x)
    BY <2>1, <2>2, <2>4 DEF RequestOK, Kinds
  <2>6. req' = [req EXCEPT ![r] = x]
    BY <1>3 DEF IInv, RequestsOK
  <2>. HIDE DEF x
  <2>. QED  BY <1>1, <1>3, <2>3, <2>4, <2>5, <2>6, TurnInv
<1>. QED  BY <1>1, <1>2, <1>3

LEMMA EnterCodexInv == ASSUME IInv, NEW r \in Requests, EnterCodex(r) PROVE IInv'
<1>. DEFINE x == [req[r] EXCEPT !.pc = "first", !.rebind = None, !.expected = None]
<1>1. /\ req[r].pc = "enter" /\ req[r].kind = "register_codex" /\ queue = "free"
      /\ UNCHANGED <<fileVars, processVars, up, table, watch, unreadable, overlapped, ledgerVars, countVars>>
      /\ \/ Go(r, "idle") /\ UNCHANGED queue
         \/ queue' = r /\ Go(r, "first")
  BY DEF EnterCodex, Finish
<1>2. CASE Go(r, "idle") /\ UNCHANGED queue
  <2>1. UNCHANGED daemonVars
    BY <1>1, <1>2 DEF daemonVars
  <2>2. "idle" \in Entries /\ MayEnter(r, "idle")
    BY DEF Entries, MayEnter
  <2>. QED  BY <1>1, <1>2, <2>1, <2>2, OnInv
<1>3. CASE queue' = r /\ Go(r, "first")
  <2>1. /\ req[r] \in Record /\ RequestOK(req[r]) /\ req[r].by \in Processes
        /\ req[r].alias \in Aliases /\ up /\ req[r].found = None /\ req[r].after \in {"idle", "enter"}
    BY <1>1, Facts DEF RequestOK
  <2>2. x \in Record
    BY ZenonT(60), <2>1, PlacesAndNone DEF Record
  <2>3. /\ x.pc = "first" /\ x.found = None /\ x.kind = "register_codex" /\ x.by = req[r].by
        /\ x.alias = req[r].alias /\ x.after = req[r].after
    BY <1>1, <2>1 DEF Record
  <2>4. RequestOK(x)
    BY <2>1, <2>3 DEF RequestOK, Kinds
  <2>5. req' = [req EXCEPT ![r] = x]
    BY <1>3 DEF Go
  <2>. HIDE DEF x
  <2>. QED  BY <1>1, <1>3, <2>2, <2>3, <2>4, <2>5, TurnInv
<1>. QED  BY <1>1, <1>2, <1>3

\* The row that a registration adds is the id that the caller proved, and no
\* other row gets one.
LEMMA NextClaudeRows ==
    ASSUME IInv, NEW r \in Requests, req[r].found \in 0..MaxSession
    PROVE  /\ NextClaude(r) \in TableType
           /\ \A a \in Aliases \ {req[r].alias} : NextClaude(r)[a] \in {claude[a], None}
           /\ req[r].alias \in Aliases => NextClaude(r)[req[r].alias] = req[r].found
<1>1. claude \in TableType /\ None \in 0..MaxSession
  BY Facts, PlacesAndNone
<1>. QED  BY <1>1 DEF NextClaude, TableType

\* A step of who is between its writes: whoever that is.
LEMMA Writer ==
    ASSUME IInv, NEW r \in Requests, req[r].pc \in {"first", "second"}
    PROVE  /\ req[r] \in Record /\ RequestOK(req[r]) /\ queue = r /\ up
           /\ req[r].alias \in Aliases /\ req[r].by \in Processes
           /\ req[r].kind \in {"register", "register_codex"}
           /\ req[r].found \in 0..MaxSession
           /\ req[r].kind = "register" => req[r].found \in Sessions
           /\ req[r].kind = "register_codex" => req[r].found = None
<1>1. /\ req[r] \in Record /\ RequestOK(req[r])
      /\ (queue = r) = (req[r].pc \in {"first", "second"})
  BY Facts
<1>. QED  BY <1>1 DEF RequestOK, Record

LEMMA WriteFirstInv == ASSUME IInv, NEW r \in Requests, WriteFirst(r) PROVE IInv'
<1>. SUFFICES ASSUME NEW x, x = [req[r] EXCEPT !.pc = "second"]
              PROVE  IInv'
  OBVIOUS
<1>1. /\ req[r].pc = "first" /\ req' = [req EXCEPT ![r].pc = "second"]
      /\ UNCHANGED <<history, processVars, daemonVars, ledgerVars, countVars>>
      /\ req[r].kind = "register" => WriteCodex(r)
      /\ req[r].kind # "register" => WriteClaude(r)
  BY DEF WriteFirst
<1>2. /\ req[r] \in Record /\ RequestOK(req[r]) /\ queue = r /\ up
      /\ req[r].alias \in Aliases /\ req[r].by \in Processes
      /\ req[r].kind \in {"register", "register_codex"}
      /\ req[r].found \in 0..MaxSession
      /\ req[r].kind = "register" => req[r].found \in Sessions
      /\ req[r].kind = "register_codex" => req[r].found = None
  BY <1>1, Writer
<1>3. /\ claude \in TableType /\ codex \subseteq Aliases /\ Lawful(claude)
      /\ registered \subseteq [alias : Aliases, id : Sessions]
  BY Facts
<1>4. /\ UNCHANGED <<history, processVars, up, table, watch, unreadable, overlapped, seen, sentTo, countVars>>
      /\ queue' = r /\ registered' = registered /\ receipts' = receipts /\ up' = up
  BY <1>1, <1>2 DEF processVars, daemonVars, ledgerVars
<1>5. /\ x \in Record /\ x.pc = "second" /\ x.kind = req[r].kind /\ x.alias = req[r].alias
      /\ x.by = req[r].by /\ x.found = req[r].found /\ x.after = req[r].after
  <2>1. x \in Record
    BY <1>2, PlacesAndNone DEF Record
  <2>. QED  BY <1>2, <2>1 DEF Record
<1>6. req' = [req EXCEPT ![r] = x]
  BY <1>1 DEF IInv, RequestsOK
<1>7. \A b \in Aliases : Heirs(b)' = Heirs(b)
  BY <1>4 DEF Heirs, Registered
<1>8. queue' = IF x.pc \in {"first", "second"} THEN r ELSE "free"
  BY <1>4, <1>5
<1>9. CASE req[r].kind = "register"
  <2>1. codex' = codex \ {req[r].alias} /\ claude' = claude /\ stamp' = stamp
    BY <1>1, <1>9 DEF WriteCodex, NextCodex
  <2>2. RequestOK(x)'
    BY <1>2, <1>4, <1>5, <1>9, <2>1 DEF RequestOK, Kinds
  <2>3. AliasInOneTable' /\ Lawful(claude)' /\ claude' \in TableType /\ codex' \subseteq Aliases
    BY <1>3, <1>7, <2>1 DEF AliasInOneTable, Lawful, IInv
  <2>. QED  BY <1>1, <1>2, <1>3, <1>4, <1>5, <1>6, <1>8, <2>1, <2>2, <2>3, WriteInv
<1>10. CASE req[r].kind = "register_codex"
  <2>1. /\ claude' = NextClaude(r) /\ codex' = codex
        /\ (stamp' = stamp /\ claude' = claude) \/ stamp' = stamp + 1
    BY <1>1, <1>10 DEF WriteClaude
  <2>2. /\ claude' \in TableType /\ claude'[req[r].alias] = None
        /\ \A a \in Aliases : claude'[a] \in {claude[a], None}
    BY <1>2, <1>10, <2>1, NextClaudeRows
  <2>3. RequestOK(x)'
    BY <1>2, <1>4, <1>5, <1>10, <2>2 DEF RequestOK, Kinds
  <2>4. AliasInOneTable' /\ Lawful(claude)' /\ codex' \subseteq Aliases
    BY <1>3, <1>7, <2>1, <2>2 DEF AliasInOneTable, Lawful, IInv
  <2>. QED  BY <1>1, <1>2, <1>3, <1>4, <1>5, <1>6, <1>8, <2>1, <2>2, <2>3, <2>4, WriteInv
<1>. QED  BY <1>2, <1>9, <1>10

LEMMA WriteSecondInv == ASSUME IInv, NEW r \in Requests, WriteSecond(r) PROVE IInv'
<1>. DEFINE pc == IF req[r].kind = "register" THEN "note" ELSE "idle"
<1>. SUFFICES ASSUME NEW x, x = Back(r, pc)
              PROVE  IInv'
  OBVIOUS
<1>1. /\ req[r].pc = "second" /\ Reread(r, pc) /\ queue' = "free"
      /\ UNCHANGED <<history, processVars, up, table, watch, unreadable, overlapped, seen, sentTo, countVars>>
      /\ req[r].kind = "register" =>
            /\ WriteClaude(r)
            /\ registered' = registered \cup {[alias |-> req[r].alias, id |-> req[r].found]}
      /\ req[r].kind # "register" => WriteCodex(r) /\ registered' = registered
  BY DEF WriteSecond, Release
<1>2. /\ req[r] \in Record /\ RequestOK(req[r]) /\ queue = r /\ up
      /\ req[r].alias \in Aliases /\ req[r].by \in Processes
      /\ req[r].kind \in {"register", "register_codex"}
      /\ req[r].found \in 0..MaxSession
      /\ req[r].kind = "register" => req[r].found \in Sessions
      /\ req[r].kind = "register_codex" => req[r].found = None
  BY <1>1, Writer
<1>3. /\ claude \in TableType /\ codex \subseteq Aliases /\ Lawful(claude)
      /\ registered \subseteq [alias : Aliases, id : Sessions] /\ RequestsOK
  BY Facts DEF IInv
<1>4. up' = up /\ receipts' = receipts
  BY <1>1 DEF processVars
<1>5. x \in Record /\ RequestOK(x) /\ x.pc = "observe"
  <2>1. pc \in Entries /\ MayEnter(r, pc)
    BY <1>2 DEF Entries, MayEnter
  <2>. QED  BY <1>1, <1>2, <1>3, <2>1, Returns
<1>6. req' = [req EXCEPT ![r] = x]
  BY <1>1, <1>3 DEF Reread, Back, RequestsOK
<1>7. registered \subseteq registered' /\ registered' \subseteq [alias : Aliases, id : Sessions]
  BY <1>1, <1>2, <1>3
<1>8. RequestOK(x)'
  <2>1. x.rebind \in Aliases \cup {None}
    BY <1>5 DEF Record
  <2>. QED  BY <1>2, <1>4, <1>5, <1>7, <2>1, RequestGrows
<1>9. queue' = IF x.pc \in {"first", "second"} THEN r ELSE "free"
  BY <1>1, <1>5
<1>10. \A a \in Aliases : claude[a] # None => claude[a] \in Heirs(a)'
  BY <1>3, <1>4, <1>7, LawfulGrows
<1>. HIDE DEF pc
<1>11. CASE req[r].kind = "register"
  <2>1. /\ claude' = NextClaude(r) /\ codex' = codex
        /\ (stamp' = stamp /\ claude' = claude) \/ stamp' = stamp + 1
        /\ [alias |-> req[r].alias, id |-> req[r].found] \in registered'
    BY <1>1, <1>11 DEF WriteClaude
  <2>2. /\ claude' \in TableType /\ claude'[req[r].alias] = req[r].found
        /\ \A a \in Aliases \ {req[r].alias} : claude'[a] \in {claude[a], None}
    BY <1>2, <2>1, NextClaudeRows
  <2>3. ASSUME NEW a \in Aliases, claude'[a] # None PROVE claude'[a] \in Heirs(a)'
    <3>1. CASE a = req[r].alias
      <4>1. \A s : s = req[r].found => s \in Heirs(a)'
        BY <1>2, <1>11, <2>1, <3>1, RegisteredHeir
      <4>. QED  BY <2>2, <3>1, <4>1
    <3>2. CASE a # req[r].alias
      BY <1>10, <2>2, <2>3, <3>2
    <3>. QED  BY <3>1, <3>2
  <2>4. Lawful(claude)'
    BY <2>3 DEF Lawful
  <2>5. req[r].alias \notin codex
    BY <1>1, <1>2, <1>11 DEF RequestOK
  <2>6. AliasInOneTable' /\ codex' \subseteq Aliases
    BY <1>3, <2>1, <2>2, <2>5 DEF AliasInOneTable, IInv
  <2>. QED  BY <1>1, <1>2, <1>5, <1>6, <1>7, <1>8, <1>9, <2>1, <2>2, <2>4, <2>6, WriteInv
<1>12. CASE req[r].kind = "register_codex"
  <2>1. codex' = {req[r].alias} /\ claude' = claude /\ stamp' = stamp
    BY <1>1, <1>12 DEF WriteCodex, NextCodex
  <2>2. claude[req[r].alias] = None
    BY <1>1, <1>2, <1>12 DEF RequestOK
  <2>3. AliasInOneTable' /\ Lawful(claude)' /\ claude' \in TableType /\ codex' \subseteq Aliases
    BY <1>2, <1>3, <1>10, <2>1, <2>2 DEF AliasInOneTable, Lawful
  <2>. QED  BY <1>1, <1>2, <1>5, <1>6, <1>7, <1>8, <1>9, <2>1, <2>3, WriteInv
<1>. QED  BY <1>2, <1>11, <1>12

LEMMA UnregisterInv == ASSUME IInv, NEW r \in Requests, Unregister(r) PROVE IInv'
<1>. SUFFICES ASSUME NEW x, x = Back(r, "idle")
              PROVE  IInv'
  OBVIOUS
<1>. DEFINE a == req[r].alias
<1>1. /\ req[r].pc = "enter" /\ req[r].kind = "unregister" /\ queue = "free"
      /\ Reread(r, "idle") /\ Removed(a)
      /\ UNCHANGED <<history, processVars, daemonVars, ledgerVars, countVars>>
  BY DEF Unregister
<1>2. /\ req[r] \in Record /\ RequestOK(req[r]) /\ a \in Aliases /\ up /\ req[r].found = None
  BY <1>1, Facts DEF RequestOK
<1>3. /\ claude \in TableType /\ codex \subseteq Aliases /\ Lawful(claude)
      /\ registered \subseteq [alias : Aliases, id : Sessions] /\ RequestsOK
  BY Facts DEF IInv
<1>4. /\ UNCHANGED <<history, processVars, up, table, watch, unreadable, overlapped, seen, sentTo, countVars>>
      /\ queue' = "free" /\ registered' = registered /\ receipts' = receipts /\ up' = up
  BY <1>1 DEF processVars, daemonVars, ledgerVars
<1>5. x \in Record /\ RequestOK(x) /\ x.pc = "observe"
  BY <1>1, <1>2, <1>3, Returns DEF Entries, MayEnter
<1>6. req' = [req EXCEPT ![r] = x]
  BY <1>1, <1>3 DEF Reread, Back, RequestsOK
<1>7. RequestOK(x)'
  <2>1. x.rebind \in Aliases \cup {None}
    BY <1>5 DEF Record
  <2>. QED  BY <1>2, <1>4, <1>5, <2>1, RequestGrows
<1>8. \A b \in Aliases : Heirs(b)' = Heirs(b)
  BY <1>4 DEF Heirs, Registered
<1>9. /\ claude' \in TableType /\ codex' \subseteq codex
      /\ \A b \in Aliases : claude'[b] \in {claude[b], None}
      /\ (stamp' = stamp /\ claude' = claude) \/ stamp' = stamp + 1
  <2>1. \/ claude' = [claude EXCEPT ![a] = None] /\ stamp' = stamp + 1 /\ codex' = codex
        \/ codex' = codex \ {a} /\ claude' = claude /\ stamp' = stamp
    BY <1>1 DEF Removed, Repoint
  <2>. QED  BY <1>2, <1>3, <2>1, PlacesAndNone DEF TableType
<1>10. AliasInOneTable' /\ Lawful(claude)'
  BY <1>3, <1>8, <1>9 DEF AliasInOneTable, Lawful, IInv
<1>11. queue' = IF x.pc \in {"first", "second"} THEN r ELSE "free"
  BY <1>4, <1>5
<1>. HIDE DEF a
<1>. QED  BY <1>1, <1>3, <1>4, <1>5, <1>6, <1>7, <1>9, <1>10, <1>11, WriteInv
-----------------------------------------------------------------------------
\* The evidence grows and no request moves.
LEMMA EvidenceInv ==
    ASSUME IInv, UNCHANGED <<fileVars, daemonVars, req, seen, sentTo, registered>>,
           receipts \subseteq receipts', TypeOK', ReceiptsOK'
    PROVE  IInv'
<1>. USE DEF fileVars, daemonVars
<1>1. RequestsOK'
  <2>1. ASSUME NEW q \in Requests PROVE RequestOK(req[q])'
    <3>1. /\ RequestOK(req[q]) /\ (req[q].pc # "idle" => up')
          /\ req[q].rebind \in Aliases \cup {None}
      BY Facts DEF RequestOK, Record
    <3>2. \A y : y = req[q] => RequestOK(y)'
      BY <3>1, RequestGrows
    <3>. QED  BY <3>2
  <2>. QED  BY <2>1 DEF RequestsOK, IInv
<1>2. TablesOK'
  <2>1. (\A a \in Aliases : claude[a] # None => claude[a] \in Heirs(a)')
        /\ (\A a \in Aliases : table[a] # None => table[a] \in Heirs(a)')
    BY LawfulGrows DEF IInv, TablesOK
  <2>. QED  BY <2>1 DEF TablesOK, Lawful
<1>3. AliasInOneTable' /\ WatchOK'
  BY DEF IInv, AliasInOneTable, WatchOK, Reading
<1>. QED  BY <1>1, <1>2, <1>3 DEF IInv

\* What a process is, when it becomes another row of the directory.
Row == [id : 0..MaxSession, resumes : 0..MaxSession, fork : BOOLEAN]

LEMMA ProcessStep ==
    ASSUME IInv, NEW p \in Processes, NEW row \in Row, process' = [process EXCEPT ![p] = row],
           receipts \subseteq receipts',
           row.id # None /\ row.resumes # None /\ ~row.fork =>
               [from |-> row.resumes, to |-> row.id] \in receipts'
    PROVE  /\ process' \in [Processes -> [id : 0..MaxSession, resumes : 0..MaxSession, fork : BOOLEAN]]
           /\ ReceiptsOK'
<1>1. process \in [Processes -> Row]
  BY DEF IInv, TypeOK, Row
<1>2. /\ process' \in [Processes -> Row] /\ process'[p] = row
      /\ \A q \in Processes \ {p} : process'[q] = process[q]
  BY <1>1
<1>3. ASSUME NEW q \in Processes, process'[q].id # None, process'[q].resumes # None,
             ~process'[q].fork
      PROVE  [from |-> process'[q].resumes, to |-> process'[q].id] \in receipts'
  <2>1. CASE q = p
    BY <2>1, <1>2, <1>3
  <2>2. CASE q # p
    BY <2>2, <1>2, <1>3 DEF IInv, ReceiptsOK, Live
  <2>. QED  BY <2>1, <2>2
<1>. QED  BY <1>2, <1>3 DEF ReceiptsOK, Live, Row

\* An id that a session may get is one there is or the next one.
LEMMA NamesOK ==
    ASSUME IInv, NEW s, Names(s), s \in Nat
    PROVE  s \in Sessions /\ s \in 0..MaxSession /\ born' \in Sessions
BY TargetsAssumption DEF IInv, TypeOK, Names, Sessions

LEMMA LaunchInv ==
    ASSUME IInv, NEW s \in Sessions, NEW resumes \in Sessions \cup {None}, NEW fork \in BOOLEAN,
           Launch(s, resumes, fork)
    PROVE  IInv'
<1>. DEFINE p == launched + 1
            row == [id |-> s, resumes |-> resumes, fork |-> fork]
<1>1. /\ launched < MaxProcess /\ Names(s) /\ launched' = p
      /\ process' = [process EXCEPT ![p] = row]
      /\ receipts' = IF resumes # None /\ ~fork
                       THEN receipts \cup {[from |-> resumes, to |-> s]} ELSE receipts
      /\ UNCHANGED <<fileVars, daemonVars, req, ledgerVars, countVars>>
  BY DEF Launch
<1>2. p \in Processes /\ launched' \in Processes
  BY <1>1, TargetsAssumption DEF IInv, TypeOK, Processes
<1>3. s \in 0..MaxSession /\ resumes \in 0..MaxSession /\ born' \in Sessions
  <2>1. s \in Nat /\ resumes \in 0..MaxSession
    BY TargetsAssumption DEF Sessions, None
  <2>. QED  BY <1>1, <2>1, NamesOK
<1>4. receipts \subseteq receipts' /\ receipts' \subseteq [from : Sessions, to : Sessions]
  <2>1. receipts \subseteq [from : Sessions, to : Sessions]
    BY DEF IInv, TypeOK
  <2>2. resumes # None => resumes \in Sessions
    OBVIOUS
  <2>. QED  BY <1>1, <2>1, <2>2
<1>5. row \in Row /\ row.id = s /\ row.resumes = resumes /\ row.fork = fork
  BY <1>3 DEF Row
<1>. HIDE DEF p, row
<1>6. /\ process' \in [Processes -> [id : 0..MaxSession, resumes : 0..MaxSession, fork : BOOLEAN]]
      /\ ReceiptsOK'
  BY <1>1, <1>2, <1>3, <1>4, <1>5, ProcessStep
<1>7. UNCHANGED <<claude, codex, stamp, history, up, table, watch, unreadable, queue, overlapped, req, seen,
                  sentTo, registered, asks, faults>>
  BY <1>1 DEF fileVars, daemonVars, ledgerVars, countVars
<1>8. TypeOK'
  BY <1>2, <1>3, <1>4, <1>6, <1>7 DEF IInv, TypeOK
<1>. QED  BY <1>1, <1>4, <1>6, <1>7, <1>8, EvidenceInv

LEMMA NoProcessRow == NoProcess \in Row /\ NoProcess.id = None
BY PlacesAndNone DEF NoProcess, Row

LEMMA LeaveInv == ASSUME IInv, NEW p \in Processes, Leave(p) PROVE IInv'
<1>1. /\ process' = [process EXCEPT ![p] = NoProcess]
      /\ UNCHANGED <<fileVars, launched, born, receipts, daemonVars, req, ledgerVars, countVars>>
  BY DEF Leave
<1>2. UNCHANGED <<claude, codex, stamp, history, up, table, watch, unreadable, queue, overlapped, req, seen,
                  sentTo, registered, asks, faults, launched, born, receipts>>
  BY <1>1 DEF fileVars, daemonVars, ledgerVars, countVars
<1>3. /\ process' \in [Processes -> [id : 0..MaxSession, resumes : 0..MaxSession, fork : BOOLEAN]]
      /\ ReceiptsOK'
  BY <1>1, <1>2, NoProcessRow, ProcessStep
<1>4. TypeOK'
  BY <1>2, <1>3 DEF IInv, TypeOK
<1>. QED  BY <1>1, <1>2, <1>3, <1>4, EvidenceInv

LEMMA ClearInv == ASSUME IInv, NEW p \in Processes, NEW s \in Sessions, Clear(p, s) PROVE IInv'
<1>. DEFINE resumes == process[p].resumes
            fork == process[p].fork
            row == [process[p] EXCEPT !.id = s]
<1>1. /\ Live(p) /\ Names(s) /\ Room /\ faults' = faults + 1
      /\ process' = [process EXCEPT ![p].id = s]
      /\ receipts' = IF resumes # None /\ ~fork
                       THEN receipts \cup {[from |-> resumes, to |-> s]} ELSE receipts
      /\ UNCHANGED <<fileVars, launched, daemonVars, req, ledgerVars, asks>>
  BY DEF Clear
<1>2. process \in [Processes -> Row] /\ process[p] \in Row /\ resumes \in 0..MaxSession
  BY DEF IInv, TypeOK, Row
<1>3. s \in 0..MaxSession /\ born' \in Sessions
  <2>1. s \in Nat
    BY DEF Sessions
  <2>. QED  BY <1>1, <2>1, NamesOK
<1>4. receipts \subseteq receipts' /\ receipts' \subseteq [from : Sessions, to : Sessions]
  <2>1. receipts \subseteq [from : Sessions, to : Sessions]
    BY DEF IInv, TypeOK
  <2>2. resumes # None => resumes \in Sessions
    BY <1>2, TargetsAssumption DEF Sessions, None
  <2>. QED  BY <1>1, <2>1, <2>2
<1>5. row \in Row /\ row.id = s /\ row.resumes = resumes /\ row.fork = fork
  BY <1>2, <1>3 DEF Row
<1>6. process' = [process EXCEPT ![p] = row]
  BY <1>1, <1>2
<1>. HIDE DEF resumes, fork, row
<1>7. /\ process' \in [Processes -> [id : 0..MaxSession, resumes : 0..MaxSession, fork : BOOLEAN]]
      /\ ReceiptsOK'
  BY <1>1, <1>4, <1>5, <1>6, ProcessStep
<1>8. UNCHANGED <<claude, codex, stamp, history, up, table, watch, unreadable, queue, overlapped, req, seen,
                  sentTo, registered, asks, launched>>
  BY <1>1 DEF fileVars, daemonVars, ledgerVars
<1>9. faults' \in 0..MaxWork
  BY SMTT(60), <1>1, TargetsAssumption DEF IInv, TypeOK, Room, Processes
<1>10. TypeOK'
  BY <1>3, <1>4, <1>7, <1>8, <1>9 DEF IInv, TypeOK
<1>. QED  BY <1>1, <1>4, <1>7, <1>8, <1>10, EvidenceInv

LEMMA EditInv == ASSUME IInv, NEW a \in Aliases, NEW s \in Sessions, Edit(a, s) PROVE IInv'
<1>1. /\ Room /\ faults' = faults + 1 /\ queue = "free" /\ a \notin codex
      /\ claude' = [claude EXCEPT ![a] = s] /\ stamp' = stamp + 1
      /\ registered' = registered \cup {[alias |-> a, id |-> s]}
      /\ UNCHANGED <<codex, history, processVars, daemonVars, req, seen, sentTo, asks>>
  BY DEF Edit, Repoint
<1>2. UNCHANGED <<codex, history, process, launched, born, receipts, up, table, watch, unreadable,
                  queue, overlapped, req, seen, sentTo, asks>>
  BY <1>1 DEF processVars, daemonVars
<1>3. /\ claude \in TableType /\ codex \subseteq Aliases /\ Lawful(claude)
      /\ registered \subseteq [alias : Aliases, id : Sessions]
  BY Facts
<1>4. registered \subseteq registered' /\ registered' \subseteq [alias : Aliases, id : Sessions]
  BY <1>1, <1>3
<1>5. claude' \in TableType /\ claude'[a] = s /\ \A b \in Aliases \ {a} : claude'[b] = claude[b]
  <2>1. s \in 0..MaxSession
    BY DEF Sessions
  <2>. QED  BY <1>1, <1>3, <2>1 DEF TableType
<1>6. faults' \in 0..MaxWork
  BY <1>1, TargetsAssumption DEF IInv, TypeOK, Room, Processes
<1>7. stamp' \in Nat /\ watch' \in 0..stamp' /\ watch' # stamp'
  BY <1>1, <1>2 DEF IInv, TypeOK
<1>8. TypeOK'
  BY <1>2, <1>4, <1>5, <1>6, <1>7 DEF IInv, TypeOK
<1>9. RequestsOK'
  <2>1. ASSUME NEW q \in Requests PROVE RequestOK(req[q])'
    <3>1. /\ RequestOK(req[q]) /\ (req[q].pc # "idle" => up')
          /\ req[q].rebind \in Aliases \cup {None}
      BY <1>2, Facts DEF RequestOK, Record
    <3>2. req[q].pc # "second"
      BY <1>1, TargetsAssumption DEF IInv, TypeOK
    <3>3. \A y : y = req[q] => RequestOK(y)'
      BY <1>2, <1>4, <3>1, <3>2, RequestGrows
    <3>. QED  BY <1>2, <3>3
  <2>. QED  BY <1>2, <2>1 DEF RequestsOK, IInv
<1>10. TablesOK'
  <2>1. (\A b \in Aliases : claude[b] # None => claude[b] \in Heirs(b)')
        /\ (\A b \in Aliases : table[b] # None => table[b] \in Heirs(b)')
    BY <1>2, <1>4, LawfulGrows DEF IInv, TablesOK
  <2>2. s \in Heirs(a)'
    BY <1>1, RegisteredHeir
  <2>. QED  BY <1>2, <1>5, <2>1, <2>2 DEF TablesOK, Lawful
<1>11. AliasInOneTable' /\ WatchOK' /\ ReceiptsOK'
  BY <1>1, <1>2, <1>3, <1>5, <1>7 DEF IInv, AliasInOneTable, WatchOK, ReceiptsOK, Live
<1>. QED  BY <1>8, <1>9, <1>10, <1>11 DEF IInv

LEMMA CrashInv == ASSUME IInv, Crash PROVE IInv'
<1>1. /\ Room /\ faults' = faults + 1 /\ up' = FALSE /\ queue' = "free" /\ overlapped' = FALSE
      /\ req' = [r \in Requests |-> Idle]
      /\ table' = [a \in Aliases |-> None] /\ watch' = 0 /\ unreadable' = FALSE
      /\ UNCHANGED <<fileVars, processVars, ledgerVars, asks>>
  BY DEF Crash
<1>2. UNCHANGED <<claude, codex, stamp, history, process, launched, born, receipts, seen, sentTo,
                  registered, asks>>
  BY <1>1 DEF fileVars, processVars, ledgerVars
<1>3. Idle \in Record /\ Idle.pc = "idle"
  BY IdleIsRecord
<1>4. RequestsOK' /\ \A r \in Requests : req'[r] = Idle
  <2>1. RequestOK(Idle)'
    BY DEF RequestOK, Idle
  <2>. QED  BY <1>1, <1>3, <2>1 DEF RequestsOK
<1>5. faults' \in 0..MaxWork
  BY <1>1, TargetsAssumption DEF IInv, TypeOK, Room, Processes
<1>6. table' \in TableType /\ watch' \in 0..stamp' /\ \A a \in Aliases : table'[a] = None
  BY <1>1, <1>2, PlacesAndNone DEF IInv, TypeOK, TableType
<1>7. ASSUME NEW r \in Requests PROVE (queue' = r) = (req'[r].pc \in {"first", "second"})
  <2>1. queue' # r /\ req'[r].pc = "idle"
    BY <1>1, <1>3, <1>4, TargetsAssumption
  <2>. QED  BY <2>1
<1>8. /\ up' \in BOOLEAN /\ overlapped' \in BOOLEAN /\ unreadable' \in BOOLEAN
      /\ queue' \in Requests \cup {"free"}
  BY <1>1
<1>9. TypeOK'
  BY <1>2, <1>5, <1>6, <1>7, <1>8 DEF IInv, TypeOK
<1>10. TablesOK'
  <2>1. \A b \in Aliases : claude[b] # None => claude[b] \in Heirs(b)'
    BY <1>2, LawfulGrows DEF IInv, TablesOK
  <2>. QED  BY <1>2, <1>6, <2>1 DEF TablesOK, Lawful
<1>11. AliasInOneTable' /\ ReceiptsOK'
  BY <1>2 DEF IInv, AliasInOneTable, ReceiptsOK, Live
<1>12. WatchOK'
  BY <1>1 DEF WatchOK
<1>. QED  BY <1>4, <1>9, <1>10, <1>11, <1>12 DEF IInv

LEMMA RestartInv == ASSUME IInv, Restart PROVE IInv'
<1>1. /\ ~up /\ up' = TRUE /\ table' = claude /\ watch' = stamp
      /\ UNCHANGED <<fileVars, processVars, unreadable, queue, overlapped, req, ledgerVars,
                     countVars>>
  BY DEF Restart
<1>2. UNCHANGED <<claude, codex, stamp, history, process, launched, born, receipts,
                  unreadable, queue, overlapped, req, seen, sentTo, registered, asks, faults>>
  BY <1>1 DEF fileVars, processVars, ledgerVars, countVars
<1>3. \A r \in Requests : req[r].pc = "idle"
  BY <1>1, Facts DEF RequestOK
<1>4. RequestsOK'
  <2>1. ASSUME NEW q \in Requests PROVE RequestOK(req[q])'
    <3>1. RequestOK(req[q]) /\ req[q].pc = "idle" /\ req[q].rebind \in Aliases \cup {None}
      BY <1>3, Facts DEF Record
    <3>2. \A y : y = req[q] => RequestOK(y)'
      BY <1>2, <3>1, RequestGrows
    <3>. QED  BY <1>2, <3>2
  <2>. QED  BY <1>2, <2>1 DEF RequestsOK, IInv
<1>5. table' \in TableType /\ watch' \in 0..stamp' /\ up' \in BOOLEAN
  BY <1>1, <1>2 DEF IInv, TypeOK
<1>6. TypeOK'
  BY <1>2, <1>5 DEF IInv, TypeOK
<1>7. TablesOK'
  <2>1. \A b \in Aliases : claude[b] # None => claude[b] \in Heirs(b)'
    BY <1>2, LawfulGrows DEF IInv, TablesOK
  <2>. QED  BY <1>1, <1>2, <2>1 DEF TablesOK, Lawful
<1>8. AliasInOneTable' /\ ReceiptsOK'
  BY <1>2 DEF IInv, AliasInOneTable, ReceiptsOK, Live
<1>9. WatchOK'
  BY <1>1, <1>2, <1>3 DEF WatchOK
<1>. QED  BY <1>4, <1>6, <1>7, <1>8, <1>9 DEF IInv
-----------------------------------------------------------------------------
LEMMA InitInv == Init => IInv
<1>. SUFFICES ASSUME Init PROVE IInv
  OBVIOUS
<1>1. PICK a \in Aliases :
        /\ claude = [x \in Aliases |-> IF x = a THEN 1 ELSE None]
        /\ registered = {[alias |-> a, id |-> 1]}
  BY DEF Init
<1>2. 1 \in Sessions /\ 1 \in Processes /\ 1 \in 0..MaxSession /\ 1 \in 0..MaxProcess
      /\ 0 \in 0..MaxSession /\ 0 \in 0..MaxProcess /\ 0 \in 0..MaxWork
  BY TargetsAssumption DEF Sessions, Processes
<1>3. /\ claude \in TableType /\ registered \subseteq [alias : Aliases, id : Sessions]
      /\ table = claude
  BY <1>1, <1>2 DEF Init, TableType, None
<1>4. /\ process \in [Processes -> [id : 0..MaxSession, resumes : 0..MaxSession, fork : BOOLEAN]]
      /\ \A p \in Processes : process[p].resumes = None
  BY <1>2 DEF Init, NoProcess, None
<1>5. \A r \in Requests : req[r] = Idle
  BY DEF Init
<1>6. ASSUME NEW r \in Requests PROVE (queue = r) = (req[r].pc \in {"first", "second"})
  <2>1. queue # r
    BY TargetsAssumption DEF Init
  <2>2. req[r].pc = "idle"
    BY <1>5, IdleIsRecord
  <2>. QED  BY <2>1, <2>2
<1>7. /\ codex = {} /\ stamp = 1 /\ watch = 1 /\ history = [x \in Aliases |-> {}] /\ launched = 1
      /\ born = 1 /\ receipts = {} /\ up = TRUE /\ queue = "free" /\ overlapped = FALSE
      /\ unreadable = FALSE /\ seen = [s \in Sessions |-> None]
      /\ sentTo = [x \in Aliases |-> [s \in Sessions |-> None]] /\ asks = 0 /\ faults = 0
  BY DEF Init
<1>8. /\ seen \in [Sessions -> 0..MaxProcess] /\ sentTo \in [Aliases -> [Sessions -> 0..MaxProcess]]
      /\ history \in [Aliases -> SUBSET Sessions]
  BY <1>2, <1>7 DEF None
<1>9. TypeOK
  <2>1. /\ codex \subseteq Aliases /\ stamp \in Nat /\ watch \in 0..stamp /\ launched \in Processes
        /\ born \in Sessions /\ receipts \subseteq [from : Sessions, to : Sessions]
        /\ asks \in 0..MaxWork /\ faults \in 0..MaxWork
    BY <1>2, <1>7
  <2>2. up \in BOOLEAN /\ unreadable \in BOOLEAN /\ overlapped \in BOOLEAN /\ queue \in Requests \cup {"free"}
    BY <1>7
  <2>. QED  BY <1>3, <1>4, <1>6, <1>8, <2>1, <2>2 DEF TypeOK
<1>10. RequestsOK
  <2>1. req = [r \in Requests |-> Idle]
    BY DEF Init
  <2>. QED  BY <2>1, IdleIsRecord DEF RequestsOK
<1>11. TablesOK
  <2>1. 1 \in Registered(a)
    <3>. DEFINE row == [alias |-> a, id |-> 1]
    <3>1. row \in registered /\ row.alias = a /\ row.id = 1
      BY <1>1
    <3>. HIDE DEF row
    <3>. QED  BY <3>1 DEF Registered
  <2>2. 1 \in Heirs(a)
    BY <1>2, <2>1 DEF Heirs
  <2>. QED  BY <1>1, <1>3, <2>2 DEF TablesOK, Lawful
<1>12. ReceiptsOK /\ AliasInOneTable
  BY <1>4, <1>7 DEF ReceiptsOK, AliasInOneTable
<1>13. WatchOK
  BY <1>3, <1>5, IdleIsRecord DEF WatchOK
<1>. QED  BY <1>9, <1>10, <1>11, <1>12, <1>13 DEF IInv

LEMMA NextInv == ASSUME IInv, [Next]_vars PROVE IInv'
<1>1. CASE Next
  <2>1. CASE \E r \in Requests, kind \in Kinds, a \in Aliases, p \in Processes,
                replace \in BOOLEAN : Ask(r, kind, a, p, replace)
    BY <2>1, AskInv
  <2>2. CASE \E r \in Requests :
               \/ Observe(r) \/ ReadTable(r) \/ Assign(r) \/ LoadFails(r)
               \/ (\E a \in Aliases : Ring(r, a))
               \/ Resolve(r) \/ Unverified(r) \/ Identify(r) \/ Find(r) \/ Rewrite(r)
    BY <2>2, ObserveInv, ReadTableInv, AssignInv, LoadFailsInv, RingInv, ResolveInv, UnverifiedInv, IdentifyInv, FindInv,
       RewriteInv
  <2>3. CASE \E r \in Requests :
               \/ Remember(r) \/ NoteSent(r) \/ NoteRebound(r) \/ NoteRegistered(r)
               \/ EnterClaude(r) \/ EnterCodex(r) \/ WriteFirst(r) \/ WriteSecond(r)
               \/ Unregister(r)
    BY <2>3, RememberInv, NoteSentInv, NoteReboundInv, NoteRegisteredInv, EnterClaudeInv,
       EnterCodexInv, WriteFirstInv, WriteSecondInv, UnregisterInv
  <2>4. CASE \E s \in Sessions, resumes \in Sessions \cup {None}, fork \in BOOLEAN :
               Launch(s, resumes, fork)
    BY <2>4, LaunchInv
  <2>5. CASE \E p \in Processes : Leave(p) \/ \E s \in Sessions : Clear(p, s)
    BY <2>5, LeaveInv, ClearInv
  <2>6. CASE \E a \in Aliases, s \in Sessions : Edit(a, s)
    BY <2>6, EditInv
  <2>7. CASE Crash \/ Restart
    BY <2>7, CrashInv, RestartInv
  <2>. QED  BY <1>1, <2>1, <2>2, <2>3, <2>4, <2>5, <2>6, <2>7 DEF Next
<1>2. CASE UNCHANGED vars
  <2>1. UNCHANGED <<fileVars, processVars, daemonVars, req, ledgerVars, countVars>>
    BY <1>2 DEF vars
  <2>2. UNCHANGED <<claude, codex, stamp, history, process, launched, born, receipts, up, table,
                    watch, unreadable, queue, overlapped, req, seen, sentTo, registered, asks, faults>>
    BY <2>1 DEF fileVars, processVars, daemonVars, ledgerVars, countVars
  <2>3. TypeOK' /\ ReceiptsOK'
    BY <2>2 DEF IInv, TypeOK, ReceiptsOK, Live
  <2>. QED  BY <2>1, <2>2, <2>3, EvidenceInv
<1>. QED  BY <1>1, <1>2

LEMMA Invariance == Spec => []IInv
BY InitInv, NextInv, PTL DEF Spec
-----------------------------------------------------------------------------
\* Every variable keeps its type, and whoever is between the two writes of a
\* registration, and nobody else, has the writers' queue.
THEOREM TypeCorrect == Spec => []TypeOK
<1>1. IInv => TypeOK
  BY DEF IInv
<1>. QED  BY <1>1, Invariance, PTL

\* Neither a crash between the two writes of a registration nor any order of
\* writers leaves an alias in both tables: removal comes before addition.
THEOREM OneTableEach == Spec => []AliasInOneTable
<1>1. IInv => AliasInOneTable
  BY DEF IInv
<1>. QED  BY <1>1, Invariance, PTL

\* However requests interleave, an alias names a session that was registered or
\* written for it at some time, or that descends from such a one through the
\* receipts that processes carry; never one that only shares its directory or
\* its name, or that forked.
THEOREM NamesAreProven == Spec => []LineageIsProven
<1>1. IInv => LineageIsProven
  BY DEF IInv, TablesOK, Lawful, LineageIsProven
<1>. QED  BY <1>1, Invariance, PTL

\* The version that a daemon would not read again is the one it enforces, or
\* one that it marked as not to be loaded, as long as no two readings
\* overlapped.
THEOREM TheWatchIsTrue == Spec => []EnforcedIsCurrent
<1>1. IInv => EnforcedIsCurrent
  BY DEF IInv, WatchOK, EnforcedIsCurrent
<1>. QED  BY <1>1, Invariance, PTL
=============================================================================
