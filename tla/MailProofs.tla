----------------------------- MODULE MailProofs -----------------------------
(***************************************************************************)
(* Proofs about Mail for any messages, sessions, writers and bounds: its   *)
(* type invariant, that a post has one body, that only who was given a     *)
(* message, or descends from such a session, acts on it, and that all of   *)
(* it implements Mailbox.  That a sender is told, and that stray bodies    *)
(* are swept, stays with TLC.                                              *)
(***************************************************************************)
EXTENDS Mail, SequenceTheorems, TLAPS

\* The message was bound to the session, or to one that it succeeded.
Tied(m, s) == \E k \in DOMAIN bound[m] : bound[m][k] \in Lineage(s)

PostRows == [file : Files, who : Sessions \cup {Nobody}]
Jobs == [stage : {"write", "append", "discard"}, id : Ids, file : Files,
         who : Sessions \cup {Nobody}]
Deletions == {Idle} \cup [stage : {"row", "unlink"}, file : Files]

\* An id has one row at most; the row is of a file that was spooled for that id.
RowsOK ==
    /\ rows \in [Ids -> {<<>>} \cup {<<r>> : r \in PostRows}]
    /\ \A i \in Ids : Accepted(i) => Row(i).file.id = i
    /\ \A m \in Messages : Answered(m) => Tied(m, Row(Id(m, "reply")).who)

\* A message that is on record, and no other, was bound to somebody.
BoundOK ==
    /\ bound \in [Messages -> Seq(Sessions)]
    /\ \A m \in Messages : bound[m] # <<>> <=> Accepted(Id(m, "mail"))

\* Who a row that is not written yet, or may not have been, would be by.
EntryOK(e) ==
    /\ e \in Jobs /\ e.file.id = e.id
    /\ e.id.kind = "mail" => e.who \in Sessions
    /\ e.id.kind = "reply" => Tied(e.id.for, e.who)

\* A writer holds a file of its own that no row names.
WritersOK ==
    \A w \in Writers : Holding(w) =>
        EntryOK(job[w]) /\ job[w].file.by = w /\ job[w].file \notin Referenced

\* A deletion is of a body on record, and the row that says so is there first.
DeletersOK ==
    /\ deleting \in [Deleters -> Deletions]
    /\ \A d \in Deleters :
           /\ deleting[d].stage # "idle" => deleting[d].file \in Referenced
           /\ deleting[d].stage = "unlink" => deleting[d].file \in expired

\* A process that died does nothing.
DeadOK ==
    ~up => (\A w \in Writers : ~Holding(w)) /\ (\A m \in Messages : acking[m] = {})

\* A row that was taken for lost and was not read since is the only one, and
\* the ledger takes no row, above all not of its id, until it is read.
GhostsOK ==
    /\ \A g \in ghosts : EntryOK(g)
    /\ \A g \in ghosts : g.file \notin Referenced =>
           /\ health = "poisoned" /\ ~Accepted(g.id)
           /\ \A h \in ghosts : h.file \notin Referenced => h.file = g.file

\* Whoever is about to acknowledge a message, or has, was entitled to.
ActsOK ==
    /\ named \in Sessions
    /\ \A m \in Messages :
           /\ \A s \in acking[m] : Tied(m, s)
           /\ processed[m] # Nobody => Tied(m, processed[m])

IInv ==
    /\ TypeOK /\ RowsOK /\ BoundOK /\ WritersOK /\ DeletersOK /\ DeadOK
    /\ GhostsOK /\ ActsOK /\ OneBodyPerPost

\* The files of those who have spooled theirs are there.
FilesIn(S) == \A w \in Writers : Spooled(w) => job[w].file \in S
-----------------------------------------------------------------------------
\* The rows of an id are none or one, and its file is its own.
LEMMA RowFacts ==
    ASSUME RowsOK
    PROVE  /\ \A i \in Ids : Accepted(i) =>
                 /\ rows[i] = <<Row(i)>> /\ Row(i) \in PostRows /\ Row(i) \in Rows
                 /\ Row(i).file \in Referenced /\ Row(i).file.id = i /\ Row(i).file \in Files
           /\ \A r \in Rows : \E i \in Ids : Accepted(i) /\ r = Row(i)
           /\ \A f \in Referenced : \E i \in Ids :
                 Accepted(i) /\ f = Row(i).file /\ f.id = i /\ f \in Files
<1>1. ASSUME NEW i \in Ids, Accepted(i)
      PROVE  /\ rows[i] = <<Row(i)>> /\ Row(i) \in PostRows /\ Row(i) \in Rows
             /\ Row(i).file \in Referenced /\ Row(i).file.id = i /\ Row(i).file \in Files
  <2>1. PICK r \in PostRows : rows[i] = <<r>>
    BY <1>1 DEF RowsOK, Accepted
  <2>2. Row(i) = r /\ DOMAIN rows[i] = {1} /\ rows[i][1] = r
    BY <2>1 DEF Row
  <2>3. r \in Rows
    BY <2>2 DEF Rows
  <2>. QED  BY <1>1, <2>1, <2>2, <2>3 DEF RowsOK, Referenced, PostRows
<1>2. ASSUME NEW r \in Rows PROVE \E i \in Ids : Accepted(i) /\ r = Row(i)
  <2>1. PICK i \in Ids : \E k \in DOMAIN rows[i] : r = rows[i][k]
    BY DEF Rows
  <2>2. rows[i] # <<>>
    BY <2>1
  <2>3. PICK x \in PostRows : rows[i] = <<x>>
    BY <2>2 DEF RowsOK
  <2>. QED  BY <2>1, <2>2, <2>3 DEF Accepted, Row
<1>3. ASSUME NEW f \in Referenced
      PROVE  \E i \in Ids : Accepted(i) /\ f = Row(i).file /\ f.id = i /\ f \in Files
  <2>1. PICK r \in Rows : f = r.file
    BY DEF Referenced
  <2>. QED  BY <1>1, <1>2, <2>1
<1>. QED  BY <1>1, <1>2, <1>3

\* A session descends from what it descended from before, whatever is proven since.
LEMMA LineageGrows ==
    ASSUME NEW s, succeeded \subseteq succeeded'
    PROVE  Lineage(s) \subseteq Lineage(s)'
BY DEF Lineage

\* The sessions a message was bound to are on record for good.
BindingsStay ==
    \A m \in Messages : \A k \in DOMAIN bound[m] :
        k \in DOMAIN bound'[m] /\ bound'[m][k] = bound[m][k]

LEMMA TiedGrows ==
    ASSUME succeeded \subseteq succeeded', BindingsStay, NEW m \in Messages, NEW s, Tied(m, s)
    PROVE  Tied(m, s)'
<1>1. PICK k \in DOMAIN bound[m] : bound[m][k] \in Lineage(s)
  BY DEF Tied
<1>2. k \in DOMAIN bound'[m] /\ bound'[m][k] = bound[m][k]
  BY DEF BindingsStay
<1>3. bound[m][k] \in Lineage(s)'
  BY <1>1, LineageGrows
<1>. QED  BY <1>2, <1>3 DEF Tied

LEMMA EntryGrows ==
    ASSUME succeeded \subseteq succeeded', BindingsStay, NEW e, EntryOK(e)
    PROVE  EntryOK(e)'
<1>1. e.id.for \in Messages
  BY DEF EntryOK, Jobs, Ids
<1>2. e.id.kind = "reply" => Tied(e.id.for, e.who)'
  BY <1>1, TiedGrows DEF EntryOK
<1>. QED  BY <1>2 DEF EntryOK

\* No row is written: what the ledger says of posts stands.
LEMMA RowsStay ==
    ASSUME RowsOK, rows' = rows, succeeded \subseteq succeeded', BindingsStay
    PROVE  /\ RowsOK' /\ Referenced' = Referenced /\ Rows' = Rows
           /\ \A i \in Ids : (Accepted(i)' <=> Accepted(i)) /\ Row(i)' = Row(i)
<1>1. /\ Referenced' = Referenced /\ Rows' = Rows
      /\ \A i \in Ids : (Accepted(i)' <=> Accepted(i)) /\ Row(i)' = Row(i)
  BY DEF Referenced, Rows, Accepted, Row
<1>2. ASSUME NEW m \in Messages, Answered(m)' PROVE Tied(m, Row(Id(m, "reply")).who)'
  <2>1. Id(m, "reply") \in Ids /\ Answered(m)
    BY <1>1, <1>2 DEF Id, Ids, Kinds, Answered
  <2>2. \A s : s = Row(Id(m, "reply")).who => Tied(m, s)'
    BY <2>1, TiedGrows DEF RowsOK
  <2>. QED  BY <1>1, <2>1, <2>2
<1>. QED  BY <1>1, <1>2 DEF RowsOK

\* No row is written: each part of the invariant holds as long as what it is
\* about stands.
LEMMA Frames ==
    ASSUME IInv, rows' = rows, succeeded \subseteq succeeded', BindingsStay
    PROVE  /\ job' = job => WritersOK'
           /\ deleting' = deleting /\ expired \subseteq expired' => DeletersOK'
           /\ up' = up /\ job' = job /\ acking' = acking => DeadOK'
           /\ named' = named /\ acking' = acking /\ processed' = processed => ActsOK'
           /\ ghosts' = ghosts /\ health' = health => GhostsOK'
           /\ bound' = bound => BoundOK'
           /\ ghosts' = ghosts /\ Referenced \cap (spool \cup expired) \subseteq spool' \cup expired'
                => OneBodyPerPost'
<1>1. /\ RowsOK' /\ Referenced' = Referenced /\ Rows' = Rows
      /\ \A i \in Ids : (Accepted(i)' <=> Accepted(i)) /\ Row(i)' = Row(i)
  BY RowsStay DEF IInv
<1>2. \A m \in Messages : Id(m, "mail") \in Ids /\ Id(m, "reply") \in Ids
  BY DEF Id, Ids, Kinds
<1>3. ASSUME job' = job PROVE WritersOK'
  <2>1. ASSUME NEW w \in Writers, Holding(w)' PROVE EntryOK(job[w])'
    <3>1. EntryOK(job[w])
      BY <1>3, <2>1 DEF IInv, WritersOK, Holding
    <3>2. \A e : e = job[w] => EntryOK(e)'
      BY <3>1, EntryGrows
    <3>. QED  BY <1>3, <3>2
  <2>. QED  BY <1>1, <1>3, <2>1 DEF IInv, WritersOK, Holding
<1>4. ASSUME deleting' = deleting, expired \subseteq expired' PROVE DeletersOK'
  BY <1>1, <1>4 DEF IInv, DeletersOK
<1>5. ASSUME up' = up, job' = job, acking' = acking PROVE DeadOK'
  BY <1>5 DEF IInv, DeadOK, Holding
<1>6. ASSUME named' = named, acking' = acking, processed' = processed PROVE ActsOK'
  BY <1>6, TiedGrows DEF IInv, ActsOK
<1>7. ASSUME ghosts' = ghosts, health' = health PROVE GhostsOK'
  <2>1. \A g \in ghosts : EntryOK(g)' /\ g.id \in Ids
    BY EntryGrows DEF IInv, GhostsOK, EntryOK, Jobs
  <2>. QED  BY <1>1, <1>7, <2>1 DEF IInv, GhostsOK
<1>8. ASSUME bound' = bound PROVE BoundOK'
  BY <1>1, <1>2, <1>8 DEF IInv, BoundOK
<1>9. ASSUME ghosts' = ghosts, Referenced \cap (spool \cup expired) \subseteq spool' \cup expired'
      PROVE  OneBodyPerPost'
  <2>1. \A r \in Rows : r.file \in spool' \cup expired' \cup Ghostly'
    <3>1. \A r \in Rows : r.file \in Referenced /\ r.file \in spool \cup expired \cup Ghostly
      BY DEF IInv, OneBodyPerPost, Referenced
    <3>2. Ghostly' = Ghostly
      BY <1>9 DEF Ghostly
    <3>. QED  BY <1>9, <3>1, <3>2
  <2>. QED  BY <1>1, <2>1 DEF IInv, OneBodyPerPost
<1>. QED  BY <1>3, <1>4, <1>5, <1>6, <1>7, <1>8, <1>9

\* Neither a row nor what binds a message is touched.
LEMMA SteadyInv ==
    ASSUME IInv, UNCHANGED <<rows, bound, succeeded, ghosts, health>>,
           TypeOK', WritersOK', DeletersOK', DeadOK', ActsOK',
           Referenced \cap (spool \cup expired) \subseteq spool' \cup expired'
    PROVE  IInv'
<1>1. BindingsStay
  BY DEF BindingsStay
<1>2. RowsOK'
  BY <1>1, RowsStay DEF IInv
<1>. QED  BY <1>1, <1>2, Frames DEF IInv

\* What an entry in hand is: a record of its file, its id and who it is by.
LEMMA HolderFacts ==
    ASSUME IInv, NEW w \in Writers, Holding(w)
    PROVE  /\ job[w] \in Jobs /\ EntryOK(job[w]) /\ job[w].id \in Ids /\ job[w].file \in Files
           /\ job[w].file.by = w /\ job[w].file \notin Referenced /\ up
           /\ Spooled(w) => job[w].file \in spool
<1>1. EntryOK(job[w]) /\ job[w].file.by = w /\ job[w].file \notin Referenced /\ up
  BY DEF IInv, WritersOK, DeadOK, TypeOK
<1>2. Spooled(w) => job[w].file \in spool
  BY DEF IInv, TypeOK
<1>. QED  BY <1>1, <1>2 DEF EntryOK, Jobs

\* Idle writers hold nothing, and the others hold what they held.
LEMMA HeldStays ==
    ASSUME IInv, NEW w \in Writers, NEW e, job' = [job EXCEPT ![w] = e]
    PROVE  /\ job'[w] = e /\ \A v \in Writers \ {w} : job'[v] = job[v]
           /\ \A v \in Writers \ {w} : (Holding(v)' <=> Holding(v)) /\ (Spooled(v)' <=> Spooled(v))
           /\ Holding(w)' <=> e.stage # "idle"
           /\ Spooled(w)' <=> e.stage \in {"append", "discard"}
           /\ e \in Entries => job' \in [Writers -> Entries]
<1>1. job \in [Writers -> Entries]
  BY DEF IInv, TypeOK
<1>. QED  BY <1>1 DEF Holding, Spooled

LEMMA SpooledHold == \A w \in Writers : Spooled(w) => Holding(w)
BY DEF Spooled, Holding
-----------------------------------------------------------------------------
LEMMA IdFacts ==
    ASSUME NEW m \in Messages, NEW kind \in Kinds
    PROVE  Id(m, kind) \in Ids /\ Id(m, kind).for = m /\ Id(m, kind).kind = kind
BY DEF Id, Ids

LEMMA IdleFacts == Idle \in Entries /\ Idle.stage = "idle" /\ Idle \in Deletions
BY DEF Idle, Entries, Deletions

\* The types that hold whatever the writers do.
LEMMA Writing ==
    ASSUME IInv, NEW w \in Writers, NEW e \in Entries, job' = [job EXCEPT ![w] = e],
           UNCHANGED <<rows, handled, expired, stuck, processed, acking, limit, up>>,
           crashes' \in 0..limit.crashes, litter' \in BOOLEAN,
           health' \in {"ok", "poisoned"}, ghosts' \subseteq Entries, spool' \subseteq Files,
           \A v \in Writers \ {w} : Spooled(v) => job[v].file \in spool',
           e.stage # "idle" => e.file.by = w,
           e.stage \in {"append", "discard"} => e.file \in spool'
    PROVE  TypeOK'
<1>1. /\ job'[w] = e /\ \A v \in Writers \ {w} : job'[v] = job[v]
      /\ \A v \in Writers \ {w} : (Holding(v)' <=> Holding(v)) /\ (Spooled(v)' <=> Spooled(v))
      /\ Holding(w)' <=> e.stage # "idle"
      /\ Spooled(w)' <=> e.stage \in {"append", "discard"}
      /\ job' \in [Writers -> Entries]
  BY HeldStays
<1>2. ASSUME NEW v \in Writers, Holding(v)' PROVE job'[v].file.by = v
  <2>1. CASE v = w
    BY <2>1, <1>1, <1>2
  <2>2. CASE v # w
    BY <2>2, <1>1, <1>2, HolderFacts
  <2>. QED  BY <2>1, <2>2
<1>3. \A v \in Writers : Spooled(v)' => job'[v].file \in spool'
  BY <1>1
<1>4. \A v, u \in Writers : v # u /\ Holding(v)' /\ Holding(u)' => job'[v].file # job'[u].file
  BY <1>2
<1>5. /\ Referenced' = Referenced
      /\ {i \in Ids : Accepted(i)}' = {i \in Ids : Accepted(i)}
  BY DEF Referenced, Rows, Accepted
<1>. QED  BY <1>1, <1>3, <1>4, <1>5 DEF IInv, TypeOK

\* No writer that goes on, or stops, with a file of its own touches a row.
LEMMA WriterInv ==
    ASSUME IInv, up, NEW w \in Writers, NEW e \in Entries, job' = [job EXCEPT ![w] = e],
           UNCHANGED <<limit, up, health, ghosts, rows, bound, processed, stuck, handled, expired,
                       named, succeeded, acking, deleting>>,
           crashes' \in 0..limit.crashes, litter' \in BOOLEAN, spool' \subseteq Files,
           \A v \in Writers \ {w} : Spooled(v) => job[v].file \in spool',
           e.stage # "idle" => EntryOK(e) /\ e.file.by = w /\ e.file \notin Referenced,
           e.stage \in {"append", "discard"} => e.file \in spool',
           Referenced \cap (spool \cup expired) \subseteq spool' \cup expired'
    PROVE  IInv'
<1>1. BindingsStay
  BY DEF BindingsStay
<1>2. TypeOK'
  <2>1. health' \in {"ok", "poisoned"} /\ ghosts' \subseteq Entries
    BY DEF IInv, TypeOK
  <2>. QED  BY <2>1, Writing
<1>3. WritersOK'
  <2>. SUFFICES ASSUME NEW v \in Writers, Holding(v)'
                PROVE  EntryOK(job[v])' /\ job'[v].file.by = v /\ job'[v].file \notin Referenced'
    BY DEF WritersOK
  <2>1. Referenced' = Referenced
    BY DEF Referenced, Rows
  <2>2. ASSUME NEW x, EntryOK(x) PROVE EntryOK(x)'
    BY <1>1, <2>2, EntryGrows
  <2>3. CASE v = w
    <3>1. job'[v] = e /\ e.stage # "idle"
      BY <2>3, HeldStays
    <3>. QED  BY <2>1, <2>2, <2>3, <3>1
  <2>4. CASE v # w
    <3>1. job'[v] = job[v] /\ Holding(v)
      BY <2>4, HeldStays
    <3>. QED  BY <2>1, <2>2, <3>1, HolderFacts
  <2>. QED  BY <2>3, <2>4
<1>4. DeadOK'
  BY DEF DeadOK
<1>5. DeletersOK' /\ ActsOK'
  BY <1>1, Frames
<1>. QED  BY <1>2, <1>3, <1>4, <1>5, SteadyInv

\* What such a step leaves alone.
LEMMA CountersStay ==
    ASSUME IInv, UNCHANGED <<limit, crashes, litter>>
    PROVE  crashes' \in 0..limit.crashes /\ litter' \in BOOLEAN
BY DEF IInv, TypeOK

LEMMA SpoolInv ==
    ASSUME IInv, NEW w \in Writers, NEW i \in Ids, NEW who \in Sessions \cup {Nobody},
           Spool(w, i, who), i.kind = "mail" => who \in Sessions,
           i.kind = "reply" => Tied(i.for, who)
    PROVE  IInv'
<1>. DEFINE e == [stage |-> "write", id |-> i, file |-> Name(w, i), who |-> who]
<1>1. /\ Free(w) /\ ~Accepted(i) /\ job' = [job EXCEPT ![w] = e] /\ spool' = spool
      /\ UNCHANGED <<healthVars, ledgerVars, aliasVars, acking, deleting>>
  BY DEF Spool, To
<1>2. UNCHANGED <<limit, up, crashes, health, ghosts, litter, rows, bound, processed, stuck,
                  handled, expired, named, succeeded, moves, acking, deleting>>
  BY <1>1 DEF healthVars, ledgerVars, aliasVars
<1>3. Name(w, i) \in Files /\ Name(w, i).id = i /\ Name(w, i).by = w
  BY DEF Name, Files
<1>4. /\ e \in Jobs /\ e \in Entries /\ e.stage = "write" /\ e.id = i /\ e.file = Name(w, i)
      /\ e.who = who
  BY <1>3 DEF Jobs, Entries
<1>. HIDE DEF e
<1>5. EntryOK(e)
  BY <1>3, <1>4 DEF EntryOK
<1>6. e.file \notin Referenced
  <2>1. ASSUME e.file \in Referenced PROVE FALSE
    BY <2>1, <1>1, <1>3, <1>4, RowFacts DEF IInv
  <2>. QED  BY <2>1
<1>7. spool' \subseteq Files /\ \A v \in Writers \ {w} : Spooled(v) => job[v].file \in spool'
  BY <1>1 DEF IInv, TypeOK
<1>8. up /\ crashes' \in 0..limit.crashes /\ litter' \in BOOLEAN
  BY <1>1, <1>2, CountersStay DEF Free
<1>. QED  BY <1>1, <1>2, <1>3, <1>4, <1>5, <1>6, <1>7, <1>8, WriterInv

\* The file a writer has in hand gets its name.
LEMMA PublishInv == ASSUME IInv, NEW w \in Writers, Publish(w) PROVE IInv'
<1>. DEFINE e == [job[w] EXCEPT !.stage = "append"]
<1>1. /\ up /\ job[w].stage = "write" /\ spool' = spool \cup {job[w].file}
      /\ job' = [job EXCEPT ![w] = e]
      /\ UNCHANGED <<limit, up, crashes, health, ghosts, litter, rows, bound, processed, stuck,
                     handled, expired, named, succeeded, acking, deleting>>
  BY DEF Publish, To, healthVars, ledgerVars, aliasVars
<1>2. /\ job[w] \in Jobs /\ EntryOK(job[w]) /\ job[w].file \in Files
      /\ job[w].file.by = w /\ job[w].file \notin Referenced
  BY <1>1, HolderFacts DEF Holding
<1>3. /\ e \in Jobs /\ e \in Entries /\ e.stage = "append" /\ e.id = job[w].id
      /\ e.file = job[w].file /\ e.who = job[w].who
  BY <1>2 DEF Jobs, Entries
<1>. HIDE DEF e
<1>4. EntryOK(e)
  BY <1>2, <1>3 DEF EntryOK
<1>5. spool' \subseteq Files /\ \A v \in Writers \ {w} : Spooled(v) => job[v].file \in spool'
  BY <1>1, <1>2 DEF IInv, TypeOK
<1>6. crashes' \in 0..limit.crashes /\ litter' \in BOOLEAN
  BY <1>1, CountersStay
<1>. QED  BY <1>1, <1>2, <1>3, <1>4, <1>5, <1>6, WriterInv

LEMMA SpoolFailsInv == ASSUME IInv, NEW w \in Writers, SpoolFails(w) PROVE IInv'
<1>1. /\ up /\ job[w].stage = "write" /\ crashes < limit.crashes /\ crashes' = crashes + 1
      /\ litter' = TRUE \/ litter' = litter
      /\ spool' = spool \/ spool' = spool \cup {job[w].file}
      /\ job' = [job EXCEPT ![w] = Idle]
      /\ UNCHANGED <<limit, up, health, ghosts, rows, bound, processed, stuck, handled, expired,
                     named, succeeded, acking, deleting>>
  BY DEF SpoolFails, To, ledgerVars, aliasVars
<1>2. job[w].file \in Files
  BY <1>1, HolderFacts DEF Holding
<1>3. spool' \subseteq Files /\ \A v \in Writers \ {w} : Spooled(v) => job[v].file \in spool'
  BY <1>1, <1>2 DEF IInv, TypeOK
<1>4. crashes' \in 0..limit.crashes /\ litter' \in BOOLEAN
  <2>1. limit.crashes \in Nat
    BY MailAssumption DEF IInv, TypeOK
  <2>2. crashes' \in 0..limit.crashes
    BY <1>1, <2>1 DEF IInv, TypeOK
  <2>3. litter \in BOOLEAN
    BY DEF IInv, TypeOK
  <2>4. litter' \in BOOLEAN
    BY <1>1, <2>3
  <2>. QED  BY <2>2, <2>4
<1>5. Referenced \cap (spool \cup expired) \subseteq spool' \cup expired'
  BY <1>1
<1>. QED  BY <1>1, <1>3, <1>4, <1>5, IdleFacts, WriterInv

\* Whoever may read a message is entitled to act on it.
LEMMA ReaderIsTied ==
    ASSUME IInv, NEW m \in Messages, Readable(m)
    PROVE  Tied(m, named) /\ named \in Sessions
<1>1. bound[m] \in Seq(Sessions) /\ bound[m] # <<>>
  BY DEF IInv, BoundOK, Readable
<1>2. Len(bound[m]) \in DOMAIN bound[m]
  BY <1>1, LenProperties, EmptySeq
<1>. QED  BY <1>2 DEF Tied, Readable, Binding, IInv, ActsOK

LEMMA PostInv == ASSUME IInv, NEW w \in Callers, NEW m \in Messages, Post(w, m) PROVE IInv'
<1>1. w \in Writers /\ named \in Sessions /\ Spool(w, Id(m, "mail"), named)
  BY DEF Post, Writers, IInv, ActsOK
<1>2. /\ Id(m, "mail") \in Ids /\ Id(m, "mail").kind = "mail" /\ "mail" # "reply"
  BY IdFacts DEF Kinds
<1>. QED  BY <1>1, <1>2, SpoolInv

LEMMA ReplyInv == ASSUME IInv, NEW w \in Callers, NEW m \in Messages, Reply(w, m) PROVE IInv'
<1>1. w \in Writers /\ Spool(w, Id(m, "reply"), named) /\ Tied(m, named) /\ named \in Sessions
  BY ReaderIsTied DEF Reply, Writers
<1>2. /\ Id(m, "reply") \in Ids /\ Id(m, "reply").kind = "reply" /\ Id(m, "reply").for = m
      /\ "mail" # "reply"
  BY IdFacts DEF Kinds
<1>. QED  BY <1>1, <1>2, SpoolInv

LEMMA ReceiptInv ==
    ASSUME IInv, NEW m \in Messages, NEW k \in {"undelivered", "unanswered"}, Receipt(m, k)
    PROVE  IInv'
<1>1. "receipts" \in Writers /\ Spool("receipts", Id(m, k), Nobody)
  BY DEF Receipt, Writers
<1>2. /\ Id(m, k) \in Ids /\ Id(m, k).kind = k /\ k \notin {"mail", "reply"}
  BY IdFacts DEF Kinds
<1>. QED  BY <1>1, <1>2, SpoolInv
-----------------------------------------------------------------------------
\* The rows of any table of none or one row for each id.
RowsIn(R) == UNION {{R[i][k] : k \in DOMAIN R[i]} : i \in Ids}

LEMMA OneRowEach ==
    ASSUME NEW R \in [Ids -> {<<>>} \cup {<<r>> : r \in PostRows}]
    PROVE  /\ \A r : r \in RowsIn(R) <=> \E i \in Ids : R[i] # <<>> /\ r = R[i][1]
           /\ \A i \in Ids : Len(R[i]) <= 1 /\ (R[i] # <<>> => R[i][1] \in PostRows)
<1>1. ASSUME NEW i \in Ids
      PROVE  /\ R[i] = <<>> \/ \E r \in PostRows : R[i] = <<r>>
             /\ Len(R[i]) <= 1 /\ (R[i] # <<>> => R[i][1] \in PostRows)
             /\ R[i] # <<>> => DOMAIN R[i] = {1}
             /\ R[i] = <<>> => DOMAIN R[i] = {}
  BY SMTT(60)
<1>2. \A r : r \in RowsIn(R) <=> \E i \in Ids : \E k \in DOMAIN R[i] : r = R[i][k]
  BY DEF RowsIn
<1>3. ASSUME NEW r PROVE r \in RowsIn(R) <=> \E i \in Ids : R[i] # <<>> /\ r = R[i][1]
  BY <1>1, <1>2
<1>. QED  BY <1>1, <1>3

\* Rows are written for ids that had none; every row that is there stays.
LEMMA RowsGrow ==
    ASSUME IInv, rows' \in [Ids -> {<<>>} \cup {<<r>> : r \in PostRows}],
           \A i \in Ids : Accepted(i) => rows'[i] = rows[i],
           \A i \in Ids : ~Accepted(i) /\ rows'[i] # <<>> => rows'[i][1].file.id = i,
           succeeded' = succeeded, bound' \in [Messages -> Seq(Sessions)],
           \A m \in Messages :
               /\ bound'[m] # <<>> <=> rows'[Id(m, "mail")] # <<>>
               /\ Accepted(Id(m, "mail")) => bound'[m] = bound[m],
           \A m \in Messages : ~Answered(m) /\ rows'[Id(m, "reply")] # <<>> =>
               Tied(m, rows'[Id(m, "reply")][1].who)
    PROVE  /\ RowsOK' /\ BoundOK' /\ BindingsStay /\ Referenced \subseteq Referenced'
           /\ \A i \in Ids : Accepted(i) => Accepted(i)'
           /\ \A f \in Referenced' : f \in Referenced
                 \/ \E i \in Ids : ~Accepted(i) /\ rows'[i] # <<>> /\ f = rows'[i][1].file
           /\ \A i \in Ids : rows'[i] # <<>> => rows'[i][1].file \in Referenced'
           /\ (\A i \in Ids : ~Accepted(i) /\ rows'[i] # <<>> =>
                  rows'[i][1].file \in spool' \cup expired' \cup Ghostly')
              /\ (Referenced \cap (spool \cup expired) \subseteq spool' \cup expired')
              /\ ghosts \subseteq ghosts'
              => OneBodyPerPost'
<1>1. /\ Rows' = RowsIn(rows') /\ Rows = RowsIn(rows)
      /\ \A i \in Ids : (Accepted(i)' <=> rows'[i] # <<>>) /\ Row(i)' = rows'[i][1]
      /\ \A i \in Ids : (Accepted(i) <=> rows[i] # <<>>) /\ Row(i) = rows[i][1]
  BY DEF Rows, RowsIn, Accepted, Row
<1>2. /\ \A r : r \in Rows' <=> \E i \in Ids : rows'[i] # <<>> /\ r = rows'[i][1]
      /\ \A r : r \in Rows <=> \E i \in Ids : rows[i] # <<>> /\ r = rows[i][1]
      /\ \A i \in Ids : Len(rows'[i]) <= 1
  BY <1>1, OneRowEach DEF IInv, RowsOK
<1>3. BindingsStay
  <2>. SUFFICES ASSUME NEW m \in Messages, NEW k \in DOMAIN bound[m]
                PROVE  k \in DOMAIN bound'[m] /\ bound'[m][k] = bound[m][k]
    BY DEF BindingsStay
  <2>1. bound[m] # <<>>
    OBVIOUS
  <2>. QED  BY <2>1 DEF IInv, BoundOK
<1>4. \A m \in Messages : Id(m, "mail") \in Ids /\ Id(m, "reply") \in Ids
  BY DEF Id, Ids, Kinds
<1>5. BoundOK'
  BY <1>1, <1>4 DEF BoundOK
<1>6. \A i \in Ids : Accepted(i)' => Row(i)'.file.id = i
  BY <1>1 DEF IInv, RowsOK
<1>7. ASSUME NEW m \in Messages, Answered(m)' PROVE Tied(m, Row(Id(m, "reply")).who)'
  <2>1. rows'[Id(m, "reply")] # <<>>
    BY <1>1, <1>4, <1>7 DEF Answered
  <2>2. Tied(m, rows'[Id(m, "reply")][1].who)
    BY <1>1, <1>4, <2>1 DEF IInv, RowsOK, Answered
  <2>3. \A s : s = rows'[Id(m, "reply")][1].who => Tied(m, s)'
    BY <1>3, <2>2, TiedGrows
  <2>. QED  BY <1>1, <1>4, <2>3
<1>8. RowsOK'
  BY <1>6, <1>7 DEF RowsOK
<1>9. \A f : f \in Referenced <=> \E i \in Ids : rows[i] # <<>> /\ f = rows[i][1].file
  BY <1>2 DEF Referenced
<1>10. \A f : f \in Referenced' <=> \E i \in Ids : rows'[i] # <<>> /\ f = rows'[i][1].file
  BY <1>2 DEF Referenced
<1>11. Referenced \subseteq Referenced' /\ \A i \in Ids : Accepted(i) => Accepted(i)'
  BY <1>1, <1>9, <1>10
<1>12. \A f \in Referenced' : f \in Referenced
          \/ \E i \in Ids : ~Accepted(i) /\ rows'[i] # <<>> /\ f = rows'[i][1].file
  BY <1>1, <1>9, <1>10
<1>13. ASSUME \A i \in Ids : ~Accepted(i) /\ rows'[i] # <<>> =>
                 rows'[i][1].file \in spool' \cup expired' \cup Ghostly',
              Referenced \cap (spool \cup expired) \subseteq spool' \cup expired',
              ghosts \subseteq ghosts'
       PROVE  OneBodyPerPost'
  <2>1. \A i, j \in Ids : Accepted(i)' /\ Accepted(j)' /\ i # j => Row(i)'.file # Row(j)'.file
    BY <1>6
  <2>2. Ghostly \subseteq Ghostly'
    BY <1>13 DEF Ghostly
  <2>3. \A f \in Referenced : f \in spool \cup expired \cup Ghostly
    BY DEF IInv, OneBodyPerPost, Referenced
  <2>4. \A f \in Referenced' : f \in spool' \cup expired' \cup Ghostly'
    BY <1>12, <1>13, <2>2, <2>3
  <2>5. \A r \in Rows' : r.file \in Referenced'
    BY DEF Referenced
  <2>6. \A i \in Ids : Len(rows'[i]) <= 1
    BY <1>2
  <2>. QED  BY <2>1, <2>4, <2>5, <2>6 DEF OneBodyPerPost
<1>14. \A i \in Ids : rows'[i] # <<>> => rows'[i][1].file \in Referenced'
  BY <1>10
<1>. QED  BY <1>3, <1>5, <1>8, <1>11, <1>12, <1>13, <1>14
-----------------------------------------------------------------------------
LEMMA IdOf == ASSUME NEW i \in Ids PROVE i = Id(i.for, i.kind) /\ i.for \in Messages /\ i.kind \in Kinds
BY DEF Ids, Id

\* A writer that could not append keeps its file until that is discarded.
LEMMA ToDiscard ==
    ASSUME IInv, NEW w \in Writers, Spooled(w), To(w, [job[w] EXCEPT !.stage = "discard"]),
           UNCHANGED <<limit, up, crashes, litter, rows, bound, processed, stuck, handled, expired,
                       spool, succeeded, acking>>,
           health' \in {"ok", "poisoned"}, ghosts' \subseteq Entries
    PROVE  TypeOK' /\ WritersOK' /\ DeadOK' /\ BindingsStay
<1>. DEFINE e == [job[w] EXCEPT !.stage = "discard"]
<1>1. /\ job[w] \in Jobs /\ EntryOK(job[w]) /\ job[w].file \in Files /\ up
      /\ job[w].file.by = w /\ job[w].file \notin Referenced /\ job[w].file \in spool
  BY HolderFacts, SpooledHold
<1>2. /\ e \in Jobs /\ e \in Entries /\ e.stage = "discard" /\ e.id = job[w].id
      /\ e.file = job[w].file /\ e.who = job[w].who
  BY <1>1 DEF Jobs, Entries
<1>3. job' = [job EXCEPT ![w] = e]
  BY DEF To
<1>. HIDE DEF e
<1>4. EntryOK(e)
  BY <1>1, <1>2 DEF EntryOK
<1>5. BindingsStay
  BY DEF BindingsStay
<1>6. TypeOK'
  <2>1. spool' \subseteq Files /\ \A v \in Writers \ {w} : Spooled(v) => job[v].file \in spool'
    BY DEF IInv, TypeOK
  <2>2. crashes' \in 0..limit.crashes /\ litter' \in BOOLEAN
    BY CountersStay
  <2>. QED  BY <1>1, <1>2, <1>3, <2>1, <2>2, Writing
<1>7. WritersOK'
  <2>. SUFFICES ASSUME NEW v \in Writers, Holding(v)'
                PROVE  EntryOK(job[v])' /\ job'[v].file.by = v /\ job'[v].file \notin Referenced'
    BY DEF WritersOK
  <2>1. Referenced' = Referenced
    BY DEF Referenced, Rows
  <2>2. ASSUME NEW x, EntryOK(x) PROVE EntryOK(x)'
    BY <1>5, <2>2, EntryGrows
  <2>3. CASE v = w
    <3>1. job'[v] = e
      BY <1>3, <2>3, HeldStays
    <3>. QED  BY <1>1, <1>2, <1>4, <2>1, <2>2, <2>3, <3>1
  <2>4. CASE v # w
    <3>1. job'[v] = job[v] /\ Holding(v)
      BY <1>3, <2>4, HeldStays
    <3>. QED  BY <2>1, <2>2, <3>1, HolderFacts
  <2>. QED  BY <2>3, <2>4
<1>8. DeadOK'
  BY <1>1 DEF DeadOK
<1>. QED  BY <1>5, <1>6, <1>7, <1>8

LEMMA AppendRowInv == ASSUME IInv, NEW w \in Writers, AppendRow(w) PROVE IInv'
<1>. DEFINE i == job[w].id
            row == [file |-> job[w].file, who |-> job[w].who]
<1>1. /\ up /\ job[w].stage = "append" /\ health = "ok"
      /\ UNCHANGED <<healthVars, processed, stuck, handled, expired, spool, aliasVars, acking,
                     deleting>>
      /\ \/ /\ ~Accepted(i) /\ rows' = [rows EXCEPT ![i] = Append(@, row)]
            /\ bound' = IF i.kind = "mail" THEN [bound EXCEPT ![i.for] = <<row.who>>] ELSE bound
            /\ To(w, Idle)
         \/ To(w, [job[w] EXCEPT !.stage = "discard"]) /\ UNCHANGED <<rows, bound>>
  BY DEF AppendRow, First
<1>2. UNCHANGED <<limit, up, crashes, health, ghosts, litter, processed, stuck, handled, expired,
                  spool, named, succeeded, moves, acking, deleting>>
  BY <1>1 DEF healthVars, aliasVars
<1>3. /\ job[w] \in Jobs /\ EntryOK(job[w]) /\ i \in Ids /\ job[w].file \in Files
      /\ job[w].file.by = w /\ job[w].file \notin Referenced /\ job[w].file \in spool
      /\ job[w].file.id = i /\ job[w].who \in Sessions \cup {Nobody} /\ Spooled(w)
  <2>1. Holding(w) /\ Spooled(w)
    BY <1>1 DEF Holding, Spooled
  <2>. QED  BY <2>1, HolderFacts DEF EntryOK, Jobs
<1>4. CASE To(w, [job[w] EXCEPT !.stage = "discard"]) /\ UNCHANGED <<rows, bound>>
  <2>1. health' \in {"ok", "poisoned"} /\ ghosts' \subseteq Entries
    BY <1>2 DEF IInv, TypeOK
  <2>2. TypeOK' /\ WritersOK' /\ DeadOK' /\ BindingsStay
    BY <1>2, <1>3, <1>4, <2>1, ToDiscard
  <2>3. DeletersOK' /\ ActsOK'
    BY <1>2, <1>4, <2>2, Frames
  <2>. QED  BY <1>2, <1>4, <2>2, <2>3, SteadyInv
<1>5. CASE /\ ~Accepted(i) /\ rows' = [rows EXCEPT ![i] = Append(@, row)]
           /\ bound' = IF i.kind = "mail" THEN [bound EXCEPT ![i.for] = <<row.who>>] ELSE bound
           /\ To(w, Idle)
  <2>1. /\ row \in PostRows /\ row.file = job[w].file /\ row.who = job[w].who
    BY <1>3 DEF PostRows
  <2>. HIDE DEF row
  <2>2. rows \in [Ids -> {<<>>} \cup {<<r>> : r \in PostRows}] /\ rows[i] = <<>>
    BY <1>3, <1>5 DEF IInv, RowsOK, Accepted
  <2>3. /\ rows' = [rows EXCEPT ![i] = <<row>>]
        /\ rows' \in [Ids -> {<<>>} \cup {<<r>> : r \in PostRows}]
        /\ rows'[i] = <<row>> /\ rows'[i] # <<>> /\ rows'[i][1] = row
        /\ \A j \in Ids \ {i} : rows'[j] = rows[j]
    <3>1. Append(rows[i], row) = <<row>>
      BY <2>2
    <3>2. rows' = [rows EXCEPT ![i] = <<row>>]
      BY <1>5, <3>1
    <3>. QED  BY <1>3, <2>1, <2>2, <3>2
  <2>4. /\ \A j \in Ids : Accepted(j) => rows'[j] = rows[j]
        /\ \A j \in Ids : ~Accepted(j) /\ rows'[j] # <<>> => j = i
    BY <1>5, <2>3 DEF Accepted
  <2>5. /\ bound' \in [Messages -> Seq(Sessions)]
        /\ \A m \in Messages :
               /\ bound'[m] # <<>> <=> rows'[Id(m, "mail")] # <<>>
               /\ Accepted(Id(m, "mail")) => bound'[m] = bound[m]
    <3>1. /\ bound \in [Messages -> Seq(Sessions)]
          /\ \A m \in Messages : bound[m] # <<>> <=> rows[Id(m, "mail")] # <<>>
      BY DEF IInv, BoundOK, Accepted
    <3>2. \A m \in Messages : Id(m, "mail") \in Ids /\ Id(m, "mail").for = m
                              /\ Id(m, "mail").kind = "mail"
      BY DEF Id, Ids, Kinds
    <3>3. CASE i.kind = "mail"
      <4>1. i = Id(i.for, "mail") /\ i.for \in Messages
        BY <1>3, <3>3, IdOf
      <4>2. bound' = [bound EXCEPT ![i.for] = <<row.who>>] /\ row.who \in Sessions
        BY <1>3, <1>5, <2>1, <3>3 DEF EntryOK
      <4>3. /\ bound' \in [Messages -> Seq(Sessions)] /\ bound'[i.for] = <<row.who>>
            /\ bound'[i.for] # <<>>
            /\ \A m \in Messages \ {i.for} : bound'[m] = bound[m]
        BY <3>1, <4>1, <4>2
      <4>4. \A m \in Messages \ {i.for} : Id(m, "mail") # i
        BY <3>2
      <4>. HIDE DEF i
      <4>. QED  BY <1>5, <2>3, <3>1, <3>2, <4>1, <4>3, <4>4 DEF Accepted
    <3>4. CASE i.kind # "mail"
      <4>1. \A m \in Messages : Id(m, "mail") # i
        BY <3>2, <3>4
      <4>2. bound' = bound
        BY <1>5, <3>4
      <4>. HIDE DEF i
      <4>. QED  BY <2>3, <3>1, <3>2, <4>1, <4>2
    <3>. QED  BY <3>3, <3>4
  <2>6. ASSUME NEW m \in Messages, ~Answered(m), rows'[Id(m, "reply")] # <<>>
        PROVE  Tied(m, rows'[Id(m, "reply")][1].who)
    <3>1. Id(m, "reply") \in Ids /\ Id(m, "reply").kind = "reply" /\ Id(m, "reply").for = m
      BY DEF Id, Ids, Kinds
    <3>2. Id(m, "reply") = i
      BY <2>4, <2>6, <3>1 DEF Answered
    <3>. QED  BY <1>3, <2>1, <2>3, <3>1, <3>2 DEF EntryOK
  <2>7. \A j \in Ids : ~Accepted(j) /\ rows'[j] # <<>> => rows'[j][1].file.id = j
    BY <1>3, <2>1, <2>3, <2>4
  <2>8. /\ RowsOK' /\ BoundOK' /\ BindingsStay /\ Referenced \subseteq Referenced'
        /\ \A j \in Ids : Accepted(j) => Accepted(j)'
        /\ \A f \in Referenced' : f \in Referenced
              \/ \E j \in Ids : ~Accepted(j) /\ rows'[j] # <<>> /\ f = rows'[j][1].file
        /\ OneBodyPerPost'
    <3>1. \A j \in Ids : ~Accepted(j) /\ rows'[j] # <<>> =>
             rows'[j][1].file \in spool' \cup expired' \cup Ghostly'
      BY <1>2, <1>3, <2>1, <2>3, <2>4
    <3>2. (Referenced \cap (spool \cup expired) \subseteq spool' \cup expired') /\ ghosts \subseteq ghosts'
      BY <1>2
    <3>. HIDE DEF i
    <3>. QED  BY <1>2, <2>3, <2>4, <2>5, <2>6, <2>7, <3>1, <3>2, RowsGrow
  <2>9. \A f \in Referenced' : f \in Referenced \/ f = job[w].file
    BY <2>1, <2>3, <2>4, <2>8
  <2>10. job' = [job EXCEPT ![w] = Idle]
    BY <1>5 DEF To
  <2>11. /\ job' \in [Writers -> Entries] /\ ~Holding(w)'
         /\ \A v \in Writers \ {w} : /\ job'[v] = job[v] /\ (Holding(v)' <=> Holding(v))
                                     /\ (Spooled(v)' <=> Spooled(v))
         /\ ~Spooled(w)'
    BY <2>10, IdleFacts, HeldStays
  <2>12. WritersOK'
    <3>. SUFFICES ASSUME NEW v \in Writers, Holding(v)'
                  PROVE  EntryOK(job[v])' /\ job'[v].file.by = v /\ job'[v].file \notin Referenced'
      BY DEF WritersOK
    <3>1. v # w /\ job'[v] = job[v] /\ Holding(v)
      BY <2>11
    <3>2. EntryOK(job[v]) /\ job[v].file.by = v /\ job[v].file \notin Referenced
      BY <3>1, HolderFacts
    <3>3. \A x : x = job[v] => EntryOK(x)'
      BY <1>2, <2>8, <3>2, EntryGrows
    <3>. QED  BY <1>3, <2>9, <3>1, <3>2, <3>3
  <2>13. DeletersOK'
    BY <1>2, <2>8 DEF IInv, DeletersOK
  <2>14. DeadOK'
    BY <1>1, <1>2 DEF DeadOK
  <2>15. GhostsOK'
    <3>1. \A g \in ghosts : EntryOK(g)'
      BY <1>2, <2>8, EntryGrows DEF IInv, GhostsOK
    <3>2. \A g \in ghosts : g.file \in Referenced
      BY <1>1 DEF IInv, GhostsOK
    <3>. QED  BY <1>2, <2>8, <3>1, <3>2 DEF GhostsOK
  <2>16. ActsOK'
    BY <1>2, <2>8, TiedGrows DEF IInv, ActsOK
  <2>17. TypeOK'
    <3>1. \A v \in Writers : Spooled(v)' => job'[v].file \in spool'
      BY <1>2, <2>11 DEF IInv, TypeOK
    <3>2. \A v, u \in Writers : v # u /\ Holding(v)' /\ Holding(u)' => job'[v].file # job'[u].file
      BY <2>11 DEF IInv, TypeOK
    <3>3. handled' \subseteq {j \in Ids : Accepted(j)}' /\ expired' \subseteq Referenced'
      BY <1>2, <2>8 DEF IInv, TypeOK
    <3>. QED  BY <1>2, <2>11, <3>1, <3>2, <3>3 DEF IInv, TypeOK
  <2>. QED  BY <2>8, <2>12, <2>13, <2>14, <2>15, <2>16, <2>17 DEF IInv
<1>. QED  BY <1>1, <1>4, <1>5

LEMMA AppendFailsInv == ASSUME IInv, NEW w \in Writers, AppendFails(w) PROVE IInv'
<1>1. /\ job[w].stage = "append" /\ health' = "poisoned"
      /\ \/ health = "ok" /\ ~Accepted(job[w].id) /\ ghosts' = ghosts \cup {job[w]}
         \/ ghosts' = ghosts
      /\ To(w, [job[w] EXCEPT !.stage = "discard"])
      /\ UNCHANGED <<limit, up, crashes, litter, ledgerVars, spool, aliasVars, acking, deleting>>
  BY DEF AppendFails, First
<1>2. UNCHANGED <<limit, up, crashes, litter, rows, bound, processed, stuck, handled, expired,
                  spool, named, succeeded, moves, acking, deleting>>
  BY <1>1 DEF ledgerVars, aliasVars
<1>3. Holding(w) /\ Spooled(w)
  BY <1>1 DEF Holding, Spooled
<1>4. /\ job[w] \in Jobs /\ EntryOK(job[w]) /\ job[w].file \notin Referenced /\ job[w].id \in Ids
  BY <1>3, HolderFacts
<1>5. health' \in {"ok", "poisoned"} /\ ghosts' \subseteq Entries /\ ghosts \subseteq ghosts'
  <2>1. job[w] \in Entries
    BY <1>4 DEF Jobs, Entries
  <2>. QED  BY <1>1, <2>1 DEF IInv, TypeOK
<1>6. TypeOK' /\ WritersOK' /\ DeadOK' /\ BindingsStay
  BY <1>1, <1>2, <1>3, <1>5, ToDiscard
<1>7. /\ RowsOK' /\ Referenced' = Referenced /\ Rows' = Rows
      /\ \A i \in Ids : (Accepted(i)' <=> Accepted(i)) /\ Row(i)' = Row(i)
  BY <1>2, <1>6, RowsStay DEF IInv
<1>8. BoundOK' /\ DeletersOK' /\ ActsOK'
  BY <1>2, <1>6, Frames
<1>9. GhostsOK'
  <2>1. \A g \in ghosts' : EntryOK(g)
    BY <1>1, <1>4 DEF IInv, GhostsOK
  <2>2. \A g \in ghosts' : EntryOK(g)' /\ g.id \in Ids
    BY <1>2, <1>6, <2>1, EntryGrows DEF EntryOK, Jobs
  <2>3. \A g \in ghosts' : g.file \notin Referenced =>
           /\ ~Accepted(g.id)
           /\ \A h \in ghosts' : h.file \notin Referenced => h.file = g.file
    BY <1>1, <1>4 DEF IInv, GhostsOK
  <2>. QED  BY <1>1, <1>7, <2>2, <2>3 DEF GhostsOK
<1>10. OneBodyPerPost'
  <2>1. Ghostly \subseteq Ghostly'
    BY <1>5 DEF Ghostly
  <2>. QED  BY <1>2, <1>7, <2>1 DEF IInv, OneBodyPerPost
<1>. QED  BY <1>6, <1>7, <1>8, <1>9, <1>10 DEF IInv

LEMMA DiscardInv == ASSUME IInv, NEW w \in Writers, Discard(w) PROVE IInv'
<1>1. /\ up /\ job[w].stage = "discard" /\ job' = [job EXCEPT ![w] = Idle]
      /\ spool' = spool \ {job[w].file} \/ spool' = spool
      /\ UNCHANGED <<limit, up, crashes, health, ghosts, litter, rows, bound, processed, stuck,
                     handled, expired, named, succeeded, acking, deleting>>
  BY DEF Discard, To, healthVars, ledgerVars, aliasVars
<1>2. job[w].file \notin Referenced /\ job[w].file.by = w
  BY <1>1, HolderFacts DEF Holding
<1>3. \A v \in Writers \ {w} : Spooled(v) => job[v].file \in spool'
  <2>1. \A v \in Writers \ {w} : Spooled(v) => job[v].file \in spool /\ job[v].file.by = v
    BY HolderFacts, SpooledHold
  <2>. QED  BY <1>1, <1>2, <2>1
<1>4. spool' \subseteq Files /\ crashes' \in 0..limit.crashes /\ litter' \in BOOLEAN
  BY <1>1, CountersStay DEF IInv, TypeOK
<1>5. Referenced \cap (spool \cup expired) \subseteq spool' \cup expired'
  BY <1>1, <1>2
<1>. QED  BY <1>1, <1>3, <1>4, <1>5, IdleFacts, WriterInv
-----------------------------------------------------------------------------
\* The daemon runs and neither a writer nor a row moves.
LEMMA CalmInv ==
    ASSUME IInv, up,
           UNCHANGED <<limit, up, crashes, health, ghosts, litter, rows, bound, job, succeeded>>,
           stuck' \in [Messages -> BOOLEAN], processed' \in [Messages -> Sessions \cup {Nobody}],
           acking' \in [Messages -> SUBSET Sessions], handled' \subseteq {i \in Ids : Accepted(i)},
           expired \subseteq expired', expired' \subseteq Referenced,
           spool' \subseteq Files, FilesIn(spool'), DeletersOK', ActsOK',
           Referenced \cap (spool \cup expired) \subseteq spool' \cup expired'
    PROVE  IInv'
<1>1. BindingsStay
  BY DEF BindingsStay
<1>2. /\ Referenced' = Referenced /\ {i \in Ids : Accepted(i)}' = {i \in Ids : Accepted(i)}
  BY DEF Referenced, Rows, Accepted
<1>3. /\ \A w \in Writers : Spooled(w)' => job'[w].file \in spool'
      /\ \A v, w \in Writers :
            v # w /\ Holding(v)' /\ Holding(w)' => job'[v].file # job'[w].file
  BY DEF FilesIn, Spooled, Holding, IInv, TypeOK
<1>4. TypeOK'
  BY <1>2, <1>3 DEF IInv, TypeOK
<1>5. WritersOK' /\ DeadOK'
  BY <1>1, Frames DEF DeadOK
<1>. QED  BY <1>4, <1>5, SteadyInv

LEMMA OutcomeInv == ASSUME IInv, NEW m \in Messages, Outcome(m) PROVE IInv'
<1>1. /\ up /\ stuck' = [stuck EXCEPT ![m] = TRUE]
      /\ UNCHANGED <<limit, up, crashes, health, ghosts, litter, rows, bound, processed, handled,
                     expired, spool, named, succeeded, moves, job, acking, deleting>>
  BY DEF Outcome, healthVars, aliasVars, workVars
<1>2. stuck' \in [Messages -> BOOLEAN]
  BY <1>1 DEF IInv, TypeOK
<1>3. BindingsStay
  BY <1>1 DEF BindingsStay
<1>4. DeletersOK' /\ ActsOK'
  BY <1>1, <1>3, Frames
<1>5. /\ processed' \in [Messages -> Sessions \cup {Nobody}] /\ acking' \in [Messages -> SUBSET Sessions]
      /\ handled' \subseteq {i \in Ids : Accepted(i)} /\ expired' \subseteq Referenced
      /\ spool' \subseteq Files /\ FilesIn(spool')
  BY <1>1 DEF IInv, TypeOK, FilesIn
<1>. QED  BY <1>1, <1>2, <1>4, <1>5, CalmInv

LEMMA AcknowledgeInv == ASSUME IInv, NEW m \in Messages, Acknowledge(m) PROVE IInv'
<1>1. /\ up /\ Readable(m) /\ acking' = [acking EXCEPT ![m] = @ \cup {named}]
      /\ UNCHANGED <<limit, up, crashes, health, ghosts, litter, rows, bound, processed, stuck,
                     handled, expired, spool, named, succeeded, moves, job, deleting>>
  BY DEF Acknowledge, healthVars, ledgerVars, aliasVars
<1>2. Tied(m, named) /\ named \in Sessions
  BY <1>1, ReaderIsTied
<1>3. acking \in [Messages -> SUBSET Sessions] /\ acking' \in [Messages -> SUBSET Sessions]
  BY <1>1, <1>2 DEF IInv, TypeOK
<1>4. BindingsStay
  BY <1>1 DEF BindingsStay
<1>5. DeletersOK'
  BY <1>1, <1>4, Frames
<1>6. \A n \in Messages : \A s \in acking'[n] : Tied(n, s)
  BY <1>1, <1>2, <1>3 DEF IInv, ActsOK
<1>7. ActsOK'
  BY <1>1, <1>4, <1>6, TiedGrows DEF IInv, ActsOK
<1>8. /\ processed' \in [Messages -> Sessions \cup {Nobody}] /\ stuck' \in [Messages -> BOOLEAN]
      /\ handled' \subseteq {i \in Ids : Accepted(i)} /\ expired' \subseteq Referenced
      /\ spool' \subseteq Files /\ FilesIn(spool')
  BY <1>1 DEF IInv, TypeOK, FilesIn
<1>. QED  BY <1>1, <1>3, <1>5, <1>7, <1>8, CalmInv

LEMMA ProcessInv ==
    ASSUME IInv, NEW m \in Messages, NEW s \in Sessions, Process(m, s)
    PROVE  IInv'
<1>1. /\ up /\ s \in acking[m]
      /\ acking' = [acking EXCEPT ![m] = @ \ {s}]
      /\ processed' = [processed EXCEPT ![m] = s] \/ processed' = processed
      /\ UNCHANGED <<limit, up, crashes, health, ghosts, litter, rows, bound, stuck, handled,
                     expired, spool, named, succeeded, moves, job, deleting>>
  BY DEF Process, healthVars, aliasVars
<1>2. /\ acking \in [Messages -> SUBSET Sessions] /\ acking' \in [Messages -> SUBSET Sessions]
      /\ processed \in [Messages -> Sessions \cup {Nobody}]
      /\ processed' \in [Messages -> Sessions \cup {Nobody}]
  BY <1>1 DEF IInv, TypeOK
<1>3. BindingsStay
  BY <1>1 DEF BindingsStay
<1>4. DeletersOK'
  BY <1>1, <1>3, Frames
<1>5. \A n \in Messages : /\ \A t \in acking'[n] : Tied(n, t)
                          /\ processed'[n] # Nobody => Tied(n, processed'[n])
  BY <1>1, <1>2 DEF IInv, ActsOK
<1>6. ActsOK'
  <2>1. \A n \in Messages : /\ \A t \in acking'[n] : Tied(n, t)'
                            /\ processed'[n] # Nobody => \A t : t = processed'[n] => Tied(n, t)'
    BY <1>1, <1>3, <1>5, TiedGrows
  <2>. QED  BY <1>1, <2>1 DEF IInv, ActsOK
<1>7. /\ stuck' \in [Messages -> BOOLEAN]
      /\ handled' \subseteq {i \in Ids : Accepted(i)} /\ expired' \subseteq Referenced
      /\ spool' \subseteq Files /\ FilesIn(spool')
  BY <1>1 DEF IInv, TypeOK, FilesIn
<1>. QED  BY <1>1, <1>2, <1>4, <1>6, <1>7, CalmInv

LEMMA HandleInv == ASSUME IInv, NEW i \in Ids, Handle(i) PROVE IInv'
<1>1. /\ up /\ Accepted(i) /\ handled' = handled \cup {i}
      /\ UNCHANGED <<limit, up, crashes, health, ghosts, litter, rows, bound, processed, stuck,
                     expired, spool, named, succeeded, moves, job, acking, deleting>>
  BY DEF Handle, healthVars, aliasVars, workVars
<1>2. BindingsStay
  BY <1>1 DEF BindingsStay
<1>3. DeletersOK' /\ ActsOK'
  BY <1>1, <1>2, Frames
<1>4. /\ processed' \in [Messages -> Sessions \cup {Nobody}] /\ acking' \in [Messages -> SUBSET Sessions]
      /\ stuck' \in [Messages -> BOOLEAN]
      /\ handled' \subseteq {j \in Ids : Accepted(j)} /\ expired' \subseteq Referenced
      /\ spool' \subseteq Files /\ FilesIn(spool')
  BY <1>1 DEF IInv, TypeOK, FilesIn
<1>. QED  BY <1>1, <1>3, <1>4, CalmInv

\* The other steps of a deletion, and the sweep, leave the same things alone.
LEMMA SpoolOnlyInv ==
    ASSUME IInv, up,
           UNCHANGED <<healthVars, rows, bound, processed, stuck, handled, aliasVars, job, acking>>,
           expired \subseteq expired', expired' \subseteq Referenced, spool' \subseteq spool,
           FilesIn(spool'), Referenced \cap spool \subseteq spool' \cup expired', DeletersOK'
    PROVE  IInv'
<1>1. UNCHANGED <<limit, up, crashes, health, ghosts, litter, rows, bound, processed, stuck,
                  handled, named, succeeded, moves, job, acking>>
  BY DEF healthVars, aliasVars
<1>2. BindingsStay
  BY <1>1 DEF BindingsStay
<1>3. ActsOK'
  BY <1>1, <1>2, Frames
<1>4. /\ processed' \in [Messages -> Sessions \cup {Nobody}] /\ acking' \in [Messages -> SUBSET Sessions]
      /\ stuck' \in [Messages -> BOOLEAN]
      /\ handled' \subseteq {j \in Ids : Accepted(j)} /\ spool' \subseteq Files
  BY <1>1 DEF IInv, TypeOK
<1>. QED  BY <1>1, <1>3, <1>4, CalmInv

\* Nobody who has yet to append holds a file that a row names.
LEMMA HeldIsUnnamed ==
    ASSUME IInv
    PROVE  /\ FilesIn(spool) /\ FilesIn(spool \ Stray)
           /\ \A f \in Referenced : FilesIn(spool \ {f})
<1>1. \A w \in Writers : Spooled(w) =>
         job[w].file \notin Referenced /\ job[w].file \in spool /\ job[w].file \in Held
  BY HolderFacts, SpooledHold DEF Held
<1>. QED  BY <1>1 DEF FilesIn, Stray

LEMMA DeleteInv == ASSUME IInv, NEW d \in Deleters, NEW i \in Ids, Delete(d, i) PROVE IInv'
<1>1. /\ up /\ Accepted(i)
      /\ deleting' = [deleting EXCEPT ![d] = [stage |-> "row", file |-> Row(i).file]]
      /\ UNCHANGED <<healthVars, rows, bound, processed, stuck, handled, expired, spool, aliasVars,
                     job, acking>>
  BY DEF Delete, ledgerVars
<1>2. Row(i).file \in Referenced /\ Row(i).file \in Files
  BY <1>1, RowFacts DEF IInv
<1>3. Referenced' = Referenced
  BY <1>1 DEF Referenced, Rows
<1>4. DeletersOK'
  <2>. DEFINE e == [stage |-> "row", file |-> Row(i).file]
  <2>1. e \in Deletions /\ e.stage = "row" /\ e.file = Row(i).file
    BY <1>2 DEF Deletions
  <2>2. deleting' = [deleting EXCEPT ![d] = e]
    BY <1>1
  <2>. HIDE DEF e
  <2>. QED  BY <1>1, <1>2, <1>3, <2>1, <2>2 DEF IInv, DeletersOK
<1>5. expired' = expired /\ spool' = spool
  BY <1>1
<1>6. expired' \subseteq Referenced /\ FilesIn(spool')
  BY <1>5, HeldIsUnnamed DEF IInv, TypeOK
<1>. QED  BY <1>1, <1>4, <1>5, <1>6, SpoolOnlyInv

LEMMA ExpireInv == ASSUME IInv, NEW d \in Deleters, Expire(d) PROVE IInv'
<1>1. /\ up /\ deleting[d].stage = "row"
      /\ \/ /\ expired' = expired \cup {deleting[d].file}
            /\ deleting' = [deleting EXCEPT ![d].stage = "unlink"]
         \/ deleting' = [deleting EXCEPT ![d] = Idle] /\ expired' = expired
      /\ UNCHANGED <<healthVars, rows, bound, processed, stuck, handled, spool, aliasVars, job,
                     acking>>
  BY DEF Expire
<1>2. deleting[d].file \in Referenced /\ expired \subseteq Referenced
      /\ deleting \in [Deleters -> Deletions]
  BY <1>1 DEF IInv, DeletersOK, TypeOK
<1>3. Referenced' = Referenced
  BY <1>1 DEF Referenced, Rows
<1>4. DeletersOK'
  <2>1. CASE /\ expired' = expired \cup {deleting[d].file}
             /\ deleting' = [deleting EXCEPT ![d].stage = "unlink"]
    <3>. DEFINE e == [deleting[d] EXCEPT !.stage = "unlink"]
    <3>1. deleting[d] \in [stage : {"row", "unlink"}, file : Files]
      BY <1>1, <1>2, IdleFacts DEF Deletions
    <3>2. e \in Deletions /\ e.stage = "unlink" /\ e.file = deleting[d].file
      BY <3>1 DEF Deletions
    <3>3. deleting' = [deleting EXCEPT ![d] = e]
      BY <1>2, <2>1
    <3>. HIDE DEF e
    <3>. QED  BY <1>2, <1>3, <2>1, <3>2, <3>3 DEF IInv, DeletersOK
  <2>2. CASE deleting' = [deleting EXCEPT ![d] = Idle] /\ expired' = expired
    BY <1>2, <1>3, <2>2, IdleFacts DEF IInv, DeletersOK
  <2>. QED  BY <1>1, <2>1, <2>2
<1>5. /\ expired \subseteq expired' /\ expired' \subseteq Referenced /\ spool' = spool
      /\ FilesIn(spool')
  BY <1>1, <1>2, HeldIsUnnamed
<1>. QED  BY <1>1, <1>4, <1>5, SpoolOnlyInv

LEMMA UnlinkInv == ASSUME IInv, NEW d \in Deleters, Unlink(d) PROVE IInv'
<1>1. /\ up /\ deleting[d].stage = "unlink"
      /\ spool' = spool \ {deleting[d].file} \/ spool' = spool
      /\ deleting' = [deleting EXCEPT ![d] = Idle]
      /\ UNCHANGED <<healthVars, rows, bound, processed, stuck, handled, expired, aliasVars, job,
                     acking>>
  BY DEF Unlink, ledgerVars
<1>2. /\ deleting[d].file \in Referenced /\ deleting[d].file \in expired
      /\ expired \subseteq Referenced
  BY <1>1 DEF IInv, DeletersOK, TypeOK
<1>3. Referenced' = Referenced
  BY <1>1 DEF Referenced, Rows
<1>4. DeletersOK'
  BY <1>1, <1>3, IdleFacts DEF IInv, DeletersOK
<1>5. expired' = expired /\ FilesIn(spool')
  BY <1>1, <1>2, HeldIsUnnamed
<1>. QED  BY <1>1, <1>2, <1>4, <1>5, SpoolOnlyInv

LEMMA SweepInv == ASSUME IInv, Sweep PROVE IInv'
<1>1. /\ up /\ spool' = spool \ Stray
      /\ UNCHANGED <<healthVars, rows, bound, processed, stuck, handled, expired, aliasVars, job,
                     acking, deleting>>
  BY DEF Sweep, ledgerVars, workVars
<1>2. expired \subseteq Referenced /\ FilesIn(spool')
  BY <1>1, HeldIsUnnamed DEF IInv, TypeOK
<1>3. BindingsStay /\ succeeded' = succeeded /\ expired' = expired
  BY <1>1 DEF BindingsStay, aliasVars
<1>4. DeletersOK'
  BY <1>1, <1>3, Frames
<1>. QED  BY <1>1, <1>2, <1>3, <1>4, SpoolOnlyInv DEF Stray

LEMMA RelinkInv == ASSUME IInv, NEW m \in Messages, Relink(m) PROVE IInv'
<1>1. /\ up /\ Accepted(Id(m, "mail")) /\ bound' = [bound EXCEPT ![m] = Append(@, named)]
      /\ UNCHANGED <<limit, up, crashes, health, ghosts, litter, rows, processed, stuck, handled,
                     expired, spool, named, succeeded, moves, job, acking, deleting>>
  BY DEF Relink, healthVars, aliasVars, workVars
<1>2. bound \in [Messages -> Seq(Sessions)] /\ bound[m] \in Seq(Sessions) /\ named \in Sessions
  BY DEF IInv, BoundOK, ActsOK
<1>3. /\ Append(bound[m], named) \in Seq(Sessions) /\ Append(bound[m], named) # <<>>
      /\ \A k \in DOMAIN bound[m] :
            k \in DOMAIN Append(bound[m], named) /\ Append(bound[m], named)[k] = bound[m][k]
  BY <1>2, AppendProperties, LenProperties
<1>4. /\ bound' \in [Messages -> Seq(Sessions)] /\ bound'[m] = Append(bound[m], named)
      /\ \A n \in Messages \ {m} : bound'[n] = bound[n]
  BY <1>1, <1>2, <1>3
<1>5. BindingsStay
  BY <1>3, <1>4 DEF BindingsStay
<1>6. /\ RowsOK' /\ Referenced' = Referenced
      /\ \A i \in Ids : (Accepted(i)' <=> Accepted(i)) /\ Row(i)' = Row(i)
  BY <1>1, <1>5, RowsStay DEF IInv
<1>7. BoundOK'
  <2>1. \A n \in Messages : Id(n, "mail") \in Ids
    BY DEF Id, Ids, Kinds
  <2>2. \A n \in Messages : bound'[n] # <<>> <=> Accepted(Id(n, "mail"))
    BY <1>1, <1>3, <1>4 DEF IInv, BoundOK
  <2>. QED  BY <1>4, <1>6, <2>1, <2>2 DEF BoundOK
<1>8. TypeOK'
  <2>1. {i \in Ids : Accepted(i)}' = {i \in Ids : Accepted(i)}
    BY <1>6
  <2>. QED  BY <1>1, <1>6, <2>1 DEF IInv, TypeOK, Holding, Spooled
<1>9. WritersOK' /\ DeletersOK' /\ DeadOK' /\ ActsOK' /\ GhostsOK' /\ OneBodyPerPost'
  BY <1>1, <1>5, Frames
<1>. QED  BY <1>6, <1>7, <1>8, <1>9 DEF IInv

LEMMA MoveInv == ASSUME IInv, NEW s \in Sessions, Move(s) PROVE IInv'
<1>1. /\ up /\ named' = s /\ succeeded \subseteq succeeded'
      /\ UNCHANGED <<limit, up, crashes, health, ghosts, litter, rows, bound, processed, stuck,
                     handled, expired, spool, job, acking, deleting>>
  BY DEF Move, healthVars, ledgerVars, workVars
<1>2. BindingsStay
  BY <1>1 DEF BindingsStay
<1>3. /\ RowsOK' /\ Referenced' = Referenced
      /\ \A i \in Ids : (Accepted(i)' <=> Accepted(i)) /\ Row(i)' = Row(i)
  BY <1>1, <1>2, RowsStay DEF IInv
<1>4. TypeOK'
  <2>1. {i \in Ids : Accepted(i)}' = {i \in Ids : Accepted(i)}
    BY <1>3
  <2>. QED  BY <1>1, <1>3, <2>1 DEF IInv, TypeOK, Holding, Spooled
<1>5. ActsOK'
  <2>1. \A n \in Messages : /\ \A t \in acking[n] : Tied(n, t)'
                            /\ processed[n] # Nobody => \A t : t = processed[n] => Tied(n, t)'
    BY <1>1, <1>2, TiedGrows DEF IInv, ActsOK
  <2>. QED  BY <1>1, <2>1 DEF ActsOK
<1>6. WritersOK' /\ DeletersOK' /\ DeadOK' /\ BoundOK' /\ GhostsOK' /\ OneBodyPerPost'
  BY <1>1, <1>2, Frames
<1>. QED  BY <1>3, <1>4, <1>5, <1>6 DEF IInv

LEMMA CrashInv == ASSUME IInv, Crash PROVE IInv'
<1>1. /\ up' = FALSE /\ crashes < limit.crashes /\ crashes' = crashes + 1
      /\ job' = [w \in Writers |-> Idle] /\ acking' = [m \in Messages |-> {}]
      /\ deleting' = [d \in Deleters |-> Idle]
      /\ litter' = (litter \/ \E w \in Writers : job[w].stage = "write")
      /\ UNCHANGED <<limit, health, ghosts, rows, bound, processed, stuck, handled, expired, spool,
                     named, succeeded, moves>>
  BY DEF Crash, ledgerVars, aliasVars
<1>2. \A w \in Writers : ~Holding(w)' /\ ~Spooled(w)'
  BY <1>1, IdleFacts DEF Holding, Spooled
<1>3. litter' \in BOOLEAN
  BY <1>1 DEF IInv, TypeOK
<1>4. /\ Referenced' = Referenced /\ {i \in Ids : Accepted(i)}' = {i \in Ids : Accepted(i)}
  BY <1>1 DEF Referenced, Rows, Accepted
<1>5. crashes' \in 0..limit.crashes
  <2>1. limit.crashes \in Nat
    BY MailAssumption DEF IInv, TypeOK
  <2>. QED  BY <1>1, <2>1 DEF IInv, TypeOK
<1>6. TypeOK'
  <2>1. job' \in [Writers -> Entries] /\ acking' \in [Messages -> SUBSET Sessions]
    BY <1>1, IdleFacts
  <2>. QED  BY <1>1, <1>2, <1>3, <1>4, <1>5, <2>1 DEF IInv, TypeOK
<1>7. WritersOK' /\ DeadOK'
  BY <1>1, <1>2 DEF WritersOK, DeadOK
<1>8. DeletersOK'
  BY <1>1, IdleFacts DEF DeletersOK
<1>9. ActsOK'
  <2>1. \A m \in Messages : processed[m] # Nobody => \A t : t = processed[m] => Tied(m, t)'
    BY <1>1, TiedGrows DEF IInv, ActsOK, BindingsStay
  <2>. QED  BY <1>1, <2>1 DEF IInv, ActsOK
<1>. QED  BY <1>1, <1>6, <1>7, <1>8, <1>9, SteadyInv
-----------------------------------------------------------------------------
\* The rows that the next start reads for the first time, and what they say.
Missed(i) == {g \in ghosts : g.id = i /\ g.file \notin Referenced}
Read(i) == LET g == CHOOSE g \in Missed(i) : TRUE IN [file |-> g.file, who |-> g.who]

\* Of such an id there is no row, and what is read is an entry that a writer had in hand.
LEMMA MissedFacts ==
    ASSUME IInv, NEW i \in Ids, Missed(i) # {}
    PROVE  /\ rows[i] = <<>> /\ ~Accepted(i) /\ Read(i) \in PostRows
           /\ Read(i).file.id = i /\ Read(i).file \in Ghostly
           /\ i.kind = "mail" => Read(i).who \in Sessions
           /\ i.kind = "reply" => Tied(i.for, Read(i).who)
           /\ \A h \in ghosts : h.file \notin Referenced => h.file = Read(i).file
<1>. DEFINE g == CHOOSE g \in Missed(i) : TRUE
<1>1. g \in ghosts /\ g.id = i /\ g.file \notin Referenced
  BY DEF Missed
<1>2. Read(i) = [file |-> g.file, who |-> g.who]
  BY DEF Read
<1>. HIDE DEF g
<1>3. EntryOK(g) /\ ~Accepted(i) /\ \A h \in ghosts : h.file \notin Referenced => h.file = g.file
  BY <1>1 DEF IInv, GhostsOK
<1>4. rows[i] = <<>>
  BY <1>3 DEF Accepted
<1>5. Read(i) \in PostRows /\ Read(i).file = g.file /\ Read(i).who = g.who
  BY <1>2, <1>3 DEF EntryOK, Jobs, PostRows
<1>6. g.file \in Ghostly
  BY <1>1 DEF Ghostly
<1>. QED  BY <1>1, <1>3, <1>4, <1>5, <1>6 DEF EntryOK

LEMMA RestartInv == ASSUME IInv, Restart PROVE IInv'
<1>1. /\ ~up /\ up' = TRUE /\ health' = "ok"
      /\ rows' = [i \in Ids |-> IF Missed(i) = {} THEN rows[i] ELSE Append(rows[i], Read(i))]
      /\ bound' = [m \in Messages |-> IF Missed(Id(m, "mail")) = {} THEN bound[m]
                                     ELSE <<Read(Id(m, "mail")).who>>]
      /\ spool' = spool \cap Referenced'
      /\ UNCHANGED <<limit, ghosts, litter, crashes, processed, stuck, handled, expired, named,
                     succeeded, moves, job, acking, deleting>>
  BY DEF Restart, Missed, Read, aliasVars, workVars
<1>2. ASSUME NEW i \in Ids
      PROVE  /\ Missed(i) = {} => rows'[i] = rows[i]
             /\ Missed(i) # {} => rows'[i] = <<Read(i)>>
             /\ rows'[i] \in {<<>>} \cup {<<r>> : r \in PostRows}
             /\ Accepted(i) => rows'[i] = rows[i]
             /\ ~Accepted(i) /\ rows'[i] # <<>> => Missed(i) # {} /\ rows'[i][1] = Read(i)
  <2>1. rows[i] \in {<<>>} \cup {<<r>> : r \in PostRows}
    BY DEF IInv, RowsOK
  <2>2. CASE Missed(i) = {}
    <3>1. rows'[i] = rows[i]
      BY <1>1, <2>2
    <3>. QED  BY <2>1, <2>2, <3>1 DEF Accepted
  <2>3. CASE Missed(i) # {}
    <3>1. /\ rows[i] = <<>> /\ ~Accepted(i) /\ Read(i) \in PostRows
      BY <2>3, MissedFacts
    <3>2. rows'[i] = Append(rows[i], Read(i))
      BY <1>1, <2>3
    <3>3. rows'[i] = <<Read(i)>>
      BY <3>1, <3>2
    <3>. QED  BY <2>3, <3>1, <3>3
  <2>. QED  BY <2>2, <2>3
<1>3. rows' \in [Ids -> {<<>>} \cup {<<r>> : r \in PostRows}]
  <2>. DEFINE S == {<<>>} \cup {<<r>> : r \in PostRows}
              R(i) == IF Missed(i) = {} THEN rows[i] ELSE Append(rows[i], Read(i))
  <2>1. rows' = [i \in Ids |-> R(i)]
    BY <1>1
  <2>2. \A i \in Ids : rows'[i] \in S
    BY <1>2
  <2>. HIDE DEF S, R
  <2>3. rows' \in [Ids -> S]
    BY <2>1, <2>2
  <2>. QED  BY <2>3 DEF S
<1>4. \A i \in Ids : ~Accepted(i) /\ rows'[i] # <<>> =>
         rows'[i][1].file.id = i /\ rows'[i][1].file \in Ghostly
  BY <1>2, MissedFacts
<1>5. \A m \in Messages : Id(m, "mail") \in Ids /\ Id(m, "mail").kind = "mail"
         /\ Id(m, "reply") \in Ids /\ Id(m, "reply").kind = "reply" /\ Id(m, "reply").for = m
  BY DEF Id, Ids, Kinds
<1>6. /\ bound \in [Messages -> Seq(Sessions)]
      /\ \A m \in Messages : bound[m] # <<>> <=> rows[Id(m, "mail")] # <<>>
  BY DEF IInv, BoundOK, Accepted
<1>7. ASSUME NEW m \in Messages
      PROVE  /\ bound'[m] \in Seq(Sessions)
             /\ bound'[m] # <<>> <=> rows'[Id(m, "mail")] # <<>>
             /\ Accepted(Id(m, "mail")) => bound'[m] = bound[m]
  <2>1. CASE Missed(Id(m, "mail")) = {}
    BY <1>1, <1>2, <1>5, <1>6, <2>1
  <2>2. CASE Missed(Id(m, "mail")) # {}
    <3>1. Read(Id(m, "mail")).who \in Sessions /\ ~Accepted(Id(m, "mail"))
      BY <1>5, <2>2, MissedFacts
    <3>2. bound'[m] = <<Read(Id(m, "mail")).who>> /\ rows'[Id(m, "mail")] = <<Read(Id(m, "mail"))>>
      BY <1>1, <1>2, <1>5, <2>2
    <3>. QED  BY <3>1, <3>2
  <2>. QED  BY <2>1, <2>2
<1>8. bound' \in [Messages -> Seq(Sessions)]
  <2>. DEFINE B(m) == IF Missed(Id(m, "mail")) = {} THEN bound[m]
                      ELSE <<Read(Id(m, "mail")).who>>
  <2>1. bound' = [m \in Messages |-> B(m)]
    BY <1>1
  <2>. HIDE DEF B
  <2>. QED  BY <1>7, <2>1
<1>9. ASSUME NEW m \in Messages, ~Answered(m), rows'[Id(m, "reply")] # <<>>
      PROVE  Tied(m, rows'[Id(m, "reply")][1].who)
  <2>1. ~Accepted(Id(m, "reply"))
    BY <1>9 DEF Answered
  <2>2. Missed(Id(m, "reply")) # {} /\ rows'[Id(m, "reply")][1] = Read(Id(m, "reply"))
    BY <1>2, <1>5, <1>9, <2>1
  <2>. QED  BY <1>5, <2>2, MissedFacts
<1>10. /\ \A m \in Messages : /\ bound'[m] # <<>> <=> rows'[Id(m, "mail")] # <<>>
                              /\ Accepted(Id(m, "mail")) => bound'[m] = bound[m]
       /\ \A i \in Ids : Accepted(i) => rows'[i] = rows[i]
       /\ \A i \in Ids : ~Accepted(i) /\ rows'[i] # <<>> => rows'[i][1].file.id = i
       /\ succeeded' = succeeded
  BY <1>1, <1>2, <1>4, <1>7
<1>11. /\ RowsOK' /\ BoundOK' /\ BindingsStay /\ Referenced \subseteq Referenced'
       /\ \A i \in Ids : Accepted(i) => Accepted(i)'
       /\ \A i \in Ids : rows'[i] # <<>> => rows'[i][1].file \in Referenced'
  BY <1>3, <1>8, <1>9, <1>10, RowsGrow
<1>12. OneBodyPerPost'
  <2>1. Referenced \cap (spool \cup expired) \subseteq spool' \cup expired'
    BY <1>1, <1>11
  <2>2. Ghostly' = Ghostly /\ ghosts \subseteq ghosts'
    BY <1>1 DEF Ghostly
  <2>3. \A i \in Ids : ~Accepted(i) /\ rows'[i] # <<>> =>
           rows'[i][1].file \in spool' \cup expired' \cup Ghostly'
    BY <1>4, <2>2
  <2>. QED  BY <1>3, <1>8, <1>9, <1>10, <2>1, <2>2, <2>3, RowsGrow
<1>13. /\ \A w \in Writers : ~Holding(w)' /\ ~Spooled(w)'
       /\ \A m \in Messages : acking'[m] = {}
  BY <1>1, SpooledHold DEF IInv, DeadOK, Holding, Spooled
<1>14. TypeOK'
  <2>1. litter' \in BOOLEAN /\ crashes' \in 0..limit'.crashes
    BY <1>1 DEF IInv, TypeOK
  <2>2. /\ handled' \subseteq {i \in Ids : Accepted(i)}' /\ expired' \subseteq Referenced'
        /\ spool' \subseteq Files /\ up' \in BOOLEAN /\ health' \in {"ok", "poisoned"}
    BY <1>1, <1>11 DEF IInv, TypeOK
  <2>. QED  BY <1>1, <1>13, <2>1, <2>2 DEF IInv, TypeOK
<1>15. WritersOK' /\ DeadOK'
  BY <1>1, <1>13 DEF WritersOK, DeadOK
<1>16. DeletersOK'
  BY <1>1, <1>11 DEF IInv, DeletersOK
<1>17. GhostsOK'
  <2>1. \A g \in ghosts : EntryOK(g) /\ EntryOK(g)' /\ g.id \in Ids
    BY <1>1, <1>11, EntryGrows DEF IInv, GhostsOK, EntryOK, Jobs
  <2>2. ASSUME NEW g \in ghosts PROVE g.file \in Referenced'
    <3>1. CASE g.file \in Referenced
      BY <1>11, <3>1
    <3>2. CASE g.file \notin Referenced
      <4>1. Missed(g.id) # {} /\ g.id \in Ids
        BY <2>1, <3>2 DEF Missed
      <4>2. rows'[g.id] = <<Read(g.id)>> /\ g.file = Read(g.id).file
        BY <1>2, <3>2, <4>1, MissedFacts
      <4>3. rows'[g.id] # <<>> /\ rows'[g.id][1] = Read(g.id)
        BY <4>2
      <4>. QED  BY <1>11, <4>1, <4>2, <4>3
    <3>. QED  BY <3>1, <3>2
  <2>. QED  BY <1>1, <2>1, <2>2 DEF GhostsOK
<1>18. ActsOK'
  <2>1. \A m \in Messages : processed[m] # Nobody => \A t : t = processed[m] => Tied(m, t)'
    BY <1>1, <1>11, TiedGrows DEF IInv, ActsOK
  <2>. QED  BY <1>1, <1>13, <2>1 DEF IInv, ActsOK
<1>. QED  BY <1>11, <1>12, <1>14, <1>15, <1>16, <1>17, <1>18 DEF IInv
-----------------------------------------------------------------------------
LEMMA InitInv == Init => IInv
<1>. SUFFICES ASSUME Init PROVE IInv
  OBVIOUS
<1>1. /\ limit \in Limits /\ up = TRUE /\ crashes = 0 /\ health = "ok" /\ ghosts = {}
      /\ litter = FALSE
      /\ rows = [i \in Ids |-> <<>>] /\ bound = [m \in Messages |-> <<>>]
      /\ processed = [m \in Messages |-> Nobody] /\ stuck = [m \in Messages |-> FALSE]
      /\ handled = {} /\ expired = {} /\ spool = {}
      /\ named = (CHOOSE s \in Sessions : TRUE)
      /\ job = [w \in Writers |-> Idle] /\ acking = [m \in Messages |-> {}]
      /\ deleting = [d \in Deleters |-> Idle]
  BY DEF Init
<1>2. \A w \in Writers : ~Holding(w) /\ ~Spooled(w)
  BY <1>1, IdleFacts DEF Holding, Spooled
<1>3. \A i \in Ids : ~Accepted(i) /\ rows[i] = <<>>
  BY <1>1 DEF Accepted
<1>4. Referenced = {} /\ Rows = {}
  BY <1>1 DEF Referenced, Rows
<1>5. \A m \in Messages : Id(m, "mail") \in Ids /\ Id(m, "reply") \in Ids
  BY DEF Id, Ids, Kinds
<1>6. TypeOK
  <2>1. limit.crashes \in Nat
    BY <1>1, MailAssumption
  <2>2. job \in [Writers -> Entries]
    BY <1>1, IdleFacts
  <2>3. litter \in BOOLEAN /\ up \in BOOLEAN /\ stuck \in [Messages -> BOOLEAN]
    BY <1>1
  <2>4. /\ \A w \in Writers : Spooled(w) => job[w].file \in spool
        /\ \A v, w \in Writers :
              v # w /\ Holding(v) /\ Holding(w) => job[v].file # job[w].file
    BY <1>2
  <2>. QED  BY <1>1, <1>4, <2>1, <2>2, <2>3, <2>4 DEF TypeOK
<1>7. RowsOK
  BY <1>1, <1>3, <1>5 DEF RowsOK, Answered
<1>8. BoundOK
  BY <1>1, <1>3, <1>5 DEF BoundOK
<1>9. WritersOK /\ DeadOK /\ GhostsOK
  BY <1>1, <1>2 DEF WritersOK, DeadOK, GhostsOK
<1>10. DeletersOK
  BY <1>1, IdleFacts DEF DeletersOK
<1>11. ActsOK
  BY <1>1, MailAssumption DEF ActsOK
<1>12. OneBodyPerPost
  BY <1>3, <1>4 DEF OneBodyPerPost
<1>. QED  BY <1>6, <1>7, <1>8, <1>9, <1>10, <1>11, <1>12 DEF IInv

LEMMA NextInv == ASSUME IInv, [Next]_vars PROVE IInv'
<1>1. CASE Next
  BY <1>1, ReplyInv, PostInv, ReceiptInv, PublishInv, SpoolFailsInv, AppendRowInv, AppendFailsInv,
     DiscardInv, OutcomeInv, AcknowledgeInv, RelinkInv, ProcessInv, MoveInv, HandleInv, DeleteInv, ExpireInv, UnlinkInv,
     SweepInv, CrashInv, RestartInv DEF Next, WriterStep, ReceiptStep
<1>2. CASE UNCHANGED vars
  <2>1. UNCHANGED <<limit, up, crashes, health, ghosts, litter, rows, bound, processed, stuck,
                    handled, expired, spool, named, succeeded, moves, job, acking, deleting>>
    BY <1>2 DEF vars, healthVars, ledgerVars, aliasVars, workVars
  <2>2. BindingsStay
    BY <2>1 DEF BindingsStay
  <2>3. Referenced' = Referenced /\ {i \in Ids : Accepted(i)}' = {i \in Ids : Accepted(i)}
    BY <2>1 DEF Referenced, Rows, Accepted
  <2>4. TypeOK'
    BY <2>1, <2>3 DEF IInv, TypeOK, Holding, Spooled
  <2>5. WritersOK' /\ DeletersOK' /\ DeadOK' /\ ActsOK'
    BY <2>1, <2>2, Frames
  <2>. QED  BY <2>1, <2>4, <2>5, SteadyInv
<1>. QED  BY <1>1, <1>2

LEMMA Invariance == Spec => []IInv
BY InitInv, NextInv, PTL DEF Spec
-----------------------------------------------------------------------------
\* Every variable keeps its type: a writer that has yet to append finds its
\* file where it put it, whatever sweeps and deletions ran meanwhile, and no
\* other writer has it.
THEOREM TypeCorrect == Spec => []TypeOK
<1>1. IInv => TypeOK
  BY DEF IInv
<1>. QED  BY <1>1, Invariance, PTL

\* Whichever copies of a message race, and wherever the daemon dies, an id has
\* one row and one file, and the body is there until a row says it is not; but
\* for the row that a failed append left on disk.
THEOREM PostsHaveBodies == Spec => []OneBodyPerPost
<1>1. IInv => OneBodyPerPost
  BY DEF IInv
<1>. QED  BY <1>1, Invariance, PTL

\* Whoever processes or answers a message was given it, or descends by proven
\* successions from a session that was, also when the alias moved between the
\* decision and the row.
THEOREM HoldersAct == Spec => []OnlyHoldersAct
<1>1. IInv => OnlyHoldersAct
  <2>. SUFFICES ASSUME IInv, NEW m \in Messages, NEW s \in Sessions,
                       processed[m] = s \/ (Answered(m) /\ Row(Id(m, "reply")).who = s)
                PROVE  Tied(m, s)
    BY DEF OnlyHoldersAct, Tied
  <2>1. s # Nobody
    BY MailAssumption DEF Nobody
  <2>. QED  BY <2>1 DEF IInv, ActsOK, RowsOK
<1>. QED  BY <1>1, Invariance, PTL
-----------------------------------------------------------------------------
\* What a letter other than a message needs, and never loses.
Grounded(i) ==
    /\ i.kind # "mail" => Accepted(Id(i.for, "mail"))
    /\ i.kind = "undelivered" => stuck[i.for]
    /\ i.kind = "unanswered" => processed[i.for] # Nobody

\* Who is about to write a letter has its grounds, and so had the writer of a row that was
\* taken for lost; who is about to expire a body finds it, or it is expired already.
ClaimsOK ==
    /\ \A w \in Writers : Holding(w) => Grounded(job[w].id)
    /\ \A g \in ghosts : Grounded(g.id)
    /\ \A d \in Deleters : deleting[d].stage = "row" => deleting[d].file \in spool \cup expired

\* Whoever holds something held it before, or has the grounds for it now.
ClaimsStay ==
    /\ \A i \in Ids : Accepted(i) => Accepted(i)'
    /\ \A m \in Messages : /\ stuck[m] => stuck'[m]
                           /\ processed[m] # Nobody => processed'[m] # Nobody
    /\ \A w \in Writers : Holding(w)' =>
           (Holding(w) /\ job'[w].id = job[w].id) \/ Grounded(job'[w].id)
    /\ \A g \in ghosts' : g \in ghosts \/ (\E w \in Writers : Holding(w) /\ g = job[w])
    /\ Referenced \cap (spool \cup expired) \subseteq spool' \cup expired'
    /\ \A d \in Deleters : deleting'[d].stage = "row" =>
           deleting'[d] = deleting[d] \/ deleting'[d].file \in spool'

LEMMA GroundsGrow ==
    ASSUME ClaimsStay, NEW i \in Ids, Grounded(i)
    PROVE  Grounded(i)'
<1>1. i.for \in Messages /\ Id(i.for, "mail") \in Ids
  BY DEF Ids, Id, Kinds
<1>. QED  BY <1>1 DEF ClaimsStay, Grounded

LEMMA ClaimsInv ==
    ASSUME IInv, IInv', ClaimsOK, ClaimsStay
    PROVE  ClaimsOK'
<1>1. ASSUME NEW w \in Writers, Holding(w)' PROVE Grounded(job[w].id)'
  <2>1. job'[w].id \in Ids
    BY <1>1 DEF IInv, WritersOK, EntryOK, Jobs
  <2>2. Grounded(job'[w].id)
    BY <1>1 DEF ClaimsOK, ClaimsStay
  <2>3. \A i \in Ids : Grounded(i) => Grounded(i)'
    BY GroundsGrow
  <2>4. \A i \in Ids : i = job'[w].id => Grounded(i)'
    BY <2>2, <2>3
  <2>. QED  BY <2>1, <2>4
<1>2. ASSUME NEW g \in ghosts' PROVE Grounded(g.id)'
  <2>1. g.id \in Ids
    BY DEF IInv, GhostsOK, EntryOK, Jobs
  <2>2. Grounded(g.id)
    BY DEF ClaimsOK, ClaimsStay
  <2>. QED  BY <2>1, <2>2, GroundsGrow
<1>3. ASSUME NEW d \in Deleters, deleting'[d].stage = "row"
      PROVE  deleting'[d].file \in spool' \cup expired'
  <2>1. deleting'[d] = deleting[d] => deleting[d].file \in Referenced \cap (spool \cup expired)
    BY <1>3 DEF IInv, DeletersOK, ClaimsOK
  <2>. QED  BY <1>3, <2>1 DEF ClaimsStay
<1>. QED  BY <1>1, <1>2, <1>3 DEF ClaimsOK
-----------------------------------------------------------------------------
\* The variables of Mailbox, as the rows, the bindings, the ghosts and the spool give them.
SameBodies == \A f \in Referenced : f \in spool' <=> f \in spool

LEMMA MailboxStays ==
    ASSUME IInv
    PROVE  /\ rows' = rows => Wrote' = Wrote
           /\ bound' = bound => Given' = Given
           /\ ghosts' = ghosts => Failed' = Failed
           /\ rows' = rows /\ expired' = expired => Released' = Released
           /\ rows' = rows /\ SameBodies => Bodies' = Bodies
<1>1. \A i \in Ids : Accepted(i) => Row(i).file \in Referenced
  BY RowFacts DEF IInv
<1>2. rows' = rows => \A i \in Ids : (Accepted(i)' <=> Accepted(i)) /\ Row(i)' = Row(i)
  BY DEF Accepted, Row
<1>. QED  BY <1>1, <1>2 DEF Wrote, Given, Failed, Released, Bodies, SameBodies

\* For Mailbox nothing happens.
Unmoved == /\ UNCHANGED <<rows, bound, ghosts, succeeded, processed, stuck, expired>>
           /\ SameBodies
MailboxStep == Promised!MailboxNext \/ UNCHANGED Promised!mailboxVars

LEMMA UnmovedStutters ==
    ASSUME IInv, Unmoved
    PROVE  UNCHANGED Promised!mailboxVars /\ MailboxStep
<1>1. UNCHANGED <<Wrote, Given, Failed, Released, Bodies, succeeded, processed, stuck>>
  BY MailboxStays DEF Unmoved
<1>. QED  BY <1>1 DEF Promised!mailboxVars, MailboxStep

\* Neither does anything for what the claims rest on.
LEMMA UnmovedClaims ==
    ASSUME IInv, Unmoved,
           \A w \in Writers : Holding(w)' =>
               (Holding(w) /\ job'[w].id = job[w].id) \/ Grounded(job'[w].id),
           \A d \in Deleters : deleting'[d].stage = "row" =>
               deleting'[d] = deleting[d] \/ deleting'[d].file \in spool'
    PROVE  ClaimsStay
<1>1. \A i \in Ids : Accepted(i) => Accepted(i)'
  BY DEF Unmoved, Accepted
<1>. QED  BY <1>1 DEF Unmoved, SameBodies, ClaimsStay

\* A row is a letter: the first of its id, and nothing else of the mail changes with it.
LEMMA RowIsLetter ==
    ASSUME IInv, NEW i \in Ids, NEW r \in PostRows, ~Accepted(i), r.file \notin Referenced,
           Grounded(i), i.kind = "mail" => r.who \in Sessions,
           i.kind = "reply" => Tied(i.for, r.who),
           rows'[i] = <<r>>, \A j \in Ids \ {i} : rows'[j] = rows[j],
           \A m \in Messages : bound'[m] = IF Id(m, "mail") = i THEN <<r.who>> ELSE bound[m],
           UNCHANGED <<succeeded, processed, stuck, ghosts, expired>>,
           SameBodies, r.file \in spool' \/ i \in Failed
    PROVE  MailboxStep
<1>1. /\ Accepted(i)' /\ Row(i)' = r
      /\ \A j \in Ids \ {i} : (Accepted(j)' <=> Accepted(j)) /\ Row(j)' = Row(j)
  BY DEF Accepted, Row
<1>2. Wrote' = [Wrote EXCEPT ![i] = {r.who}] /\ Wrote[i] = {}
  BY <1>1 DEF Wrote
<1>3. i.for \in Messages /\ Id(i.for, "mail") \in Ids /\ i.kind \in Kinds
  BY DEF Ids, Id, Kinds
<1>4. Given' = IF i.kind = "mail" THEN [Given EXCEPT ![i.for] = {r.who}] ELSE Given
  <2>1. \A m \in Messages : Id(m, "mail") = i <=> i.kind = "mail" /\ m = i.for
    BY DEF Ids, Id, Kinds
  <2>2. {<<r.who>>[k] : k \in DOMAIN <<r.who>>} = {r.who}
    OBVIOUS
  <2>3. \A m \in Messages : {bound'[m][k] : k \in DOMAIN bound'[m]} =
            IF i.kind = "mail" /\ m = i.for THEN {r.who} ELSE {bound[m][k] : k \in DOMAIN bound[m]}
    BY <2>1, <2>2
  <2>. QED  BY <1>3, <2>3 DEF Given
<1>5. expired \subseteq Referenced /\ \A j \in Ids : Accepted(j) => Row(j).file \in Referenced
  BY RowFacts DEF IInv, TypeOK
<1>6. Released' = Released /\ Failed' = Failed
  BY <1>1, <1>5 DEF Released, Failed
<1>7. Bodies' = Bodies \cup {i} \/ (i \in Failed /\ Bodies' = Bodies)
  BY <1>1, <1>5 DEF Bodies, SameBodies
<1>8. Promised!Grounds(i, r.who)
  <2>1. Tied(i.for, r.who) => Promised!Entitled(i.for, r.who)
    BY <1>3 DEF Tied, Lineage, Given, Promised!Entitled, Promised!Ancestry
  <2>2. Accepted(Id(i.for, "mail")) => Wrote[Promised!Original(i.for)] # {}
    BY <1>3 DEF Wrote, Id, Promised!Original
  <2>. QED  BY <2>1, <2>2 DEF Grounded, Promised!Grounds, Nobody, Promised!Nobody
<1>9. Promised!Write(i, r.who)
  BY <1>2, <1>4, <1>6, <1>7, <1>8 DEF Promised!Write
<1>10. i \in Promised!Letters /\ r.who \in Sessions \cup {Promised!Nobody}
  BY DEF Ids, Kinds, Promised!Letters, Promised!Kinds, PostRows, Nobody, Promised!Nobody
<1>. QED  BY <1>9, <1>10 DEF MailboxStep, Promised!MailboxNext
-----------------------------------------------------------------------------
\* A writer that begins has its grounds.
LEMMA SpoolKeeps ==
    ASSUME IInv, NEW w \in Writers, NEW i \in Ids, NEW who, Spool(w, i, who), Grounded(i)
    PROVE  ClaimsStay /\ MailboxStep
<1>1. /\ To(w, [stage |-> "write", id |-> i, file |-> Name(w, i), who |-> who])
      /\ UNCHANGED <<ghosts, rows, bound, processed, stuck, expired, spool, succeeded, deleting>>
  BY DEF Spool, healthVars, ledgerVars, aliasVars
<1>2. Unmoved
  BY <1>1 DEF Unmoved, SameBodies
<1>3. ASSUME NEW v \in Writers, Holding(v)'
      PROVE  (Holding(v) /\ job'[v].id = job[v].id) \/ Grounded(job'[v].id)
  <2>. DEFINE e == [stage |-> "write", id |-> i, file |-> Name(w, i), who |-> who]
  <2>1. e.id = i /\ job' = [job EXCEPT ![w] = e]
    BY <1>1 DEF To
  <2>. HIDE DEF e
  <2>2. job'[w].id = i /\ \A u \in Writers \ {w} : job'[u] = job[u] /\ (Holding(u)' <=> Holding(u))
    BY <2>1, HeldStays
  <2>. QED  BY <1>3, <2>2
<1>. QED  BY <1>1, <1>2, <1>3, UnmovedStutters, UnmovedClaims

LEMMA WritingKeeps ==
    ASSUME IInv, NEW m \in Messages,
           \/ \E w \in Callers : Reply(w, m) \/ Post(w, m)
           \/ \E k \in {"undelivered", "unanswered"} : Receipt(m, k)
    PROVE  ClaimsStay /\ MailboxStep
<1>1. ASSUME NEW w \in Callers, Post(w, m) PROVE ClaimsStay /\ MailboxStep
  <2>1. /\ w \in Writers /\ Spool(w, Id(m, "mail"), named)
        /\ Id(m, "mail") \in Ids /\ Id(m, "mail").kind = "mail"
    BY <1>1, IdFacts DEF Post, Writers, Kinds
  <2>2. Grounded(Id(m, "mail"))
    BY <2>1 DEF Grounded
  <2>. QED  BY <2>1, <2>2, SpoolKeeps
<1>2. ASSUME NEW w \in Callers, Reply(w, m) PROVE ClaimsStay /\ MailboxStep
  <2>1. /\ w \in Writers /\ Spool(w, Id(m, "reply"), named) /\ Accepted(Id(m, "mail"))
        /\ Id(m, "reply") \in Ids /\ Id(m, "reply").kind = "reply" /\ Id(m, "reply").for = m
    BY <1>2, IdFacts DEF Reply, Readable, Writers, Kinds
  <2>2. Grounded(Id(m, "reply"))
    BY <2>1 DEF Grounded
  <2>. QED  BY <2>1, <2>2, SpoolKeeps
<1>3. ASSUME NEW k \in {"undelivered", "unanswered"}, Receipt(m, k)
      PROVE  ClaimsStay /\ MailboxStep
  <2>1. /\ "receipts" \in Writers /\ Spool("receipts", Id(m, k), Nobody) /\ Due(m, k)
        /\ Id(m, k) \in Ids /\ Id(m, k).kind = k /\ Id(m, k).for = m
    BY <1>3, IdFacts DEF Receipt, Writers, Kinds
  <2>2. Grounded(Id(m, k))
    BY <2>1 DEF Grounded, Due
  <2>. QED  BY <2>1, <2>2, SpoolKeeps
<1>. QED  BY <1>1, <1>2, <1>3

\* A writer goes on with the letter it holds, or with none.
LEMMA GoingOn ==
    ASSUME IInv, NEW w \in Writers, NEW e, job' = [job EXCEPT ![w] = e],
           e.stage = "idle" \/ (Holding(w) /\ e.id = job[w].id)
    PROVE  \A v \in Writers : Holding(v)' =>
               (Holding(v) /\ job'[v].id = job[v].id) \/ Grounded(job'[v].id)
<1>1. /\ job'[w] = e /\ \A v \in Writers \ {w} : job'[v] = job[v] /\ (Holding(v)' <=> Holding(v))
      /\ Holding(w)' <=> e.stage # "idle"
  BY HeldStays
<1>. QED  BY <1>1

\* The file a writer has in hand gets its name: no row knows it.
LEMMA PublishKeeps ==
    ASSUME IInv, NEW w \in Writers, Publish(w)
    PROVE  ClaimsStay /\ MailboxStep
<1>. DEFINE e == [job[w] EXCEPT !.stage = "append"]
<1>1. /\ job[w].stage = "write" /\ job' = [job EXCEPT ![w] = e]
      /\ spool' = spool \cup {job[w].file}
      /\ UNCHANGED <<ghosts, rows, bound, processed, stuck, expired, succeeded, deleting>>
  BY DEF Publish, To, healthVars, ledgerVars, aliasVars
<1>2. Holding(w) /\ job[w] \in Jobs /\ job[w].file \notin Referenced
  BY <1>1, HolderFacts DEF Holding
<1>3. e.id = job[w].id
  BY <1>2 DEF Jobs
<1>. HIDE DEF e
<1>4. \A v \in Writers : Holding(v)' =>
         (Holding(v) /\ job'[v].id = job[v].id) \/ Grounded(job'[v].id)
  BY <1>1, <1>2, <1>3, GoingOn
<1>5. Unmoved
  BY <1>1, <1>2 DEF Unmoved, SameBodies
<1>. QED  BY <1>1, <1>4, <1>5, UnmovedStutters, UnmovedClaims

LEMMA AppendKeeps ==
    ASSUME IInv, ClaimsOK, NEW w \in Writers, AppendRow(w)
    PROVE  ClaimsStay /\ MailboxStep
<1>. DEFINE i == job[w].id
            row == [file |-> job[w].file, who |-> job[w].who]
<1>1. /\ job[w].stage = "append"
      /\ UNCHANGED <<ghosts, processed, stuck, expired, spool, succeeded, deleting>>
      /\ \/ /\ ~Accepted(i) /\ rows' = [rows EXCEPT ![i] = Append(@, row)]
            /\ bound' = IF i.kind = "mail" THEN [bound EXCEPT ![i.for] = <<row.who>>] ELSE bound
            /\ To(w, Idle)
         \/ To(w, [job[w] EXCEPT !.stage = "discard"]) /\ UNCHANGED <<rows, bound>>
  BY DEF AppendRow, First, healthVars, aliasVars
<1>2. Holding(w) /\ Spooled(w)
  BY <1>1 DEF Holding, Spooled
<1>3. /\ job[w] \in Jobs /\ EntryOK(job[w]) /\ i \in Ids /\ job[w].file \notin Referenced
      /\ job[w].file \in spool /\ Grounded(i)
  BY <1>2, HolderFacts DEF ClaimsOK
<1>4. \A d \in Deleters : deleting'[d] = deleting[d]
  BY <1>1
<1>5. CASE To(w, [job[w] EXCEPT !.stage = "discard"]) /\ UNCHANGED <<rows, bound>>
  <2>. DEFINE e == [job[w] EXCEPT !.stage = "discard"]
  <2>1. e.id = i /\ job' = [job EXCEPT ![w] = e]
    BY <1>3, <1>5 DEF To, Jobs
  <2>. HIDE DEF e
  <2>2. Unmoved
    BY <1>1, <1>5 DEF Unmoved, SameBodies
  <2>3. \A v \in Writers : Holding(v)' =>
            (Holding(v) /\ job'[v].id = job[v].id) \/ Grounded(job'[v].id)
    BY <1>2, <2>1, GoingOn
  <2>. QED  BY <1>4, <2>2, <2>3, UnmovedStutters, UnmovedClaims
<1>6. CASE /\ ~Accepted(i) /\ rows' = [rows EXCEPT ![i] = Append(@, row)]
           /\ bound' = IF i.kind = "mail" THEN [bound EXCEPT ![i.for] = <<row.who>>] ELSE bound
           /\ To(w, Idle)
  <2>1. row \in PostRows /\ row.file = job[w].file /\ row.who = job[w].who
    BY <1>3 DEF Jobs, PostRows
  <2>. HIDE DEF row
  <2>2. rows \in [Ids -> {<<>>} \cup {<<r>> : r \in PostRows}] /\ rows[i] = <<>>
    BY <1>3, <1>6 DEF IInv, RowsOK, Accepted
  <2>3. rows'[i] = <<row>> /\ \A j \in Ids \ {i} : rows'[j] = rows[j]
    <3>1. Append(rows[i], row) = <<row>>
      BY <2>2
    <3>. QED  BY <1>3, <1>6, <2>2, <3>1
  <2>4. bound \in [Messages -> Seq(Sessions)]
    BY DEF IInv, BoundOK
  <2>5. ASSUME NEW m \in Messages
        PROVE  bound'[m] = IF Id(m, "mail") = i THEN <<row.who>> ELSE bound[m]
    <3>1. i.for \in Messages /\ (Id(m, "mail") = i <=> i.kind = "mail" /\ m = i.for)
      BY <1>3 DEF Ids, Id, Kinds
    <3>. HIDE DEF i
    <3>. QED  BY <1>6, <2>4, <3>1
  <2>6. /\ i.kind = "mail" => row.who \in Sessions
        /\ i.kind = "reply" => Tied(i.for, row.who)
    BY <1>3, <2>1 DEF EntryOK
  <2>7. SameBodies /\ row.file \in spool' /\ row.file \notin Referenced
    BY <1>1, <1>3, <2>1 DEF SameBodies
  <2>8. MailboxStep
    <3>. HIDE DEF i
    <3>. QED  BY <1>1, <1>3, <1>6, <2>1, <2>3, <2>5, <2>6, <2>7, RowIsLetter
  <2>9. ClaimsStay
    <3>1. \A j \in Ids : Accepted(j) => Accepted(j)'
      BY <1>6, <2>3 DEF Accepted
    <3>2. \A v \in Writers : Holding(v)' =>
              (Holding(v) /\ job'[v].id = job[v].id) \/ Grounded(job'[v].id)
      <4>1. job' = [job EXCEPT ![w] = Idle] /\ Idle.stage = "idle"
        BY <1>6, IdleFacts DEF To
      <4>. QED  BY <4>1, GoingOn
    <3>. QED  BY <1>1, <1>4, <3>1, <3>2 DEF ClaimsStay
  <2>. QED  BY <2>8, <2>9
<1>. QED  BY <1>1, <1>5, <1>6

LEMMA FailureKeeps ==
    ASSUME IInv, NEW w \in Writers, AppendFails(w)
    PROVE  ClaimsStay /\ MailboxStep
<1>1. /\ job[w].stage = "append"
      /\ \/ ~Accepted(job[w].id) /\ ghosts' = ghosts \cup {job[w]}
         \/ ghosts' = ghosts
      /\ To(w, [job[w] EXCEPT !.stage = "discard"])
      /\ UNCHANGED <<rows, bound, processed, stuck, expired, spool, succeeded, deleting>>
  BY DEF AppendFails, First, ledgerVars, aliasVars
<1>2. Holding(w)
  BY <1>1 DEF Holding
<1>3. job[w] \in Jobs /\ job[w].id \in Ids
  BY <1>2, HolderFacts
<1>4. \A v \in Writers : Holding(v)' =>
          (Holding(v) /\ job'[v].id = job[v].id) \/ Grounded(job'[v].id)
  <2>. DEFINE e == [job[w] EXCEPT !.stage = "discard"]
  <2>1. e.id = job[w].id /\ job' = [job EXCEPT ![w] = e]
    BY <1>1, <1>3 DEF To, Jobs
  <2>. HIDE DEF e
  <2>. QED  BY <1>2, <2>1, GoingOn
<1>5. ClaimsStay
  <2>1. /\ \A d \in Deleters : deleting'[d] = deleting[d]
        /\ \A i \in Ids : Accepted(i) => Accepted(i)'
    BY <1>1 DEF Accepted
  <2>. QED  BY <1>1, <1>2, <1>4, <2>1 DEF ClaimsStay
<1>6. SameBodies
  BY <1>1 DEF SameBodies
<1>7. CASE ghosts' = ghosts
  BY <1>1, <1>5, <1>6, <1>7, UnmovedStutters DEF Unmoved
<1>8. CASE ~Accepted(job[w].id) /\ ghosts' = ghosts \cup {job[w]}
  <2>1. /\ Failed' = Failed \cup {job[w].id} /\ Wrote[job[w].id] = {}
        /\ job[w].id \in Promised!Letters
    BY <1>3, <1>8 DEF Failed, Wrote, Ids, Kinds, Promised!Letters, Promised!Kinds
  <2>2. UNCHANGED <<Wrote, Given, Released, Bodies, succeeded, processed, stuck>>
    BY <1>1, <1>6, MailboxStays
  <2>3. Promised!Fail(job[w].id)
    BY <2>1, <2>2 DEF Promised!Fail
  <2>. QED  BY <1>5, <2>1, <2>3 DEF MailboxStep, Promised!MailboxNext
<1>. QED  BY <1>1, <1>7, <1>8

\* A file that no row names goes, or work is forgotten: nobody's letter is touched.
LEMMA IdleKeeps ==
    ASSUME IInv, UNCHANGED <<ghosts, rows, bound, processed, stuck, expired, succeeded>>,
           SameBodies,
           job' = job \/ (\E w \in Writers : job' = [job EXCEPT ![w] = Idle])
               \/ job' = [w \in Writers |-> Idle],
           deleting' = deleting \/ deleting' = [d \in Deleters |-> Idle]
    PROVE  ClaimsStay /\ MailboxStep
<1>1. Unmoved
  BY DEF Unmoved
<1>2. ASSUME NEW v \in Writers, Holding(v)'
      PROVE  (Holding(v) /\ job'[v].id = job[v].id) \/ Grounded(job'[v].id)
  <2>1. CASE job' = job
    BY <1>2, <2>1 DEF Holding
  <2>2. CASE \E w \in Writers : job' = [job EXCEPT ![w] = Idle]
    BY <1>2, <2>2, IdleFacts, GoingOn
  <2>3. CASE job' = [w \in Writers |-> Idle]
    BY <1>2, <2>3, IdleFacts DEF Holding
  <2>. QED  BY <2>1, <2>2, <2>3
<1>3. \A d \in Deleters : deleting'[d].stage = "row" => deleting'[d] = deleting[d]
  BY IdleFacts
<1>. QED  BY <1>1, <1>2, <1>3, UnmovedStutters, UnmovedClaims

LEMMA DiscardKeeps ==
    ASSUME IInv, NEW w \in Writers, Discard(w) \/ SpoolFails(w)
    PROVE  ClaimsStay /\ MailboxStep
<1>1. /\ job[w].stage \in {"discard", "write"} /\ job' = [job EXCEPT ![w] = Idle]
      /\ spool' \in {spool \ {job[w].file}, spool, spool \cup {job[w].file}}
      /\ UNCHANGED <<ghosts, rows, bound, processed, stuck, expired, succeeded, deleting>>
  BY DEF Discard, SpoolFails, To, healthVars, ledgerVars, aliasVars
<1>2. job[w].file \notin Referenced
  BY <1>1, HolderFacts DEF Holding
<1>3. SameBodies
  BY <1>1, <1>2 DEF SameBodies
<1>. QED  BY <1>1, <1>3, IdleKeeps

LEMMA RestKeeps ==
    ASSUME IInv, \/ \E m \in Messages : Acknowledge(m)
                 \/ \E i \in Ids : Handle(i)
                 \/ Sweep \/ Crash \/ UNCHANGED vars
    PROVE  ClaimsStay /\ MailboxStep
<1>1. /\ UNCHANGED <<ghosts, rows, bound, processed, stuck, expired, succeeded>>
      /\ spool' = spool \/ spool' = spool \ Stray
      /\ \/ job' = job /\ deleting' = deleting
         \/ job' = [w \in Writers |-> Idle] /\ deleting' = [d \in Deleters |-> Idle]
  BY DEF Acknowledge, Handle, Sweep, Crash, vars, healthVars, ledgerVars, aliasVars, workVars
<1>2. SameBodies
  BY <1>1 DEF SameBodies, Stray
<1>. QED  BY <1>1, <1>2, IdleKeeps

\* Deletions are of what is on disk.
LEMMA DeleteKeeps ==
    ASSUME IInv, NEW d \in Deleters, NEW i \in Ids, Delete(d, i)
    PROVE  ClaimsStay /\ MailboxStep
<1>1. /\ deleting' = [deleting EXCEPT ![d] = [stage |-> "row", file |-> Row(i).file]]
      /\ Row(i).file \in spool
      /\ UNCHANGED <<ghosts, rows, bound, processed, stuck, expired, spool, succeeded, job>>
  BY DEF Delete, OnDisk, healthVars, ledgerVars, aliasVars
<1>2. Unmoved
  BY <1>1 DEF Unmoved, SameBodies
<1>3. \A v \in Writers : Holding(v)' => Holding(v) /\ job'[v].id = job[v].id
  BY <1>1 DEF Holding
<1>4. ASSUME NEW x \in Deleters
      PROVE  deleting'[x] = deleting[x] \/ deleting'[x].file \in spool'
  <2>. DEFINE e == [stage |-> "row", file |-> Row(i).file]
  <2>1. e.file \in spool' /\ deleting' = [deleting EXCEPT ![d] = e]
    BY <1>1
  <2>. HIDE DEF e
  <2>2. deleting \in [Deleters -> Deletions]
    BY DEF IInv, DeletersOK
  <2>. QED  BY <2>1, <2>2
<1>. QED  BY <1>2, <1>3, <1>4, UnmovedStutters, UnmovedClaims
-----------------------------------------------------------------------------
\* The steps that leave the writers, the deletions and the spool alone.
LEMMA LedgerKeeps ==
    ASSUME IInv, UNCHANGED <<ghosts, rows, expired, spool, job, deleting>>,
           \A m \in Messages : /\ stuck[m] => stuck'[m]
                               /\ processed[m] # Nobody => processed'[m] # Nobody
    PROVE  ClaimsStay /\ UNCHANGED <<Wrote, Failed, Released, Bodies>>
<1>1. SameBodies /\ \A i \in Ids : Accepted(i) => Accepted(i)'
  BY DEF SameBodies, Accepted
<1>2. UNCHANGED <<Wrote, Failed, Released, Bodies>>
  BY <1>1, MailboxStays
<1>. QED  BY <1>1, <1>2 DEF ClaimsStay, Holding

LEMMA OutcomeKeeps ==
    ASSUME IInv, NEW m \in Messages, Outcome(m)
    PROVE  ClaimsStay /\ MailboxStep
<1>1. /\ Accepted(Id(m, "mail")) /\ stuck' = [stuck EXCEPT ![m] = TRUE]
      /\ UNCHANGED <<ghosts, rows, bound, expired, spool, job, deleting, processed, succeeded>>
  BY DEF Outcome, healthVars, aliasVars, workVars
<1>2. \A n \in Messages : stuck[n] => stuck'[n]
  BY <1>1 DEF IInv, TypeOK
<1>3. ClaimsStay /\ UNCHANGED <<Wrote, Given, Failed, Released, Bodies>>
  BY <1>1, <1>2, LedgerKeeps, MailboxStays
<1>4. Wrote[Promised!Original(m)] # {}
  BY <1>1, IdFacts DEF Wrote, Id, Kinds, Promised!Original
<1>5. Promised!Hold(m)
  BY <1>1, <1>3, <1>4 DEF Promised!Hold
<1>. QED  BY <1>3, <1>5 DEF MailboxStep, Promised!MailboxNext

LEMMA ProcessKeeps ==
    ASSUME IInv, NEW m \in Messages, NEW s \in Sessions, Process(m, s)
    PROVE  ClaimsStay /\ MailboxStep
<1>1. /\ s \in acking[m]
      /\ \/ processed[m] = Nobody /\ processed' = [processed EXCEPT ![m] = s]
         \/ processed' = processed
      /\ UNCHANGED <<ghosts, rows, bound, expired, spool, job, deleting, stuck, succeeded>>
  BY DEF Process, healthVars, aliasVars
<1>2. \A n \in Messages : processed[n] # Nobody => processed'[n] # Nobody
  BY <1>1 DEF IInv, TypeOK
<1>3. ClaimsStay /\ UNCHANGED <<Wrote, Given, Failed, Released, Bodies>>
  BY <1>1, <1>2, LedgerKeeps, MailboxStays
<1>4. CASE processed' = processed
  BY <1>1, <1>3, <1>4 DEF MailboxStep, Promised!mailboxVars
<1>5. CASE processed[m] = Nobody /\ processed' = [processed EXCEPT ![m] = s]
  <2>1. Tied(m, s)
    BY <1>1 DEF IInv, ActsOK
  <2>2. Promised!Entitled(m, s)
    BY <2>1 DEF Tied, Lineage, Given, Promised!Entitled, Promised!Ancestry
  <2>3. Promised!Process(m, s)
    BY <1>1, <1>3, <1>5, <2>2 DEF Promised!Process, Nobody, Promised!Nobody
  <2>. QED  BY <1>3, <2>3 DEF MailboxStep, Promised!MailboxNext
<1>. QED  BY <1>1, <1>4, <1>5

LEMMA RelinkKeeps ==
    ASSUME IInv, NEW m \in Messages, Relink(m)
    PROVE  ClaimsStay /\ MailboxStep
<1>1. /\ Accepted(Id(m, "mail")) /\ processed[m] = Nobody
      /\ bound' = [bound EXCEPT ![m] = Append(@, named)]
      /\ UNCHANGED <<ghosts, rows, expired, spool, job, deleting, processed, stuck, succeeded>>
  BY DEF Relink, healthVars, aliasVars, workVars
<1>2. ClaimsStay /\ UNCHANGED <<Wrote, Failed, Released, Bodies>>
  BY <1>1, LedgerKeeps
<1>3. bound \in [Messages -> Seq(Sessions)] /\ bound[m] \in Seq(Sessions) /\ named \in Sessions
  BY DEF IInv, BoundOK, ActsOK
<1>4. Given' = [Given EXCEPT ![m] = @ \cup {named}]
  <2>. DEFINE b == Append(bound[m], named)
  <2>1. {b[k] : k \in DOMAIN b} = {bound[m][k] : k \in DOMAIN bound[m]} \cup {named}
    <3>1. /\ b \in Seq(Sessions) /\ Len(b) = Len(bound[m]) + 1 /\ b[Len(bound[m]) + 1] = named
          /\ \A k \in 1..Len(bound[m]) : b[k] = bound[m][k]
          /\ DOMAIN b = 1..Len(b) /\ DOMAIN bound[m] = 1..Len(bound[m]) /\ Len(bound[m]) \in Nat
      BY <1>3, AppendProperties, LenProperties
    <3>. HIDE DEF b
    <3>2. 1..Len(b) = 1..Len(bound[m]) \cup {Len(bound[m]) + 1}
      BY <3>1
    <3>. QED  BY <3>1, <3>2
  <2>2. bound' = [bound EXCEPT ![m] = b]
    BY <1>1
  <2>. HIDE DEF b
  <2>3. bound'[m] = b /\ \A n \in Messages \ {m} : bound'[n] = bound[n]
    BY <1>3, <2>2
  <2>4. Given'[m] = Given[m] \cup {named}
    BY <2>1, <2>3 DEF Given
  <2>5. \A n \in Messages \ {m} : Given'[n] = Given[n]
    BY <2>3 DEF Given
  <2>6. /\ Given = [n \in Messages |-> Given[n]]
        /\ Given' = [n \in Messages |-> Given'[n]]
    BY DEF Given
  <2>. QED  BY <2>4, <2>5, <2>6
<1>5. Wrote[Promised!Original(m)] # {}
  BY <1>1, IdFacts DEF Wrote, Id, Kinds, Promised!Original
<1>6. Promised!Give(m, named)
  BY <1>1, <1>2, <1>4, <1>5 DEF Promised!Give, Nobody, Promised!Nobody
<1>. QED  BY <1>2, <1>3, <1>6 DEF MailboxStep, Promised!MailboxNext

LEMMA MoveKeeps ==
    ASSUME IInv, NEW s \in Sessions, Move(s)
    PROVE  ClaimsStay /\ MailboxStep
<1>1. /\ succeeded' = succeeded \/ succeeded' = succeeded \cup {<<s, named>>}
      /\ UNCHANGED <<ghosts, rows, bound, expired, spool, job, deleting, processed, stuck>>
  BY DEF Move, healthVars, ledgerVars, workVars
<1>2. ClaimsStay /\ UNCHANGED <<Wrote, Given, Failed, Released, Bodies>>
  BY <1>1, LedgerKeeps, MailboxStays
<1>3. CASE succeeded' = succeeded
  BY <1>1, <1>2, <1>3 DEF MailboxStep, Promised!mailboxVars
<1>4. CASE succeeded' = succeeded \cup {<<s, named>>}
  <2>1. Promised!Succeed(s, named)
    BY <1>1, <1>2, <1>4 DEF Promised!Succeed
  <2>2. named \in Sessions
    BY DEF IInv, ActsOK
  <2>. QED  BY <1>2, <2>1, <2>2 DEF MailboxStep, Promised!MailboxNext
<1>. QED  BY <1>1, <1>3, <1>4

\* A body is released by the row that says so, once, while it is there; only then it goes.
LEMMA ExpireKeeps ==
    ASSUME IInv, ClaimsOK, NEW d \in Deleters, Expire(d)
    PROVE  ClaimsStay /\ MailboxStep
<1>1. /\ deleting[d].stage = "row"
      /\ \/ /\ expired' = expired \cup {deleting[d].file}
            /\ deleting' = [deleting EXCEPT ![d].stage = "unlink"]
         \/ deleting' = [deleting EXCEPT ![d] = Idle] /\ expired' = expired
      /\ UNCHANGED <<ghosts, rows, bound, processed, stuck, spool, succeeded, job>>
  BY DEF Expire, healthVars, aliasVars
<1>2. deleting \in [Deleters -> Deletions] /\ deleting[d].file \in Referenced
      /\ deleting[d].file \in spool \cup expired
  BY <1>1 DEF IInv, DeletersOK, ClaimsOK
<1>3. /\ SameBodies
      /\ \A v \in Writers : Holding(v)' => Holding(v) /\ job'[v].id = job[v].id
      /\ \A i \in Ids : Accepted(i)' <=> Accepted(i)
      /\ \A i \in Ids : Row(i)' = Row(i)
  BY <1>1 DEF SameBodies, Holding, Accepted, Row
<1>4. \A x \in Deleters : deleting'[x].stage = "row" => deleting'[x] = deleting[x]
  <2>. DEFINE e == [deleting[d] EXCEPT !.stage = "unlink"]
  <2>1. deleting[d] \in [stage : {"row", "unlink"}, file : Files]
    BY <1>1, <1>2, IdleFacts DEF Deletions
  <2>2. e.stage = "unlink"
    BY <2>1
  <2>3. deleting' = [deleting EXCEPT ![d] = e] \/ deleting' = [deleting EXCEPT ![d] = Idle]
    BY <1>1, <1>2
  <2>. HIDE DEF e
  <2>. QED  BY <1>2, <2>2, <2>3, IdleFacts
<1>5. ClaimsStay
  BY <1>1, <1>3, <1>4 DEF ClaimsStay
<1>6. UNCHANGED <<Wrote, Given, Failed, Bodies, succeeded, processed, stuck>>
  BY <1>1, <1>3, MailboxStays
<1>7. CASE expired' = expired
  <2>1. Released' = Released
    BY <1>1, <1>7, MailboxStays
  <2>. QED  BY <1>5, <1>6, <2>1 DEF MailboxStep, Promised!mailboxVars
<1>8. CASE deleting[d].file \in spool /\ expired' = expired \cup {deleting[d].file}
  <2>1. PICK i \in Ids : Accepted(i) /\ deleting[d].file = Row(i).file
    BY <1>2, RowFacts DEF IInv
  <2>2. \A j \in Ids : Accepted(j) /\ Row(j).file = deleting[d].file => j = i
    BY <2>1 DEF IInv, OneBodyPerPost
  <2>3. i \in Bodies /\ Released' = Released \cup {i}
    BY <1>3, <1>8, <2>1, <2>2 DEF Bodies, Released
  <2>4. i \in Promised!Letters
    BY DEF Ids, Kinds, Promised!Letters, Promised!Kinds
  <2>5. Promised!Release(i)
    BY <1>6, <2>3 DEF Promised!Release
  <2>. QED  BY <1>5, <2>4, <2>5 DEF MailboxStep, Promised!MailboxNext
<1>. QED  BY <1>1, <1>2, <1>7, <1>8

LEMMA UnlinkKeeps ==
    ASSUME IInv, NEW d \in Deleters, Unlink(d)
    PROVE  ClaimsStay /\ MailboxStep
<1>1. /\ deleting[d].stage = "unlink"
      /\ spool' = spool \ {deleting[d].file} \/ spool' = spool
      /\ deleting' = [deleting EXCEPT ![d] = Idle]
      /\ UNCHANGED <<ghosts, rows, bound, processed, stuck, expired, succeeded, job>>
  BY DEF Unlink, healthVars, ledgerVars, aliasVars
<1>2. deleting \in [Deleters -> Deletions] /\ deleting[d].file \in Referenced \cap expired
  BY <1>1 DEF IInv, DeletersOK
<1>3. /\ \A v \in Writers : Holding(v)' => Holding(v) /\ job'[v].id = job[v].id
      /\ \A i \in Ids : Accepted(i)' <=> Accepted(i)
      /\ \A i \in Ids : Row(i)' = Row(i)
  BY <1>1 DEF Holding, Accepted, Row
<1>4. \A x \in Deleters : deleting'[x].stage = "row" => deleting'[x] = deleting[x]
  BY <1>1, <1>2, IdleFacts
<1>5. ClaimsStay
  BY <1>1, <1>2, <1>3, <1>4 DEF ClaimsStay
<1>6. UNCHANGED <<Wrote, Given, Failed, Released, succeeded, processed, stuck>>
  BY <1>1, MailboxStays
<1>7. PICK i \in Ids : Accepted(i) /\ deleting[d].file = Row(i).file
  BY <1>2, RowFacts DEF IInv
<1>8. \A j \in Ids : Accepted(j) /\ Row(j).file = deleting[d].file => j = i
  BY <1>7 DEF IInv, OneBodyPerPost
<1>9. CASE spool' = spool
  <2>1. Bodies' = Bodies
    BY <1>1, <1>3, <1>9 DEF Bodies
  <2>. QED  BY <1>5, <1>6, <2>1 DEF MailboxStep, Promised!mailboxVars
<1>10. CASE spool' = spool \ {deleting[d].file}
  <2>1. i \in Released /\ Bodies' = Bodies \ {i}
    BY <1>2, <1>3, <1>7, <1>8, <1>10 DEF Bodies, Released
  <2>2. i \in Promised!Letters
    BY DEF Ids, Kinds, Promised!Letters, Promised!Kinds
  <2>3. Promised!Remove(i)
    BY <1>6, <2>1 DEF Promised!Remove
  <2>. QED  BY <1>5, <2>2, <2>3 DEF MailboxStep, Promised!MailboxNext
<1>. QED  BY <1>1, <1>9, <1>10

\* A start reads at most one row that was taken for lost; its letter is written then.
LEMMA RestartKeeps ==
    ASSUME IInv, IInv', ClaimsOK, Restart
    PROVE  ClaimsStay /\ MailboxStep
<1>1. /\ rows' = [i \in Ids |-> IF Missed(i) = {} THEN rows[i] ELSE Append(rows[i], Read(i))]
      /\ bound' = [m \in Messages |-> IF Missed(Id(m, "mail")) = {} THEN bound[m]
                                     ELSE <<Read(Id(m, "mail")).who>>]
      /\ spool' = spool \cap Referenced'
      /\ UNCHANGED <<ghosts, processed, stuck, expired, succeeded, job, deleting>>
  BY DEF Restart, Missed, Read, aliasVars, workVars
<1>2. \A i \in Ids : Accepted(i) => Missed(i) = {} /\ rows'[i] = rows[i]
  BY <1>1, MissedFacts
<1>3. \A i \in Ids : Accepted(i) => Accepted(i)' /\ Row(i)' = Row(i)
  BY <1>2 DEF Accepted, Row
<1>4. Referenced \subseteq Referenced'
  <2>1. ASSUME NEW f \in Referenced PROVE f \in Referenced'
    <3>1. PICK i \in Ids : Accepted(i) /\ f = Row(i).file
      BY RowFacts DEF IInv
    <3>2. Accepted(i)' /\ f = Row(i)'.file
      BY <1>3, <3>1
    <3>3. rows'[i] = rows[i] /\ rows[i] = <<Row(i)>>
      BY <1>2, <3>1, RowFacts DEF IInv
    <3>4. 1 \in DOMAIN rows'[i] /\ rows'[i][1].file = f
      BY <3>1, <3>3
    <3>. QED  BY <3>4 DEF Referenced, Rows
  <2>. QED  BY <2>1
<1>5. SameBodies
  BY <1>1, <1>4 DEF SameBodies
<1>6. ClaimsStay
  BY <1>1, <1>3, <1>5 DEF ClaimsStay, SameBodies, Holding
<1>7. CASE \A i \in Ids : Missed(i) = {}
  <2>1. rows \in [Ids -> {<<>>} \cup {<<r>> : r \in PostRows}] /\ bound \in [Messages -> Seq(Sessions)]
    BY DEF IInv, RowsOK, BoundOK
  <2>2. \A m \in Messages : Id(m, "mail") \in Ids
    BY IdFacts DEF Kinds
  <2>3. rows' = rows /\ bound' = bound
    BY <1>1, <1>7, <2>1, <2>2
  <2>. QED  BY <1>1, <1>5, <1>6, <2>3, UnmovedStutters DEF Unmoved
<1>8. CASE \E i \in Ids : Missed(i) # {}
  <2>1. PICK i \in Ids : Missed(i) # {}
    BY <1>8
  <2>2. /\ rows[i] = <<>> /\ ~Accepted(i) /\ Read(i) \in PostRows
        /\ Read(i).file.id = i /\ Read(i).file \in Ghostly
        /\ i.kind = "mail" => Read(i).who \in Sessions
        /\ i.kind = "reply" => Tied(i.for, Read(i).who)
        /\ \A h \in ghosts : h.file \notin Referenced => h.file = Read(i).file
    BY <2>1, MissedFacts
  <2>3. PICK g \in ghosts : g.id = i /\ g.file \notin Referenced
    BY <2>1 DEF Missed
  <2>4. Grounded(i) /\ i \in Failed /\ Read(i).file \notin Referenced
    BY <2>2, <2>3 DEF ClaimsOK, Failed
  <2>5. ASSUME NEW j \in Ids \ {i} PROVE Missed(j) = {} /\ rows'[j] = rows[j]
    <3>1. \A h \in Missed(j) : h.file = Read(i).file /\ h.file.id = j
      BY <2>2 DEF Missed, IInv, GhostsOK, EntryOK
    <3>2. Missed(j) = {}
      BY <2>2, <3>1
    <3>. QED  BY <1>1, <3>2
  <2>6. rows'[i] = <<Read(i)>>
    <3>1. rows'[i] = Append(rows[i], Read(i))
      BY <1>1, <2>1
    <3>. QED  BY <2>2, <3>1
  <2>7. ASSUME NEW m \in Messages
        PROVE  bound'[m] = IF Id(m, "mail") = i THEN <<Read(i).who>> ELSE bound[m]
    <3>1. Id(m, "mail") \in Ids
      BY IdFacts DEF Kinds
    <3>2. CASE Id(m, "mail") = i
      BY <1>1, <2>1, <3>2
    <3>3. CASE Id(m, "mail") # i
      BY <1>1, <2>5, <3>1, <3>3
    <3>. QED  BY <3>2, <3>3
  <2>8. PICK r \in PostRows : r = Read(i)
    BY <2>2
  <2>9. /\ r.file \notin Referenced /\ rows'[i] = <<r>>
        /\ i.kind = "mail" => r.who \in Sessions
        /\ i.kind = "reply" => Tied(i.for, r.who)
        /\ \A m \in Messages : bound'[m] = IF Id(m, "mail") = i THEN <<r.who>> ELSE bound[m]
    BY <2>2, <2>4, <2>6, <2>7, <2>8
  <2>10. \A j \in Ids \ {i} : rows'[j] = rows[j]
    BY <2>5
  <2>11. ~Accepted(i) /\ Grounded(i) /\ i \in Failed
    BY <2>2, <2>4
  <2>12. UNCHANGED <<succeeded, processed, stuck, ghosts, expired>>
    BY <1>1
  <2>13. MailboxStep
    BY <1>5, <2>9, <2>10, <2>11, <2>12, RowIsLetter
  <2>. QED  BY <1>6, <2>13
<1>. QED  BY <1>7, <1>8
-----------------------------------------------------------------------------
LEMMA NextKeeps ==
    ASSUME IInv, IInv', ClaimsOK, [Next]_vars
    PROVE  ClaimsStay /\ MailboxStep
<1>1. CASE \E m \in Messages : \/ \E w \in Callers : Reply(w, m) \/ Post(w, m)
                               \/ \E k \in {"undelivered", "unanswered"} : Receipt(m, k)
  BY <1>1, WritingKeeps
<1>2. CASE \E w \in Writers : WriterStep(w)
  BY <1>2, PublishKeeps, AppendKeeps, FailureKeeps, DiscardKeeps DEF WriterStep
<1>3. CASE \/ \E m \in Messages : Acknowledge(m)
           \/ \E i \in Ids : Handle(i)
           \/ Sweep \/ Crash \/ UNCHANGED vars
  BY <1>3, RestKeeps
<1>4. CASE \E m \in Messages : Outcome(m) \/ Relink(m) \/ \E s \in Sessions : Process(m, s)
  BY <1>4, OutcomeKeeps, RelinkKeeps, ProcessKeeps
<1>5. CASE \E s \in Sessions : Move(s)
  BY <1>5, MoveKeeps
<1>6. CASE \E d \in Deleters : Expire(d) \/ Unlink(d) \/ \E i \in Ids : Delete(d, i)
  BY <1>6, ExpireKeeps, UnlinkKeeps, DeleteKeeps
<1>7. CASE Restart
  BY <1>7, RestartKeeps
<1>. QED  BY <1>1, <1>2, <1>3, <1>4, <1>5, <1>6, <1>7 DEF Next, ReceiptStep

LEMMA MailboxBegins == ASSUME Init PROVE Promised!MailboxInit /\ ClaimsOK
<1>1. /\ ghosts = {} /\ rows = [i \in Ids |-> <<>>] /\ bound = [m \in Messages |-> <<>>]
      /\ processed = [m \in Messages |-> Nobody] /\ stuck = [m \in Messages |-> FALSE]
      /\ expired = {} /\ spool = {} /\ succeeded = {}
      /\ job = [w \in Writers |-> Idle] /\ deleting = [d \in Deleters |-> Idle]
  BY DEF Init
<1>2. Ids = Promised!Letters /\ \A i \in Ids : ~Accepted(i)
  BY <1>1 DEF Accepted, Ids, Kinds, Promised!Letters, Promised!Kinds
<1>3. Wrote = [i \in Promised!Letters |-> {}] /\ Released = {} /\ Bodies = {} /\ Failed = {}
  BY <1>1, <1>2 DEF Wrote, Released, Bodies, Failed
<1>4. Given = [m \in Messages |-> {}]
  BY <1>1 DEF Given
<1>5. Promised!MailboxInit
  BY <1>1, <1>3, <1>4 DEF Promised!MailboxInit, Nobody, Promised!Nobody
<1>6. ClaimsOK
  BY <1>1, IdleFacts DEF ClaimsOK, Holding
<1>. QED  BY <1>5, <1>6

\* Whatever races, fails, is read again, deleted or swept, to the sessions that use it the
\* mail is a Mailbox: a letter is written once and on its grounds, whoever answers or
\* processes a message is entitled to it at that very step, and bodies stay until released.
THEOREM MailImplementsMailbox == Spec => ImplementsMailbox
<1>1. Init => Promised!MailboxInit /\ ClaimsOK
  BY MailboxBegins
<1>2. IInv /\ IInv' /\ ClaimsOK /\ [Next]_vars => ClaimsOK'
  BY NextKeeps, ClaimsInv
<1>3. IInv /\ IInv' /\ ClaimsOK /\ [Next]_vars => [Promised!MailboxNext]_(Promised!mailboxVars)
  BY NextKeeps DEF MailboxStep
<1>. QED  BY <1>1, <1>2, <1>3, Invariance, PTL
          DEF Spec, ImplementsMailbox, Promised!MailboxSpec
=============================================================================
