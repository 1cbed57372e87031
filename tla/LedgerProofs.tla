---------------------------- MODULE LedgerProofs ----------------------------
(***************************************************************************)
(* Proofs about Ledger for any set of callers and keys and any bounds: the *)
(* type invariant, the three safety invariants, and that every step is a   *)
(* step of EventLog or leaves its variables alone.                         *)
(***************************************************************************)
EXTENDS Ledger, SequenceTheorems, TLAPS

\* Only an operation of a running store is past "idle", and it has a request.
CallsOK ==
    \A c \in Callers : stage[c] # "idle" => up = "up" /\ call[c] \in Call

\* Memory is the front of the file; short of it only while a line waits for
\* its sync or the store is poisoned, and a torn end means poisoned.
MemOK ==
    up = "up" =>
        /\ Len(mem) <= Len(disk)
        /\ \A i \in 1..Len(mem) : mem[i] = disk[i]
        /\ \A r \in told : r.seq <= Len(mem)
        /\ ~poisoned => ~torn
        /\ ~poisoned /\ (\A c \in Callers : stage[c] # "written") => Len(mem) = Len(disk)

\* Whoever has the file open is the head of the chain, with a row that is
\* still the next one and still has no prior.
WriterOK ==
    \A c \in Callers : stage[c] \in {"opened", "written"} =>
        /\ Turn(c) /\ ~poisoned /\ line[c] = Event(c) /\ ~Prior(c)
        /\ stage[c] = "written" => Len(disk) = Len(mem) + 1 /\ disk[Len(disk)] = line[c]

IInv == TypeOK /\ CallsOK /\ MemOK /\ WriterOK
            /\ ToldSurvives /\ OneReservation /\ OnlySizeRefuses
-----------------------------------------------------------------------------
\* What settling a call leaves behind: the variables keep their types, the
\* caller is idle, and nobody else has moved.
LEMMA SettleLeaves ==
    ASSUME TypeOK, NEW c \in Callers, NEW result \in Answers, chain # <<>>,
           Settle(c, result)
    PROVE  /\ chain' \in Seq(Callers)
           /\ call' \in [Callers -> Call \cup {None}]
           /\ stage' \in [Callers -> {"idle", "queued", "opened", "written"}]
           /\ line' \in [Callers -> Row \cup {None}]
           /\ answer' \in [Callers -> Answers]
           /\ \A d \in Callers : LineOK(d)'
           /\ stage'[c] = "idle"
           /\ \A d \in Callers \ {c} :
                stage'[d] = stage[d] /\ call'[d] = call[d] /\ line'[d] = line[d]
<1>1. chain' \in Seq(Callers)
  BY HeadTailProperties DEF TypeOK, Settle
<1>2. /\ call' \in [Callers -> Call \cup {None}]
      /\ stage' \in [Callers -> {"idle", "queued", "opened", "written"}]
      /\ line' \in [Callers -> Row \cup {None}]
      /\ answer' \in [Callers -> Answers]
  BY DEF TypeOK, Settle
<1>3. /\ stage'[c] = "idle" /\ line'[c] = None
      /\ \A d \in Callers \ {c} :
            stage'[d] = stage[d] /\ call'[d] = call[d] /\ line'[d] = line[d]
  BY DEF TypeOK, Settle
<1>4. \A d \in Callers : LineOK(d)'
  BY <1>3 DEF TypeOK, LineOK
<1>. QED  BY <1>1, <1>2, <1>3, <1>4

\* A caller that has the file open is alone: every other caller is idle or
\* still queued.
LEMMA OneWriter ==
    ASSUME WriterOK, NEW c \in Callers, NEW d \in Callers,
           stage[c] \in {"opened", "written"}, stage[d] \in {"opened", "written"}
    PROVE  c = d
BY DEF WriterOK, Turn

\* The steps that settle a call without touching the file or memory.
LEMMA QuietSettleInv ==
    ASSUME IInv, NEW c \in Callers, NEW result \in Answers,
           Turn(c), stage[c] = "queued", Settle(c, result),
           UNCHANGED <<up, fileVars, mem, poisoned, due, told, crashes>>
    PROVE  IInv'
<1>. USE DEF IInv, fileVars
<1>1. TypeOK'
  BY SettleLeaves DEF TypeOK, Turn
<1>2. CallsOK'
  BY SettleLeaves DEF CallsOK, Turn
<1>3. MemOK'
  BY SettleLeaves DEF MemOK, Turn, TypeOK
<1>4. WriterOK'
  <2>1. \A d \in Callers : stage'[d] \notin {"opened", "written"}
    BY SettleLeaves DEF WriterOK, Turn, TypeOK
  <2>. QED  BY <2>1 DEF WriterOK
<1>5. ToldSurvives' /\ OneReservation' /\ OnlySizeRefuses'
  BY DEF ToldSurvives, OneReservation, OnlySizeRefuses, Numbered, TooLarge
<1>. QED  BY <1>1, <1>2, <1>3, <1>4, <1>5

LEMMA InitInv == Init => IInv
<1>. SUFFICES ASSUME Init PROVE IInv
  OBVIOUS
<1>. USE DEF Init
<1>1. disk = <<>> /\ mem = <<>> /\ Len(disk) = 0 /\ told = {}
  OBVIOUS
<1>2. TypeOK
  <2>1. <<>> \in Seq(Row) /\ <<>> \in Seq(Callers)
    OBVIOUS
  <2>2. /\ call \in [Callers -> Call \cup {None}]
        /\ stage \in [Callers -> {"idle", "queued", "opened", "written"}]
        /\ line \in [Callers -> Row \cup {None}]
        /\ answer \in [Callers -> Answers]
        /\ \A c \in Callers : LineOK(c)
    BY DEF LineOK, Answers
  <2>3. up \in {"down", "up", "refused"} /\ torn \in BOOLEAN /\ poisoned \in BOOLEAN
    OBVIOUS
  <2>4. synced \in 0..Len(disk) /\ told \in SUBSET Row /\ crashes \in Nat
    BY <1>1
  <2>5. disk \in Seq(Row) /\ mem \in Seq(Row) /\ due \in Seq(Row) /\ chain \in Seq(Callers)
    BY <2>1
  <2>. QED  BY <2>2, <2>3, <2>4, <2>5 DEF TypeOK
<1>3. CallsOK /\ MemOK /\ WriterOK
  BY <1>1 DEF CallsOK, MemOK, WriterOK
<1>4. ToldSurvives /\ OneReservation /\ OnlySizeRefuses
  BY <1>1 DEF ToldSurvives, OneReservation, OnlySizeRefuses, Numbered, TooLarge
<1>. QED  BY <1>2, <1>3, <1>4 DEF IInv

LEMMA StartInv == ASSUME IInv, Start PROVE IInv'
<1>. USE DEF IInv, Start, callVars, fileVars
<1>0. Numbered /\ disk' = disk
  BY DEF OnlySizeRefuses
<1>1. CASE TooLarge
  <2>1. up' = "refused" /\ UNCHANGED <<mem, disk, torn, synced>> /\ TooLarge'
    BY <1>1 DEF TooLarge
  <2>2. \A c \in Callers : stage[c] = "idle"
    BY DEF CallsOK
  <2>3. TypeOK'
    BY <2>1 DEF TypeOK, LineOK
  <2>4. CallsOK' /\ WriterOK' /\ MemOK'
    BY <2>1, <2>2 DEF CallsOK, WriterOK, MemOK
  <2>5. ToldSurvives' /\ OneReservation' /\ OnlySizeRefuses'
    BY <1>0, <2>1 DEF ToldSurvives, OneReservation, OnlySizeRefuses, Numbered
  <2>. QED  BY <2>3, <2>4, <2>5
<1>2. CASE ~TooLarge
  <2>1. up' = "up" /\ mem' = disk /\ torn' = FALSE /\ synced' \in {synced, Len(disk)}
    BY <1>0, <1>2
  <2>2. TypeOK'
    <3>1. synced' \in 0..Len(disk)
      BY <2>1 DEF TypeOK
    <3>2. \A c \in Callers : LineOK(c)'
      BY DEF TypeOK, LineOK
    <3>. QED  BY <1>0, <2>1, <3>1, <3>2 DEF TypeOK
  <2>3. \A c \in Callers : stage[c] = "idle"
    BY DEF CallsOK
  <2>4. CallsOK' /\ WriterOK'
    BY <2>3 DEF CallsOK, WriterOK
  <2>5. ToldSurvives'
    BY <1>0, <2>1 DEF ToldSurvives, TypeOK
  <2>6. MemOK'
    BY <1>0, <2>1, <2>3 DEF MemOK, TypeOK, ToldSurvives
  <2>7. OneReservation' /\ OnlySizeRefuses'
    BY <1>0, <2>1 DEF OneReservation, OnlySizeRefuses, Numbered
  <2>. QED  BY <2>2, <2>4, <2>5, <2>6, <2>7
<1>. QED  BY <1>1, <1>2

LEMMA SubmitInv ==
    ASSUME IInv, NEW c \in Callers, NEW request \in Call, Submit(c, request)
    PROVE  IInv'
<1>. USE DEF IInv, Submit, fileVars
<1>1. chain' \in Seq(Callers) /\ (chain # <<>> => chain' # <<>> /\ Head(chain') = Head(chain))
  BY AppendProperties, HeadTailProperties DEF TypeOK
<1>2. TypeOK'
  BY <1>1 DEF TypeOK, LineOK, Answers
<1>3. CallsOK'
  BY DEF CallsOK, TypeOK
<1>4. stage'[c] = "queued" /\ \A d \in Callers \ {c} : stage'[d] = stage[d] /\ call'[d] = call[d]
  BY DEF TypeOK
<1>5. MemOK'
  BY <1>4 DEF MemOK, TypeOK
<1>6. WriterOK'
  BY <1>1, <1>4 DEF WriterOK, Turn, Event, Prior
<1>7. ToldSurvives' /\ OneReservation' /\ OnlySizeRefuses'
  BY DEF ToldSurvives, OneReservation, OnlySizeRefuses, Numbered, TooLarge
<1>. QED  BY <1>2, <1>3, <1>5, <1>6, <1>7

LEMMA OpenInv == ASSUME IInv, NEW c \in Callers, Open(c) PROVE IInv'
<1>. USE DEF IInv, Open, fileVars
<1>1. call[c] \in Call
  BY DEF CallsOK
<1>2. Event(c) \in Row /\ Event(c).seq > 0
  BY <1>1 DEF Event, Call, Row, TypeOK
<1>3. TypeOK'
  BY <1>2 DEF TypeOK, LineOK
<1>4. CallsOK'
  BY DEF CallsOK, TypeOK
<1>5. \A d \in Callers \ {c} : stage[d] \notin {"opened", "written"}
  BY DEF WriterOK, Turn
<1>6. /\ stage'[c] = "opened" /\ line'[c] = Event(c)
      /\ \A d \in Callers \ {c} : stage'[d] = stage[d]
  BY DEF TypeOK
<1>7. MemOK'
  BY <1>6 DEF MemOK, TypeOK
<1>8. WriterOK'
  BY <1>5, <1>6 DEF WriterOK, Turn, Event, Prior
<1>9. ToldSurvives' /\ OneReservation' /\ OnlySizeRefuses'
  BY DEF ToldSurvives, OneReservation, OnlySizeRefuses, Numbered, TooLarge
<1>. QED  BY <1>3, <1>4, <1>7, <1>8, <1>9

\* The line lands where its number says, behind no torn one, and clashes with
\* no line before it: memory, which the caller searched, is the whole file.
LEMMA LineLands ==
    ASSUME IInv, NEW c \in Callers, WriteLine(c)
    PROVE  /\ disk' = Append(disk, line[c])
           /\ disk' \in Seq(Row) /\ Len(disk') = Len(disk) + 1
           /\ \A i \in 1..Len(disk) : disk'[i] = disk[i] /\ ~Clash(line[c], disk[i])
                                     /\ ~Clash(disk[i], line[c])
           /\ disk'[Len(disk) + 1] = line[c]
           /\ line[c] = Event(c) /\ line[c].seq = Len(disk) + 1
           /\ up = "up" /\ ~poisoned /\ Len(mem) = Len(disk) /\ call[c] \in Call
<1>. USE DEF IInv, WriteLine
<1>1. up = "up" /\ ~poisoned /\ ~torn /\ call[c] \in Call
  BY DEF CallsOK, MemOK, WriterOK
<1>2. line[c] \in Row
  BY DEF TypeOK, LineOK
<1>3. disk' = Append(disk, line[c])
  BY <1>1 DEF Landed
<1>4. \A d \in Callers : stage[d] # "written"
  BY OneWriter DEF WriterOK
<1>5. Len(mem) = Len(disk) /\ \A i \in 1..Len(mem) : mem[i] = disk[i]
  BY <1>1, <1>4 DEF MemOK
<1>6. line[c] = Event(c) /\ ~Prior(c)
  BY DEF WriterOK
<1>7. line[c].seq = Len(disk) + 1 /\ line[c].how = call[c].how /\ line[c].key = call[c].key
  BY <1>5, <1>6 DEF Event
<1>8. \A i \in 1..Len(disk) : ~Clash(line[c], disk[i]) /\ ~Clash(disk[i], line[c])
  BY <1>5, <1>6, <1>7 DEF Prior, Clash
<1>9. /\ disk' \in Seq(Row) /\ Len(disk') = Len(disk) + 1
      /\ disk'[Len(disk) + 1] = line[c]
      /\ \A i \in 1..Len(disk) : disk'[i] = disk[i]
  BY <1>2, <1>3, AppendProperties DEF TypeOK
<1>. QED  BY <1>1, <1>3, <1>5, <1>6, <1>7, <1>8, <1>9

LEMMA WriteLineInv == ASSUME IInv, NEW c \in Callers, WriteLine(c) PROVE IInv'
<1>. USE LineLands DEF IInv, WriteLine
<1>1. TypeOK'
  <2>0. Len(disk) \in Nat /\ synced \in 0..Len(disk) /\ Len(disk') = Len(disk) + 1
    BY DEF TypeOK
  <2>1. synced' \in 0..Len(disk')
    BY <2>0
  <2>2. \A d \in Callers : LineOK(d)'
    BY DEF TypeOK, LineOK
  <2>. QED  BY <2>1, <2>2 DEF TypeOK
<1>2. CallsOK'
  BY DEF CallsOK, TypeOK
<1>3. stage'[c] = "written" /\ \A d \in Callers \ {c} : stage'[d] = stage[d]
  BY DEF TypeOK
<1>4. MemOK'
  <2>1. \A i \in 1..Len(mem) : mem[i] = disk'[i]
    BY DEF MemOK
  <2>. QED  BY <1>3, <2>1 DEF MemOK, TypeOK
<1>5. WriterOK'
  BY ZenonT(60), <1>3, OneWriter DEF WriterOK, Turn, Event, Prior
<1>6. ToldSurvives'
  BY DEF ToldSurvives, TypeOK
<1>7. OneReservation'
  <2>. SUFFICES ASSUME NEW i \in 1..(Len(disk) + 1), NEW j \in 1..(Len(disk) + 1), i # j
                PROVE  ~Clash(disk'[i], disk'[j])
    BY DEF OneReservation, Clash
  <2>0. Len(disk) \in Nat
    BY DEF TypeOK
  <2>1. CASE i \in 1..Len(disk) /\ j \in 1..Len(disk)
    BY <2>1 DEF OneReservation
  <2>2. CASE i = Len(disk) + 1
    <3>1. j \in 1..Len(disk)
      BY <2>0, <2>2
    <3>. QED  BY <2>2, <3>1
  <2>3. CASE j = Len(disk) + 1
    <3>1. i \in 1..Len(disk)
      BY <2>0, <2>3
    <3>. QED  BY <2>3, <3>1
  <2>. QED  BY <2>0, <2>1, <2>2, <2>3
<1>8. OnlySizeRefuses'
  <2>. SUFFICES ASSUME NEW i \in 1..(Len(disk) + 1) PROVE disk'[i].seq = i
    BY DEF OnlySizeRefuses, Numbered
  <2>1. i \in 1..Len(disk) \/ i = Len(disk) + 1
    BY DEF TypeOK
  <2>. QED  BY <2>1 DEF OnlySizeRefuses, Numbered
<1>. QED  BY <1>1, <1>2, <1>4, <1>5, <1>6, <1>7, <1>8

\* The two failures: the store is poisoned, and nobody has the file open.
LEMMA FailureInv ==
    ASSUME IInv, NEW c \in Callers, WriteFails(c) \/ SyncFails(c)
    PROVE  IInv'
<1>. USE DEF IInv, fileVars
<1>0. /\ Settle(c, "failed") /\ poisoned' = TRUE /\ chain # <<>>
      /\ UNCHANGED <<up, disk, mem, due, told, crashes>>
      /\ stage[c] \in {"opened", "written"} /\ "failed" \in Answers
  BY DEF WriteFails, SyncFails, WriterOK, Turn, Answers
<1>1. torn' \in BOOLEAN /\ synced' \in {synced, Len(disk)}
  BY DEF WriteFails, SyncFails, TypeOK
<1>2. TypeOK'
  <2>1. synced' \in 0..Len(disk)
    BY <1>1 DEF TypeOK
  <2>. QED  BY <1>0, <1>1, <2>1, SettleLeaves DEF TypeOK
<1>3. CallsOK'
  BY <1>0, SettleLeaves DEF CallsOK
<1>4. MemOK'
  BY <1>0 DEF MemOK
<1>5. WriterOK'
  <2>1. \A d \in Callers : stage'[d] \notin {"opened", "written"}
    BY <1>0, SettleLeaves, OneWriter
  <2>. QED  BY <2>1 DEF WriterOK
<1>6. ToldSurvives'
  BY <1>0, <1>1 DEF ToldSurvives, TypeOK
<1>7. OneReservation' /\ OnlySizeRefuses'
  BY <1>0 DEF OneReservation, OnlySizeRefuses, Numbered, TooLarge, CallsOK
<1>. QED  BY <1>2, <1>3, <1>4, <1>5, <1>6, <1>7

LEMMA SyncLineInv == ASSUME IInv, NEW c \in Callers, SyncLine(c) PROVE IInv'
<1>. USE DEF IInv, SyncLine
<1>0. /\ stage[c] = "written" /\ chain # <<>> /\ up = "up" /\ ~poisoned /\ ~torn
      /\ line[c] \in Row /\ line[c].seq = Len(mem) + 1
      /\ Len(disk) = Len(mem) + 1 /\ disk[Len(disk)] = line[c]
  BY DEF WriterOK, Turn, Event, CallsOK, MemOK, TypeOK, LineOK
<1>1. Len(mem) \in Nat /\ Len(disk) \in Nat
  BY DEF TypeOK
<1>2. /\ mem' \in Seq(Row) /\ due' \in Seq(Row) /\ Len(mem') = Len(mem) + 1
      /\ mem'[Len(mem) + 1] = line[c]
      /\ \A i \in 1..Len(mem) : mem'[i] = mem[i]
  BY <1>0, AppendProperties DEF TypeOK
<1>3. "created" \in Answers
  BY DEF Answers
<1>4. TypeOK'
  BY <1>0, <1>1, <1>2, <1>3, SettleLeaves DEF TypeOK
<1>5. CallsOK'
  BY <1>0, <1>3, SettleLeaves DEF CallsOK
<1>6. \A d \in Callers : stage'[d] \notin {"opened", "written"}
  BY <1>0, <1>3, SettleLeaves, OneWriter
<1>7. MemOK'
  <2>1. \A i \in 1..Len(mem') : mem'[i] = disk[i]
    <3>1. \A i \in 1..Len(mem) : mem[i] = disk[i]
      BY <1>0 DEF MemOK
    <3>2. ASSUME NEW i \in 1..Len(mem') PROVE mem'[i] = disk[i]
      <4>1. CASE i = Len(mem) + 1
        <5>1. disk[Len(disk)] = line[c] /\ Len(disk) = Len(mem) + 1
          BY <1>0
        <5>2. mem'[i] = line[c] /\ i = Len(disk)
          BY <1>2, <4>1, <5>1
        <5>. QED  BY <5>1, <5>2
      <4>2. CASE i # Len(mem) + 1
        <5>1. i \in 1..Len(mem)
          BY <1>1, <1>2, <3>2, <4>2
        <5>. QED  BY <1>2, <3>1, <5>1
      <4>. QED  BY <4>1, <4>2
    <3>. QED  BY <3>2
  <2>2. \A r \in told' : r.seq <= Len(mem')
    BY <1>0, <1>1, <1>2 DEF MemOK, ToldSurvives, TypeOK
  <2>. QED  BY <1>0, <1>1, <1>2, <2>1, <2>2 DEF MemOK
<1>8. WriterOK'
  BY <1>6 DEF WriterOK
<1>9. ToldSurvives'
  BY <1>0, <1>1 DEF ToldSurvives, TypeOK
<1>10. OneReservation' /\ OnlySizeRefuses'
  BY <1>0 DEF OneReservation, OnlySizeRefuses, Numbered, TooLarge, CallsOK
<1>. QED  BY <1>4, <1>5, <1>7, <1>8, <1>9, <1>10

LEMMA RunHookInv == ASSUME IInv, RunHook PROVE IInv'
<1>. USE DEF IInv, RunHook, callVars, fileVars
<1>1. TypeOK'
  BY HeadTailProperties DEF TypeOK, LineOK
<1>2. CallsOK' /\ MemOK' /\ WriterOK'
  BY DEF CallsOK, MemOK, WriterOK, Turn, Event, Prior
<1>3. ToldSurvives' /\ OneReservation' /\ OnlySizeRefuses'
  BY DEF ToldSurvives, OneReservation, OnlySizeRefuses, Numbered, TooLarge
<1>. QED  BY <1>1, <1>2, <1>3

\* The end of a process: the file keeps at least its synced lines, memory and
\* calls are forgotten.
LEMMA ForgetInv ==
    ASSUME IInv, Forget, NEW n \in synced..Len(disk), disk' = SubSeq(disk, 1, n),
           synced' \in synced..n, torn' \in BOOLEAN, crashes' \in Nat
    PROVE  IInv'
<1>. USE DEF IInv, Forget
<1>0. /\ disk' \in Seq(Row) /\ Len(disk') = n /\ n \in Nat
      /\ \A i \in 1..n : disk'[i] = disk[i]
  BY SubSeqProperties DEF TypeOK
<1>1. TypeOK'
  <2>1. /\ call' \in [Callers -> Call \cup {None}]
        /\ stage' \in [Callers -> {"idle", "queued", "opened", "written"}]
        /\ line' \in [Callers -> Row \cup {None}]
        /\ \A c \in Callers : LineOK(c)'
    BY DEF LineOK
  <2>2. answer' \in [Callers -> Answers]
    BY DEF TypeOK, Answers
  <2>3. /\ mem' \in Seq(Row) /\ due' \in Seq(Row) /\ chain' \in Seq(Callers)
        /\ up' \in {"down", "up", "refused"} /\ poisoned' \in BOOLEAN
    BY EmptySeq
  <2>4. synced' \in 0..Len(disk') /\ told' \in SUBSET Row
    BY <1>0 DEF TypeOK
  <2>. QED  BY <1>0, <2>1, <2>2, <2>3, <2>4 DEF TypeOK
<1>2. CallsOK' /\ MemOK' /\ WriterOK'
  BY DEF CallsOK, MemOK, WriterOK
<1>3. ToldSurvives'
  BY <1>0 DEF ToldSurvives, TypeOK
<1>4. OneReservation' /\ OnlySizeRefuses'
  <2>1. \A i \in 1..n : i \in 1..Len(disk)
    BY <1>0 DEF TypeOK
  <2>. QED  BY <1>0, <2>1 DEF OneReservation, OnlySizeRefuses, Numbered, Clash
<1>. QED  BY <1>1, <1>2, <1>3, <1>4

LEMMA EndInv == ASSUME IInv, Stop \/ Crash \/ PowerLoss PROVE IInv'
<1>0. disk \in Seq(Row) /\ Len(disk) \in Nat /\ synced \in 0..Len(disk) /\ crashes \in Nat
  BY DEF IInv, TypeOK
<1>1. SubSeq(disk, 1, Len(disk)) = disk
  BY <1>0, SubSeqFull
<1>2. CASE Stop \/ Crash
  <2>1. Forget /\ disk' = disk /\ synced' = synced
    BY <1>2 DEF Stop, Crash, fileVars
  <2>2. torn' \in BOOLEAN
    BY <1>2 DEF Stop, Crash, fileVars, IInv, TypeOK
  <2>3. crashes' \in Nat
    <3>1. crashes' = crashes \/ crashes' = crashes + 1
      BY <1>2, Zenon DEF Stop, Crash
    <3>. QED  BY <1>0, <3>1
  <2>4. Len(disk) \in synced..Len(disk) /\ synced' \in synced..Len(disk)
    BY <1>0, <2>1
  <2>5. disk' = SubSeq(disk, 1, Len(disk))
    BY <1>1, <2>1
  <2>. QED  BY <2>1, <2>2, <2>3, <2>4, <2>5, ForgetInv
<1>4. CASE PowerLoss
  <2>1. PICK n \in synced..Len(disk) :
            /\ disk' = SubSeq(disk, 1, n) /\ synced' = n
            /\ torn' \in {FALSE, torn \/ n < Len(disk) \/ \E c \in Callers : stage[c] = "opened"}
    BY <1>4 DEF PowerLoss
  <2>2. torn' \in BOOLEAN
    BY <2>1 DEF IInv, TypeOK
  <2>3. synced' \in synced..n /\ crashes' \in Nat
    BY <1>0, <1>4, <2>1 DEF PowerLoss
  <2>. QED  BY <1>4, <2>1, <2>2, <2>3, ForgetInv DEF PowerLoss
<1>. QED  BY <1>2, <1>4

LEMMA NextInv == ASSUME IInv, [Next]_vars PROVE IInv'
<1>1. CASE Start
  BY <1>1, StartInv
<1>2. CASE RunHook
  BY <1>2, RunHookInv
<1>3. CASE Stop \/ Crash \/ PowerLoss
  BY <1>3, EndInv
<1>4. ASSUME NEW c \in Callers, Step(c) PROVE IInv'
  <2>1. CASE FailPoisoned(c)
    BY <2>1, QuietSettleInv DEF FailPoisoned, Answers
  <2>2. CASE FindPrior(c)
    <3>1. (IF call[c].how = "reserve" THEN "prior" ELSE "refused") \in Answers
      BY DEF Answers
    <3>. QED  BY <2>2, <3>1, QuietSettleInv DEF FindPrior
  <2>3. CASE Oversize(c)
    BY <2>3, QuietSettleInv DEF Oversize, Answers
  <2>4. CASE Open(c)
    BY <2>4, OpenInv
  <2>5. CASE WriteLine(c)
    BY <2>5, WriteLineInv
  <2>6. CASE WriteFails(c) \/ SyncFails(c)
    BY <2>6, FailureInv
  <2>7. CASE SyncLine(c)
    BY <2>7, SyncLineInv
  <2>. QED  BY <1>4, <2>1, <2>2, <2>3, <2>4, <2>5, <2>6, <2>7 DEF Step
<1>5. ASSUME NEW c \in Callers, NEW request \in Call, Submit(c, request) PROVE IInv'
  BY <1>5, SubmitInv
<1>6. CASE UNCHANGED vars
  BY <1>6 DEF vars, fileVars, callVars, IInv, TypeOK, LineOK, CallsOK, MemOK, WriterOK,
              Turn, Event, Prior, ToldSurvives, OneReservation, OnlySizeRefuses,
              Numbered, TooLarge
<1>. QED  BY <1>1, <1>2, <1>3, <1>4, <1>5, <1>6 DEF Next

\* The inductive invariant holds in every reachable state.
THEOREM Invariance == Spec => []IInv
BY InitInv, NextInv, PTL DEF Spec

\* Type correctness of the store for any number of callers and rows.
THEOREM LedgerTypeOK == Spec => []TypeOK
<1>1. IInv => TypeOK
  BY DEF IInv
<1>. QED  BY <1>1, Invariance, PTL

\* A row a caller was told is written is in the file for good.
THEOREM ToldRowsSurvive == Spec => []ToldSurvives
<1>1. IInv => ToldSurvives
  BY DEF IInv
<1>. QED  BY <1>1, Invariance, PTL

\* The file never holds two guarded rows of one kind.
THEOREM ReservationsAreUnique == Spec => []OneReservation
<1>1. IInv => OneReservation
  BY DEF IInv
<1>. QED  BY <1>1, Invariance, PTL

\* Whatever failed, crashed or lost power before, init() refuses the file of
\* the store for its size or not at all.
THEOREM OnlySizeStopsAStart == Spec => []OnlySizeRefuses
<1>1. IInv => OnlySizeRefuses
  BY DEF IInv
<1>. QED  BY <1>1, Invariance, PTL
-----------------------------------------------------------------------------
(***************************************************************************)
(* The refinement: a written line is Grow, a synced one Promise, the cut   *)
(* of a torn end (or a sync that failed late) Secure, a power loss Lose.   *)
(***************************************************************************)

LEMMA WriteLineGrows ==
    ASSUME IInv, NEW c \in Callers, WriteLine(c)
    PROVE  Promised!Grow(call[c].how, call[c].key)
<1>1. line[c] = [seq |-> Len(disk) + 1, how |-> call[c].how, key |-> call[c].key]
  BY LineLands DEF Event
<1>2. Promised!Fresh(line[c], disk)
  BY LineLands DEF Promised!Fresh, Promised!Clash, Promised!Guarded, Clash, Guarded
<1>3. disk' = Append(disk, line[c]) /\ UNCHANGED <<synced, told>>
  BY LineLands DEF WriteLine
<1>. QED  BY <1>1, <1>2, <1>3 DEF Promised!Grow

LEMMA SyncLinePromises ==
    ASSUME IInv, NEW c \in Callers, SyncLine(c)
    PROVE  Promised!Promise
<1>1. /\ Len(disk) = Len(mem) + 1 /\ disk[Len(disk)] = line[c]
      /\ line[c].seq = Len(mem) + 1 /\ Len(mem) \in Nat /\ up = "up"
  BY DEF SyncLine, IInv, WriterOK, Event, CallsOK, TypeOK
<1>2. line[c] \notin told
  BY <1>1 DEF IInv, MemOK
<1>3. disk # <<>>
  BY <1>1
<1>. QED  BY <1>1, <1>2, <1>3 DEF SyncLine, Promised!Promise

LEMMA StepRefines ==
    ASSUME IInv, [Next]_vars
    PROVE  [Promised!LogNext]_<<disk, synced, told>>
<1>. USE DEF fileVars
<1>1. CASE Start
  <2>1. disk' = disk /\ told' = told /\ synced' \in {synced, Len(disk)}
    BY <1>1 DEF Start, IInv, OnlySizeRefuses, fileVars
  <2>. QED  BY <2>1 DEF Promised!LogNext, Promised!Secure
<1>2. CASE RunHook \/ Stop \/ Crash
  BY <1>2 DEF RunHook, Stop, Crash, Forget
<1>3. CASE PowerLoss
  BY <1>3 DEF PowerLoss, Forget, Promised!LogNext, Promised!Lose
<1>4. ASSUME NEW c \in Callers, Step(c) PROVE [Promised!LogNext]_<<disk, synced, told>>
  <2>1. CASE FailPoisoned(c) \/ FindPrior(c) \/ Oversize(c) \/ Open(c)
    BY <2>1 DEF FailPoisoned, FindPrior, Oversize, Open
  <2>2. CASE WriteLine(c)
    <3>1. call[c].how \in {"append"} \cup Promised!Guarded /\ call[c].key \in Keys
      BY <2>2, LineLands DEF Call, Guarded, Promised!Guarded
    <3>. QED  BY <2>2, <3>1, WriteLineGrows DEF Promised!LogNext
  <2>3. CASE WriteFails(c) \/ SyncFails(c)
    BY <2>3 DEF WriteFails, SyncFails, Promised!LogNext, Promised!Secure
  <2>4. CASE SyncLine(c)
    BY <2>4, SyncLinePromises DEF Promised!LogNext
  <2>. QED  BY <1>4, <2>1, <2>2, <2>3, <2>4 DEF Step
<1>5. ASSUME NEW c \in Callers, NEW request \in Call, Submit(c, request)
      PROVE  UNCHANGED <<disk, synced, told>>
  BY <1>5 DEF Submit
<1>6. CASE UNCHANGED vars
  BY <1>6 DEF vars
<1>. QED  BY <1>1, <1>2, <1>3, <1>4, <1>5, <1>6 DEF Next

\* The chain, the file and all their failures implement the log of EventLog.
THEOREM LedgerImplementsEventLog == Spec => ImplementsEventLog
<1>1. Init => Promised!LogInit
  BY DEF Init, Promised!LogInit
<1>2. IInv /\ [Next]_vars => [Promised!LogNext]_<<disk, synced, told>>
  BY StepRefines
<1>. QED  BY <1>1, <1>2, Invariance, PTL
          DEF Spec, ImplementsEventLog, Promised!LogSpec, Promised!logVars
=============================================================================
