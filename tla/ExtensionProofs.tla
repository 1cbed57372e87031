--------------------------- MODULE ExtensionProofs ---------------------------
(***************************************************************************)
(* Proofs about the two extensions.  First CodeReview, for any requests,   *)
(* receipts and bounds: its type invariant, its two safety invariants and  *)
(* that it implements Delivery.  Then Milestone, for any completions,      *)
(* attempts and bounds: its type invariant, that each acknowledgement is   *)
(* accounted for, and that it implements Delivery.  The two are separate   *)
(* specifications of the variables they share.  That evidence is credited  *)
(* in the end stays with TLC.                                              *)
(***************************************************************************)
EXTENDS CodeReview, Milestone, SequenceTheorems, TLAPS

\* Where the running operation stands: past its judgement it is a request
\* with a round; past its reservation the row of PeerCore is its own, for the
\* process it resolved, and nothing is written under it.
StepOK ==
    at # "judge" =>
        /\ chain # <<>> /\ Head(chain).kind = "request" /\ RoundOf(It) # {}
        /\ at # "send" => to \in 1..MaxLive
        /\ at \in {"note", "write"} =>
               core[It] = [by |-> "review", to |-> to] /\ wire[It] = <<>>
        /\ at = "write" => It \in own

\* A receipt that counted answers a send of the extension, whose row in
\* PeerCore nobody can replace.
AnswersOwn == \A n \in DOMAIN receipts : core[receipts[n].request].by = "review"

\* Each request and each receipt id counts once, for the process that the
\* request is reserved for and the artifact of its round.
ReceiptsBound ==
    /\ \A m, n \in DOMAIN receipts :
           receipts[m].request = receipts[n].request \/ receipts[m].id = receipts[n].id => m = n
    /\ \A n \in DOMAIN receipts :
           /\ receipts[n].by = core[receipts[n].request].to
           /\ \E k \in RoundOf(receipts[n].request) : rounds[k].artifact = receipts[n].artifact

IInv == TypeOK /\ StepOK /\ AnswersOwn /\ ReceiptsBound /\ RequestSentOnce
-----------------------------------------------------------------------------
\* The operation that runs is one of the extension's, of the kind it names.
LEMMA HeadIsOp ==
    ASSUME TypeOK, chain # <<>>
    PROVE  /\ Head(chain) \in Ops /\ It \in Requests /\ Head(chain).artifact \in Artifacts
           /\ Head(chain).kind = "receipt" =>
                /\ Head(chain).id \in Receipts /\ Head(chain).verdict \in Verdicts
                /\ Head(chain).by \in 1..MaxLive
           /\ Tail(chain) \in Seq(Ops)
<1>1. Head(chain) \in Ops /\ Tail(chain) \in Seq(Ops)
  BY HeadTailProperties DEF TypeOK
<1>2. It \in Requests /\ Head(chain).artifact \in Artifacts
  BY <1>1 DEF Ops, It
<1>3. Head(chain).kind = "receipt" =>
        /\ Head(chain).id \in Receipts /\ Head(chain).verdict \in Verdicts
        /\ Head(chain).by \in 1..MaxLive
  BY <1>1 DEF Ops
<1>. QED  BY <1>1, <1>2, <1>3

\* What a receipt that counted is made of.
LEMMA ReceiptTypes ==
    ASSUME TypeOK, NEW n \in DOMAIN receipts
    PROVE  receipts[n].request \in Requests /\ receipts[n].id \in Receipts
<1>. DEFINE Receipt == [id : Receipts, request : Requests, by : 1..MaxLive,
                        artifact : Artifacts, verdict : Verdicts]
<1>1. receipts \in Seq(Receipt)
  BY DEF TypeOK
<1>2. \A r \in Receipt : r.request \in Requests /\ r.id \in Receipts
  OBVIOUS
<1>. HIDE DEF Receipt
<1>3. receipts[n] \in Receipt
  BY <1>1
<1>. QED  BY <1>2, <1>3

\* The variables of a step that leaves every row and every byte as they are.
RowsStay == UNCHANGED <<reviewVars, core, wire>>

\* Then only where the chain stands has to be looked at.
LEMMA QuietInv ==
    ASSUME IInv, RowsStay, TypeOK', StepOK'
    PROVE  IInv'
BY DEF IInv, RowsStay, reviewVars, AnswersOwn, ReceiptsBound, RequestSentOnce, RoundOf,
       OwnReservation

\* The end of an operation: nothing runs until the next one is judged.
LEMMA DoneLeaves ==
    ASSUME TypeOK, chain # <<>>, Done
    PROVE  /\ chain' \in Seq(Ops) /\ to' \in 0..MaxLive /\ at' = "judge" /\ StepOK'
BY HeadIsOp, ReviewAssumption DEF Done, Nobody, StepOK

LEMMA AskInv ==
    ASSUME IInv, NEW op \in Ops, Ask(op)
    PROVE  IInv'
<1>. USE DEF IInv, Ask, Enqueue
<1>1. chain' \in Seq(Ops) /\ (chain # <<>> => chain' # <<>> /\ Head(chain') = Head(chain))
  <2>1. chain \in Seq(Ops) /\ chain' = Append(chain, op)
    BY DEF TypeOK
  <2>. HIDE DEF IInv, Ask, Enqueue
  <2>2. /\ chain' \in Seq(Ops) /\ Len(chain') = Len(chain) + 1
        /\ \A n \in 1..Len(chain) : chain'[n] = chain[n]
    BY <2>1, AppendProperties
  <2>3. chain # <<>> => Len(chain) \in Nat \ {0} /\ 1 \in 1..Len(chain)
    BY <2>1, EmptySeq, LenProperties
  <2>4. chain # <<>> => chain' # <<>> /\ Head(chain') = chain'[1] /\ Head(chain) = chain[1]
    BY <2>1, <2>2, <2>3, HeadTailProperties
  <2>. QED  BY <2>2, <2>3, <2>4
<1>2. TypeOK'
  BY <1>1, ReviewAssumption DEF TypeOK, reviewVars
<1>3. StepOK'
  BY <1>1 DEF StepOK, RoundOf, It, reviewVars
<1>. QED  BY <1>2, <1>3, QuietInv DEF RowsStay

LEMMA AskRoundInv ==
    ASSUME IInv, NEW q \in Requests, NEW artifact \in Artifacts, AskRound(q, artifact)
    PROVE  IInv'
<1>1. [kind |-> "request", request |-> q, artifact |-> artifact] \in Ops
  BY DEF Ops
<1>. QED  BY <1>1, AskInv DEF AskRound

LEMMA ReceiptFrameInv ==
    ASSUME IInv, NEW r \in Receipts, NEW q \in Requests, NEW artifact \in Artifacts,
           NEW verdict \in Verdicts, NEW p \in 1..MaxLive,
           ReceiptFrame(r, q, artifact, verdict, p)
    PROVE  IInv'
<1>1. [kind |-> "receipt", request |-> q, id |-> r, artifact |-> artifact,
       verdict |-> verdict, by |-> p] \in Ops
  BY DEF Ops
<1>. QED  BY <1>1, AskInv DEF ReceiptFrame

\* Repeat and Send write no row; a request that goes on has its round.
LEMMA RepeatInv == ASSUME IInv, Repeat PROVE IInv'
<1>. USE DEF IInv, Repeat, Running
<1>1. CASE Done
  BY <1>1, DoneLeaves, QuietInv DEF TypeOK, RowsStay, reviewVars
<1>2. CASE Go("send")
  BY <1>2, QuietInv DEF Go, TypeOK, StepOK, RoundOf, It, RowsStay, reviewVars
<1>. QED  BY <1>1, <1>2

LEMMA SendInv == ASSUME IInv, Send PROVE IInv'
<1>. USE DEF IInv, Send, Running
<1>1. CASE Done
  BY <1>1, DoneLeaves, QuietInv DEF TypeOK, RowsStay, reviewVars
<1>2. CASE core[It] = NoSend /\ to' = live /\ at' = "reserve" /\ UNCHANGED chain
  <2>1. TypeOK'
    BY <1>2, ReviewAssumption DEF TypeOK, reviewVars
  <2>2. StepOK'
    BY <1>2 DEF TypeOK, StepOK, RoundOf, It, reviewVars
  <2>. QED  BY <2>1, <2>2, QuietInv DEF RowsStay
<1>. QED  BY <1>1, <1>2

\* A new round: its id has none yet, and earlier rounds keep their place.
LEMMA OpenRoundInv == ASSUME IInv, OpenRound PROVE IInv'
<1>. USE DEF IInv, OpenRound, Running
<1>. DEFINE round == [request |-> It, artifact |-> Head(chain).artifact]
<1>1. CASE Done /\ UNCHANGED rounds
  BY <1>1, DoneLeaves, QuietInv DEF TypeOK, RowsStay, reviewVars
<1>2. CASE Opens(It) /\ rounds' = Append(rounds, round) /\ Go("send")
  <2>1. round \in [request : Requests, artifact : Artifacts] /\ round.request = It
    BY HeadIsOp
  <2>. HIDE DEF round
  <2>2. /\ rounds' \in Seq([request : Requests, artifact : Artifacts])
        /\ Len(rounds) \in Nat /\ Len(rounds') = Len(rounds) + 1
        /\ DOMAIN rounds = 1..Len(rounds) /\ DOMAIN rounds' = 1..(Len(rounds) + 1)
        /\ rounds'[Len(rounds) + 1] = round
        /\ \A i \in 1..Len(rounds) : rounds'[i] = rounds[i]
    BY <1>2, <2>1, AppendProperties, LenProperties DEF TypeOK
  <2>3. \A q \in Requests : RoundOf(q) \subseteq RoundOf(q)'
    BY <2>2 DEF RoundOf
  <2>4. RoundOf(It)' # {}
    <3>1. It' = It
      BY <1>2 DEF It, Go
    <3>2. Len(rounds) + 1 \in {i \in DOMAIN rounds' : rounds'[i].request = It'}
      BY <2>1, <2>2, <3>1
    <3>. QED  BY <3>2 DEF RoundOf
  <2>5. TypeOK'
    <3>1. \A i \in 1..Len(rounds) : rounds[i].request # It
      BY <2>2 DEF RoundOf
    <3>2. \A m, n \in DOMAIN rounds' : rounds'[m].request = rounds'[n].request => m = n
      <4>. SUFFICES ASSUME NEW m \in 1..(Len(rounds) + 1), NEW n \in 1..(Len(rounds) + 1),
                           rounds'[m].request = rounds'[n].request
                    PROVE  m = n
        BY <2>2
      <4>1. CASE m \in 1..Len(rounds) /\ n \in 1..Len(rounds)
        BY <4>1, <2>2 DEF TypeOK
      <4>2. CASE m = Len(rounds) + 1 /\ n \in 1..Len(rounds)
        BY <4>2, <2>1, <2>2, <3>1
      <4>3. CASE n = Len(rounds) + 1 /\ m \in 1..Len(rounds)
        BY <4>3, <2>1, <2>2, <3>1
      <4>. QED  BY <4>1, <4>2, <4>3, <2>2
    <3>3. Len(rounds') <= MAX_ROUNDS
      <4>1. Len(rounds) < MAX_ROUNDS
        BY <1>2 DEF Opens
      <4>. QED  BY <4>1, <2>2, ReviewAssumption
    <3>. QED  BY <1>2, <2>2, <3>2, <3>3 DEF TypeOK, Go
  <2>6. StepOK'
    BY <1>2, <2>4 DEF StepOK, Go, It
  <2>7. AnswersOwn'
    BY DEF AnswersOwn
  <2>8. ReceiptsBound'
    <3>1. \A n \in DOMAIN receipts : receipts[n].request \in Requests
      BY ReceiptTypes
    <3>2. \A n \in DOMAIN receipts : \E k \in RoundOf(receipts[n].request)' :
            rounds'[k].artifact = receipts[n].artifact
      BY <2>2, <2>3, <3>1 DEF ReceiptsBound, RoundOf
    <3>. QED  BY <3>2 DEF ReceiptsBound, RoundOf
  <2>9. RequestSentOnce'
    BY <2>3 DEF RequestSentOnce, OwnReservation
  <2>. QED  BY <2>5, <2>6, <2>7, <2>8, <2>9
<1>. QED  BY <1>1, <1>2

\* PeerCore reserves a free id, under which nothing can have been written.
LEMMA ReserveInv == ASSUME IInv, Reserve PROVE IInv'
<1>. USE DEF IInv, Reserve, Running
<1>1. It \in Requests
  BY HeadIsOp
<1>2. CASE Free(It)
  <2>1. /\ core' = [core EXCEPT ![It] = [by |-> "review", to |-> to]] /\ Go("note")
        /\ UNCHANGED <<up, live, reviewVars, wire, calls, crashes>>
    BY <1>2
  <2>2. to \in 1..MaxLive /\ core[It].by = "nobody" /\ RoundOf(It) # {}
    BY <1>2 DEF StepOK, Free, NoSend
  <2>3. wire[It] = <<>>
    BY <1>1, <2>2 DEF RequestSentOnce, OwnReservation
  <2>4. It' = It
    BY <2>1 DEF Go, It
  <2>5. /\ core'[It] = [by |-> "review", to |-> to]
        /\ \A q \in Requests : core[q].by = "review" => core'[q] = core[q]
    BY <1>1, <2>1, <2>2 DEF TypeOK
  <2>6. TypeOK'
    <3>1. core' \in [Requests -> [by : {"nobody", "review", "other"}, to : 0..MaxLive]]
      BY <1>1, <2>1, <2>2 DEF TypeOK
    <3>. QED  BY <2>1, <3>1 DEF TypeOK, Go, reviewVars
  <2>7. StepOK'
    BY <2>1, <2>2, <2>3, <2>4, <2>5 DEF StepOK, Go, RoundOf, reviewVars
  <2>8. AnswersOwn' /\ ReceiptsBound'
    BY <2>1, <2>5, ReceiptTypes DEF AnswersOwn, ReceiptsBound, RoundOf, reviewVars
  <2>9. RequestSentOnce'
    BY <2>1, <2>5 DEF RequestSentOnce, OwnReservation, RoundOf, reviewVars
  <2>. QED  BY <2>6, <2>7, <2>8, <2>9
<1>3. CASE ~Free(It)
  BY <1>3, DoneLeaves, QuietInv DEF TypeOK, RowsStay, reviewVars
<1>. QED  BY <1>2, <1>3

\* Another caller takes a free id: nothing was sent or answered under it, and
\* no request of the extension is past its reservation with it.
LEMMA OtherSendInv == ASSUME IInv, NEW q \in Requests, OtherSend(q) PROVE IInv'
<1>. USE DEF IInv, OtherSend
<1>1. \A p \in Requests : core[p].by = "review" => core'[p] = core[p]
  BY DEF TypeOK, NoSend
<1>2. TypeOK'
  <2>1. core' \in [Requests -> [by : {"nobody", "review", "other"}, to : 0..MaxLive]]
    BY DEF TypeOK
  <2>. QED  BY <2>1 DEF TypeOK, opVars, reviewVars
<1>3. StepOK'
  <2>1. at \in {"note", "write"} => It \in Requests /\ core[It].by = "review"
    BY HeadIsOp DEF StepOK
  <2>. QED  BY <1>1, <2>1 DEF StepOK, RoundOf, It, opVars, reviewVars
<1>4. AnswersOwn' /\ ReceiptsBound'
  BY <1>1, ReceiptTypes DEF AnswersOwn, ReceiptsBound, RoundOf, reviewVars
<1>5. RequestSentOnce'
  BY <1>1 DEF RequestSentOnce, OwnReservation, RoundOf, reviewVars
<1>. QED  BY <1>2, <1>3, <1>4, <1>5

\* The extension's own row comes before the write, so what is written has both.
LEMMA NoteInv == ASSUME IInv, Note PROVE IInv'
<1>. USE DEF IInv, Note, Running
<1>1. It \in Requests /\ It' = It
  BY HeadIsOp DEF Go, It
<1>2. TypeOK'
  BY <1>1 DEF TypeOK, Go
<1>3. StepOK'
  BY <1>1 DEF StepOK, Go, RoundOf
<1>4. AnswersOwn' /\ ReceiptsBound' /\ RequestSentOnce'
  BY DEF AnswersOwn, ReceiptsBound, RequestSentOnce, OwnReservation, RoundOf
<1>. QED  BY <1>2, <1>3, <1>4

LEMMA WriteInv == ASSUME IInv, Write PROVE IInv'
<1>. USE DEF IInv, Write, Running
<1>1. /\ It \in Requests /\ It \in own /\ RoundOf(It) # {} /\ to \in 1..MaxLive
      /\ core[It] = [by |-> "review", to |-> to] /\ wire[It] = <<>>
  BY HeadIsOp DEF StepOK
<1>2. CASE UNCHANGED wire
  BY <1>2, DoneLeaves, QuietInv DEF TypeOK, RowsStay, reviewVars
<1>3. CASE wire' = [wire EXCEPT ![It] = Append(@, to)]
  <2>1. Append(wire[It], to) = <<to>> /\ <<to>> \in Seq(1..MaxLive)
    BY <1>1
  <2>2. wire'[It] = <<to>> /\ \A q \in Requests \ {It} : wire'[q] = wire[q]
    BY <1>1, <1>3, <2>1 DEF TypeOK
  <2>3. TypeOK'
    <3>1. wire' \in [Requests -> Seq(1..MaxLive)]
      BY <1>1, <1>3, <2>1 DEF TypeOK
    <3>. QED  BY <3>1, DoneLeaves DEF TypeOK, reviewVars
  <2>4. StepOK' /\ AnswersOwn' /\ ReceiptsBound'
    BY DoneLeaves DEF AnswersOwn, ReceiptsBound, RoundOf, reviewVars
  <2>5. RequestSentOnce'
    BY <1>1, <2>2 DEF RequestSentOnce, OwnReservation, RoundOf, reviewVars
  <2>. QED  BY <2>3, <2>4, <2>5
<1>. QED  BY <1>2, <1>3

\* A receipt that counts is the first one of its request and of its id.
LEMMA AcceptInv == ASSUME IInv, Accept PROVE IInv'
<1>. USE DEF IInv, Running
<1>. DEFINE op == Head(chain)
            row == [id |-> op.id, request |-> op.request, by |-> op.by,
                    artifact |-> op.artifact, verdict |-> op.verdict]
            Counts == Bound(op) /\ ~Recorded(op.id) /\ AnswersTo(op.request) = {}
<1>1. /\ Running({"receipt"}, "judge") /\ Done
      /\ UNCHANGED <<up, live, rounds, own, core, wire, calls, crashes>>
      /\ receipts' = IF Counts THEN Append(receipts, row) ELSE receipts
  BY DEF Accept
<1>2. /\ chain' \in Seq(Ops) /\ to' \in 0..MaxLive /\ at' = "judge" /\ StepOK'
  BY <1>1, DoneLeaves
<1>3. CASE ~Counts
  <2>1. receipts' = receipts
    BY <1>1, <1>3
  <2>. QED  BY <1>1, <1>2, <2>1, QuietInv DEF TypeOK, RowsStay, reviewVars
<1>4. CASE Counts
  <2>. DEFINE n == Len(receipts)
  <2>1. row \in [id : Receipts, request : Requests, by : 1..MaxLive,
                 artifact : Artifacts, verdict : Verdicts]
    BY <1>1, HeadIsOp DEF It
  <2>2. row.request = op.request /\ row.id = op.id /\ row.by = op.by
        /\ row.artifact = op.artifact
    OBVIOUS
  <2>3. receipts' = Append(receipts, row)
    BY <1>1, <1>4
  <2>. HIDE DEF row
  <2>4. /\ receipts' \in Seq([id : Receipts, request : Requests, by : 1..MaxLive,
                              artifact : Artifacts, verdict : Verdicts])
        /\ n \in Nat /\ DOMAIN receipts = 1..n /\ DOMAIN receipts' = 1..(n + 1)
        /\ receipts'[n + 1] = row
        /\ \A i \in 1..n : receipts'[i] = receipts[i]
    BY <2>1, <2>3, AppendProperties, LenProperties DEF TypeOK
  <2>5. \A i \in 1..n : receipts[i].request # op.request /\ receipts[i].id # op.id
    BY <1>4, <2>4 DEF Recorded, AnswersTo
  <2>6. /\ core[op.request].by = "review" /\ op.by = core[op.request].to
        /\ \E k \in RoundOf(op.request) : rounds[k].artifact = op.artifact
    BY <1>4 DEF Bound, OwnReservation
  <2>7. TypeOK'
    BY <1>1, <1>2, <2>4 DEF TypeOK
  <2>8. AnswersOwn'
    BY <1>1, <2>2, <2>4, <2>6 DEF AnswersOwn
  <2>9. ReceiptsBound'
    <3>1. ASSUME NEW i \in 1..(n + 1), NEW j \in 1..(n + 1),
                 receipts'[i].request = receipts'[j].request \/ receipts'[i].id = receipts'[j].id
          PROVE  i = j
      <4>1. CASE i \in 1..n /\ j \in 1..n
        BY <3>1, <4>1, <2>4 DEF ReceiptsBound
      <4>2. CASE i = n + 1 /\ j \in 1..n
        BY <3>1, <4>2, <2>2, <2>4, <2>5
      <4>3. CASE j = n + 1 /\ i \in 1..n
        BY <3>1, <4>3, <2>2, <2>4, <2>5
      <4>. QED  BY <4>1, <4>2, <4>3, <2>4
    <3>2. ASSUME NEW i \in 1..(n + 1)
          PROVE  /\ receipts'[i].by = core[receipts'[i].request].to
                 /\ \E k \in RoundOf(receipts'[i].request) :
                      rounds[k].artifact = receipts'[i].artifact
      <4>1. CASE i \in 1..n
        BY <4>1, <2>4 DEF ReceiptsBound
      <4>2. CASE i = n + 1
        BY <4>2, <2>2, <2>4, <2>6
      <4>. QED  BY <4>1, <4>2, <2>4
    <3>3. DOMAIN receipts' = 1..(n + 1) /\ UNCHANGED <<core, rounds>>
      BY <1>1, <2>4
    <3>. HIDE DEF n
    <3>. HIDE DEF IInv, Accept
    <3>. QED  BY Zenon, <3>1, <3>2, <3>3 DEF ReceiptsBound, RoundOf
  <2>10. RequestSentOnce'
    BY <1>1 DEF RequestSentOnce, OwnReservation, RoundOf
  <2>. QED  BY <1>2, <2>7, <2>8, <2>9, <2>10
<1>. QED  BY <1>3, <1>4

\* Another process takes over; a crash ends the chain; a start begins anew.
LEMMA ReplaceInv == ASSUME IInv, Replace PROVE IInv'
<1>. USE DEF IInv, Replace
<1>1. TypeOK'
  BY ReviewAssumption DEF TypeOK, opVars, reviewVars
<1>2. StepOK'
  BY DEF StepOK, RoundOf, It, opVars, reviewVars
<1>. QED  BY <1>1, <1>2, QuietInv DEF RowsStay

LEMMA CrashInv == ASSUME IInv, Crash PROVE IInv'
<1>. USE DEF IInv, Crash
<1>1. <<>> \in Seq(Ops)
  OBVIOUS
<1>2. TypeOK'
  <2>1. to' \in 0..MaxLive /\ crashes' \in 0..MaxCrashes
    BY ReviewAssumption DEF TypeOK, Nobody
  <2>. QED  BY <1>1, <2>1 DEF TypeOK, reviewVars
<1>3. StepOK'
  BY DEF StepOK
<1>. QED  BY <1>2, <1>3, QuietInv DEF RowsStay

LEMMA RestartInv == ASSUME IInv, Restart PROVE IInv'
<1>. USE DEF IInv, Restart
<1>1. TypeOK'
  BY DEF TypeOK, opVars, reviewVars
<1>2. StepOK'
  BY DEF StepOK, RoundOf, It, opVars, reviewVars
<1>. QED  BY <1>1, <1>2, QuietInv DEF RowsStay

LEMMA InitInv == Init => IInv
<1>. SUFFICES ASSUME Init PROVE IInv
  OBVIOUS
<1>. USE DEF Init
<1>1. <<>> \in Seq(Ops) /\ <<>> \in Seq([request : Requests, artifact : Artifacts])
      /\ <<>> \in Seq([id : Receipts, request : Requests, by : 1..MaxLive,
                       artifact : Artifacts, verdict : Verdicts])
      /\ <<>> \in Seq(1..MaxLive)
  OBVIOUS
<1>2. core \in [Requests -> [by : {"nobody", "review", "other"}, to : 0..MaxLive]]
  BY ReviewAssumption DEF NoSend, Nobody
<1>3. live \in 1..MaxLive /\ to \in 0..MaxLive /\ calls \in 0..MaxCalls
      /\ crashes \in 0..MaxCrashes
  BY ReviewAssumption DEF Nobody
<1>4. Len(rounds) = 0 /\ DOMAIN rounds = {} /\ DOMAIN receipts = {}
  OBVIOUS
<1>5. TypeOK
  BY <1>1, <1>2, <1>3, <1>4, ReviewAssumption DEF TypeOK
<1>6. StepOK /\ AnswersOwn /\ ReceiptsBound /\ RequestSentOnce
  BY <1>4 DEF StepOK, AnswersOwn, ReceiptsBound, RequestSentOnce
<1>. QED  BY <1>5, <1>6 DEF IInv

LEMMA NextInv == ASSUME IInv, [Next]_vars PROVE IInv'
<1>1. CASE Next
  BY <1>1, AskRoundInv, ReceiptFrameInv, RepeatInv, OpenRoundInv, SendInv, ReserveInv, NoteInv,
     WriteInv, OtherSendInv, AcceptInv, ReplaceInv, CrashInv, RestartInv DEF Next
<1>2. CASE UNCHANGED vars
  <2>. USE <1>2 DEF IInv, vars, opVars, reviewVars
  <2>1. TypeOK' /\ StepOK'
    BY DEF TypeOK, StepOK, RoundOf, It
  <2>. QED  BY <2>1, QuietInv DEF RowsStay
<1>. QED  BY <1>1, <1>2

LEMMA Invariance == Spec => []IInv
BY InitInv, NextInv, PTL DEF Spec
-----------------------------------------------------------------------------
\* Every variable of the extension keeps its type, and no request id opens
\* two rounds, whatever is repeated.
THEOREM TypeCorrect == Spec => []TypeOK
<1>1. IInv => TypeOK
  BY DEF IInv
<1>. QED  BY <1>1, Invariance, PTL

\* A request leaves at most once, for the process that PeerCore reserved it
\* for, with both rows in the file, never under an id that somebody else took.
THEOREM RequestsSentOnce == Spec => []RequestSentOnce
<1>1. IInv => RequestSentOnce
  BY DEF IInv
<1>. QED  BY <1>1, Invariance, PTL

\* A verdict is bound to one request, its process and its artifact, and a
\* review passes only on the artifact of its newest round.
THEOREM VerdictsAreBound == Spec => []VerdictIsBound
<1>1. IInv => VerdictIsBound
  <2>. SUFFICES ASSUME IInv PROVE VerdictIsBound
    OBVIOUS
  <2>. USE DEF IInv
  <2>1. ASSUME NEW q \in Requests, View(q) = "passed"
        PROVE  \E n \in AnswersTo(q) : receipts[n].verdict = "pass"
                  /\ receipts[n].artifact = rounds[Len(rounds)].artifact
    <3>1. RoundOf(q) # {} /\ rounds[Len(rounds)].request = q
      BY <2>1 DEF View
    <3>2. PICK n \in AnswersTo(q) : receipts[n].verdict = "pass"
      BY <2>1 DEF View
    <3>3. n \in DOMAIN receipts /\ receipts[n].request = q
      BY <3>2 DEF AnswersTo
    <3>4. PICK k \in RoundOf(q) : rounds[k].artifact = receipts[n].artifact
      BY <3>3 DEF ReceiptsBound
    <3>5. DOMAIN rounds = 1..Len(rounds) /\ Len(rounds) \in Nat
      BY LenProperties DEF TypeOK
    <3>6. k \in DOMAIN rounds /\ Len(rounds) \in DOMAIN rounds /\ rounds[k].request = q
      BY <3>4, <3>5 DEF RoundOf
    <3>7. k = Len(rounds)
      BY <3>1, <3>6 DEF TypeOK
    <3>. QED  BY <3>2, <3>4, <3>7
  <2>. QED  BY <2>1 DEF VerdictIsBound, ReceiptsBound
<1>. QED  BY <1>1, Invariance, PTL
-----------------------------------------------------------------------------
LEMMA ReviewStutters ==
    ASSUME UNCHANGED <<core, wire>>
    PROVE  UNCHANGED Promised!deliveryVars
BY DEF Promised!deliveryVars, Request, Left, RequestFrames, Outcome

LEMMA ReviewIsStep ==
    ASSUME NEW q \in Requests
    PROVE  /\ Promised!Reserve(q) => Promised!DeliveryNext
           /\ Promised!Transmit(q, "first") => Promised!DeliveryNext
BY DEF Promised!DeliveryNext, Promised!Vias

\* Whoever comes first takes the id, for a review or for something else.
LEMMA TakeRefines ==
    ASSUME TypeOK, NEW q \in Requests, NEW by \in {"review", "other"}, NEW p \in 1..MaxLive,
           core[q] = NoSend, core' = [core EXCEPT ![q] = [by |-> by, to |-> p]], wire' = wire
    PROVE  Promised!DeliveryNext
<1>1. core'[q] = [by |-> by, to |-> p] /\ \A r \in Requests : r # q => core'[r] = core[r]
  BY DEF TypeOK
<1>2. core'[q] # NoSend
  BY <1>1 DEF NoSend
<1>3. Request[q] = [content |-> "none"]
  BY DEF Request
<1>4. Request' = [Request EXCEPT ![q] = [content |-> by, to |-> p]]
  <2>1. core'[q].by = by /\ core'[q].to = p
    BY <1>1
  <2>. QED  BY <1>1, <1>2, <2>1 DEF Request
<1>5. Left' = Left
  BY DEF Left, RequestFrames
<1>6. Promised!Reserve(q)
  BY <1>3, <1>4, <1>5 DEF Promised!Reserve, Promised!None, Outcome
<1>. QED  BY <1>6, ReviewIsStep

\* A request has left for Delivery when the wire has it.
LEMMA RequestUnder ==
    ASSUME NEW q \in Requests, wire[q] = <<>>
    PROVE  Promised!Under(q, "first") = {}
<1>1. \A r \in Requests : \A f \in RequestFrames(r) : f.msg = r
  BY DEF RequestFrames
<1>2. RequestFrames(q) = {}
  BY DEF RequestFrames
<1>. QED  BY <1>1, <1>2 DEF Promised!Under, Left

\* What leaves is a review under an id that is reserved for one, for the process that gets it.
LEMMA ReviewWriteRefines ==
    ASSUME IInv, Write
    PROVE  Promised!DeliveryNext \/ UNCHANGED Promised!deliveryVars
<1>. USE DEF IInv
<1>1. CASE UNCHANGED wire
  BY <1>1, ReviewStutters DEF Write
<1>2. CASE wire' = [wire EXCEPT ![It] = Append(@, to)]
  <2>0. UNCHANGED core
    BY DEF Write
  <2>1. PICK q \in Requests : q = It
    BY HeadIsOp DEF Write, Running
  <2>2. PICK p \in 1..MaxLive : p = to
    BY DEF Write, Running, StepOK
  <2>3. core[q] = [by |-> "review", to |-> p] /\ wire[q] = <<>>
    BY <2>1, <2>2 DEF Write, Running, StepOK
  <2>4. wire'[q] = <<p>> /\ \A r \in Requests : r # q => wire'[r] = wire[r]
    <3>1. wire \in [Requests -> Seq(1..MaxLive)] /\ Append(wire[q], p) = <<p>>
      BY <2>3 DEF TypeOK
    <3>. QED  BY <1>2, <2>1, <2>2, <3>1
  <2>. DEFINE f == [id |-> 1, msg |-> q, via |-> "first", to |-> p, content |-> "review"]
  <2>5. Left' = Left \cup {f}
    <3>1. RequestFrames(q) = {} /\ RequestFrames(q)' = {f}
      BY <2>3, <2>4 DEF RequestFrames
    <3>2. \A r \in Requests : r # q => RequestFrames(r)' = RequestFrames(r)
      BY <2>4 DEF RequestFrames
    <3>. HIDE DEF f
    <3>. QED  BY <3>1, <3>2 DEF Left
  <2>6. Request' = Request
    BY <2>0 DEF Request
  <2>7. Request[q] = [content |-> "review", to |-> p]
    BY <2>3 DEF Request, NoSend
  <2>8. Request[q] # [content |-> "none"]
    <3>1. DOMAIN Request[q] # DOMAIN [content |-> "none"]
      BY <2>7
    <3>. QED  BY <3>1
  <2>9. \E g \in Left' :
            /\ Left' = Left \cup {g} /\ g.msg = q /\ g.via = "first"
            /\ g.content = Request[q].content /\ g.to = Request[q].to
    <3>1. f.msg = q /\ f.via = "first" /\ f.content = "review" /\ f.to = p
      OBVIOUS
    <3>2. Request[q].content = "review" /\ Request[q].to = p
      BY <2>7
    <3>. HIDE DEF f
    <3>. QED  BY <2>5, <3>1, <3>2
  <2>10. Promised!Transmit(q, "first")
    <3>. HIDE DEF f
    <3>1. Promised!Under(q, "first") = {}
      BY <2>3, RequestUnder
    <3>. QED
      BY <2>6, <2>8, <2>9, <3>1
      DEF Promised!Transmit, Promised!Allowed, Promised!None, Outcome
  <2>. QED  BY <2>10, ReviewIsStep
<1>. QED  BY <1>1, <1>2 DEF Write

LEMMA ReviewStepRefines ==
    ASSUME IInv, [Next]_vars
    PROVE  Promised!DeliveryNext \/ UNCHANGED Promised!deliveryVars
<1>1. CASE Write
  BY <1>1, ReviewWriteRefines
<1>2. CASE Reserve
  <2>1. CASE ~Free(It)
    BY <1>2, <2>1, ReviewStutters DEF Reserve
  <2>2. CASE Free(It)
    <3>1. PICK q \in Requests : q = It
      BY <1>2, HeadIsOp DEF Reserve, Running, IInv
    <3>2. PICK p \in 1..MaxLive : p = to
      BY <1>2 DEF Reserve, Running, StepOK, IInv
    <3>. QED  BY <1>2, <2>2, <3>1, <3>2, TakeRefines DEF Reserve, Free, IInv
  <2>. QED  BY <2>1, <2>2
<1>3. CASE \E q \in Requests : OtherSend(q)
  <2>1. live \in 1..MaxLive
    BY DEF IInv, TypeOK
  <2>2. PICK p \in 1..MaxLive : p = live
    BY <2>1
  <2>. QED  BY <1>3, <2>2, TakeRefines DEF OtherSend, IInv
<1>4. CASE ~Write /\ ~Reserve /\ ~ \E q \in Requests : OtherSend(q)
  <2>1. UNCHANGED <<core, wire>>
    <3>1. CASE UNCHANGED vars
      BY <3>1 DEF vars
    <3>2. CASE Next
      BY <1>4, <3>2 DEF Next, AskRound, ReceiptFrame, Ask, Repeat, OpenRound, Send, Note, Accept,
                        Replace, Crash, Restart
    <3>. QED  BY <3>1, <3>2
  <2>. QED  BY <2>1, ReviewStutters
<1>. QED  BY <1>1, <1>2, <1>3, <1>4

LEMMA ReviewDeliveryBegins == ASSUME Init PROVE Promised!DeliveryInit
<1>1. \A q \in Requests : core[q] = NoSend /\ RequestFrames(q) = {}
  BY DEF Init, RequestFrames
<1>. QED
  BY <1>1 DEF Promised!DeliveryInit, Promised!None, Promised!Vias, Request, Left, Outcome

\* Every step of the code review extension, and of whoever uses its ids beside it, is a step of
\* Delivery or invisible to it: an id is taken once, by either, and a review leaves under it
\* only if it is reserved for one, once, for the process that gets it.
THEOREM ReviewImplementsDelivery == Spec => ImplementsDelivery
<1>1. Init => Promised!DeliveryInit
  BY ReviewDeliveryBegins
<1>2. IInv /\ [Next]_vars => [Promised!DeliveryNext]_(Promised!deliveryVars)
  BY ReviewStepRefines
<1>. QED  BY <1>1, <1>2, Invariance, PTL DEF Spec, ImplementsDelivery, Promised!DeliverySpec
------------------------------------------------------------------------------
(***************************************************************************)
(* Milestone, for any completions, attempts and bounds.  What belongs to   *)
(* it has a name that begins with Ack.                                     *)
(***************************************************************************)

\* What waits on the chain was really asked for, and really said.
AckChainOK ==
    \A n \in DOMAIN chain :
        /\ chain[n].kind = "recover" => chain[n].id \in asked
        /\ chain[n].kind = "status" => Row(chain[n].id, chain[n].via, chain[n].says) \in status

\* Where the running operation stands.  A completion that was just accepted
\* finds its transport free, so only a recovery can come to use the second one.
AckStepOK ==
    at # "judge" =>
        /\ up /\ chain # <<>> /\ Head(chain).kind \in {"completion", "recover"} /\ Known(Acked)
        /\ at # "prepare" => Acked \in prepared
        /\ at \in {"prepare", "send"} /\ Head(chain).kind = "completion" =>
               core[Acked]["first"] = Nobody
        /\ at \notin {"prepare", "send"} /\ Head(chain).kind = "completion" => via = "first"
        /\ at \in {"reserve", "note", "write"} => to \in 1..MaxLive
        /\ at \in {"note", "write"} => core[Acked][via] = to /\ wire[Acked][via] = <<>>
        /\ at = "write" => [id |-> Acked, via |-> via] \in reserved

\* A reservation is for a completion on record; a second one was asked for and
\* is for the process of the first.
AckCoreOK ==
    \A i \in Ids, v \in Vias : core[i][v] # Nobody =>
        /\ i \in prepared /\ Known(i)
        /\ v = "second" => i \in asked /\ core[i]["second"] = core[i]["first"]

\* Bytes that left have both rows, and every fact that came back is about such bytes.
AckWireOK ==
    /\ \A i \in Ids, v \in Vias : wire[i][v] # <<>> =>
           wire[i][v] = <<core[i][v]>> /\ [id |-> i, via |-> v] \in reserved
    /\ \A f \in status : wire[f.id][f.via] # <<>>
    /\ credited \subseteq status

AckIInv == AckTypeOK /\ AckChainOK /\ AckStepOK /\ AckCoreOK /\ AckWireOK
-----------------------------------------------------------------------------
\* The operation that runs is one of the extension's, and so are those behind it.
LEMMA AckHeadIsOp ==
    ASSUME AckTypeOK, AckChainOK, chain # <<>>
    PROVE  /\ Head(chain).kind \in {"completion", "recover", "status"} => Acked \in Ids
           /\ Head(chain).kind = "completion" => Head(chain).attempt \in Attempts
           /\ Head(chain).kind = "recover" => Acked \in asked
           /\ Head(chain).kind = "status" =>
                Row(Head(chain).id, Head(chain).via, Head(chain).says) \in status
           /\ Tail(chain) \in Seq(AckOps)
           /\ \A n \in DOMAIN Tail(chain) : \E k \in DOMAIN chain : Tail(chain)[n] = chain[k]
<1>1. /\ Head(chain) \in AckOps /\ Tail(chain) \in Seq(AckOps)
      /\ Head(chain) = chain[1] /\ 1 \in DOMAIN chain
      /\ DOMAIN chain = 1..Len(chain) /\ Len(chain) \in Nat \ {0}
      /\ DOMAIN Tail(chain) = 1..(Len(chain) - 1)
      /\ \A n \in 1..(Len(chain) - 1) : Tail(chain)[n] = chain[n + 1]
  BY HeadTailProperties, LenProperties DEF AckTypeOK
<1>2. Head(chain).kind \in {"completion", "recover", "status"} => Acked \in Ids
  BY <1>1 DEF AckOps, Acked
<1>3. Head(chain).kind = "completion" => Head(chain).attempt \in Attempts
  BY <1>1 DEF AckOps
<1>4. /\ Head(chain).kind = "recover" => Acked \in asked
      /\ Head(chain).kind = "status" =>
           Row(Head(chain).id, Head(chain).via, Head(chain).says) \in status
  BY <1>1 DEF AckChainOK, Acked
<1>5. \A n \in DOMAIN Tail(chain) : \E k \in DOMAIN chain : Tail(chain)[n] = chain[k]
  <2>. SUFFICES ASSUME NEW n \in 1..(Len(chain) - 1)
                PROVE  \E k \in DOMAIN chain : Tail(chain)[n] = chain[k]
    BY <1>1
  <2>1. n + 1 \in DOMAIN chain /\ Tail(chain)[n] = chain[n + 1]
    BY <1>1
  <2>. QED  BY <2>1
<1>. QED  BY <1>1, <1>2, <1>3, <1>4, <1>5

\* The end of an operation: nothing runs until the next one is judged.
LEMMA AckDoneLeaves ==
    ASSUME AckTypeOK, AckChainOK, chain # <<>>, AckDone,
           UNCHANGED <<asked, status>>
    PROVE  /\ chain' \in Seq(AckOps) /\ via' \in Vias /\ to' \in 0..MaxLive /\ at' = "judge"
           /\ AckChainOK' /\ AckStepOK'
<1>1. AckChainOK'
  BY AckHeadIsOp DEF AckDone, AckChainOK
<1>. QED  BY <1>1, AckHeadIsOp, MilestoneAssumption DEF AckDone, Nobody, Vias, AckStepOK

\* A request goes behind the others and does not touch the one that runs.
LEMMA AckEnqueueLeaves ==
    ASSUME AckTypeOK, AckChainOK, NEW op \in AckOps, Enqueue(op),
           asked \subseteq asked', status \subseteq status',
           op.kind = "recover" => op.id \in asked',
           op.kind = "status" => Row(op.id, op.via, op.says) \in status'
    PROVE  /\ chain' \in Seq(AckOps) /\ AckChainOK'
           /\ chain # <<>> => chain' # <<>> /\ Head(chain') = Head(chain)
<1>1. /\ chain' \in Seq(AckOps) /\ Len(chain) \in Nat /\ Len(chain') = Len(chain) + 1
      /\ DOMAIN chain = 1..Len(chain) /\ DOMAIN chain' = 1..(Len(chain) + 1)
      /\ chain'[Len(chain) + 1] = op
      /\ \A n \in 1..Len(chain) : chain'[n] = chain[n]
  BY AppendProperties, LenProperties DEF Enqueue, AckTypeOK
<1>2. AckChainOK'
  <2>. SUFFICES ASSUME NEW n \in 1..(Len(chain) + 1)
                PROVE  /\ chain'[n].kind = "recover" => chain'[n].id \in asked'
                       /\ chain'[n].kind = "status" =>
                            Row(chain'[n].id, chain'[n].via, chain'[n].says) \in status'
    BY <1>1 DEF AckChainOK, Row
  <2>1. CASE n \in 1..Len(chain)
    BY <2>1, <1>1 DEF AckChainOK
  <2>2. CASE n = Len(chain) + 1
    BY <2>2, <1>1
  <2>. QED  BY <2>1, <2>2, <1>1
<1>3. chain # <<>> => chain' # <<>> /\ Head(chain') = Head(chain)
  <2>. SUFFICES ASSUME chain # <<>> PROVE chain' # <<>> /\ Head(chain') = Head(chain)
    OBVIOUS
  <2>1. chain' # <<>> /\ chain'[1] = chain[1]
    BY <1>1 DEF AckTypeOK
  <2>. QED  BY <1>1, <2>1 DEF AckTypeOK
<1>. QED  BY <1>1, <1>2, <1>3

\* A step that leaves every row and every byte as they are: only where the
\* chain stands has to be looked at.
LEMMA AckQuietInv ==
    ASSUME AckIInv, UNCHANGED <<ackVars, coreVars, asked>>, AckTypeOK', AckChainOK', AckStepOK'
    PROVE  AckIInv'
BY DEF AckIInv, AckCoreOK, AckWireOK, Known, ackVars, coreVars

\* The running operation ends, and nothing else happens.
LEMMA AckDoneInv ==
    ASSUME AckIInv, chain # <<>>, AckDone, UNCHANGED <<up, live, ackVars, coreVars, countVars>>
    PROVE  AckIInv'
<1>. USE DEF AckIInv, ackVars, coreVars, countVars
<1>1. /\ chain' \in Seq(AckOps) /\ via' \in Vias /\ to' \in 0..MaxLive /\ at' = "judge"
      /\ AckChainOK' /\ AckStepOK'
  BY AckDoneLeaves
<1>2. AckTypeOK'
  BY <1>1 DEF AckTypeOK
<1>. QED  BY <1>1, <1>2, AckQuietInv

LEMMA AckReportInv ==
    ASSUME AckIInv, NEW i \in Ids, NEW attempt \in Attempts, Report(i, attempt)
    PROVE  AckIInv'
<1>. USE DEF AckIInv, Report, ackVars, coreVars
<1>. DEFINE op == [kind |-> "completion", id |-> i, attempt |-> attempt, by |-> live]
<1>1. op \in AckOps /\ op.kind = "completion"
  BY DEF AckOps, AckTypeOK
<1>2. Enqueue(op)
  OBVIOUS
<1>. HIDE DEF op
<1>3. /\ chain' \in Seq(AckOps) /\ AckChainOK'
      /\ chain # <<>> => chain' # <<>> /\ Head(chain') = Head(chain)
  BY <1>1, <1>2, AckEnqueueLeaves
<1>4. requests' \in 0..MaxRequests /\ up' = up
  BY MilestoneAssumption DEF AckTypeOK
<1>5. AckTypeOK'
  BY <1>3, <1>4 DEF AckTypeOK
<1>6. AckStepOK'
  BY <1>3 DEF AckStepOK, Known, Acked
<1>. QED  BY <1>3, <1>5, <1>6, AckQuietInv

LEMMA AckAskRecoveryInv == ASSUME AckIInv, NEW i \in Ids, AskRecovery(i) PROVE AckIInv'
<1>. USE DEF AckIInv, AskRecovery, ackVars, coreVars
<1>. DEFINE op == [kind |-> "recover", id |-> i]
<1>1. op \in AckOps /\ op.kind = "recover" /\ op.id = i
  BY DEF AckOps
<1>2. Enqueue(op)
  OBVIOUS
<1>. HIDE DEF op
<1>3. /\ chain' \in Seq(AckOps) /\ AckChainOK'
      /\ chain # <<>> => chain' # <<>> /\ Head(chain') = Head(chain)
  BY <1>1, <1>2, AckEnqueueLeaves
<1>4. requests' \in 0..MaxRequests
  BY MilestoneAssumption DEF AckTypeOK
<1>5. AckTypeOK'
  BY <1>3, <1>4 DEF AckTypeOK
<1>6. AckStepOK'
  BY <1>3 DEF AckStepOK, Known, Acked
<1>7. AckCoreOK' /\ AckWireOK'
  BY DEF AckCoreOK, AckWireOK, Known
<1>. QED  BY <1>3, <1>5, <1>6, <1>7

\* A status frame comes from a process that got the bytes it is about.
LEMMA AckStatusFrameInv ==
    ASSUME AckIInv, NEW i \in Ids, NEW v \in Vias, NEW says \in Statuses,
           StatusFrame(i, v, says)
    PROVE  AckIInv'
<1>. USE DEF AckIInv, StatusFrame, ackVars, countVars
<1>. DEFINE op == [kind |-> "status", id |-> i, via |-> v, says |-> says]
<1>1. op \in AckOps /\ op.kind = "status" /\ Row(op.id, op.via, op.says) = Row(i, v, says)
  BY DEF AckOps
<1>2. Enqueue(op)
  OBVIOUS
<1>. HIDE DEF op
<1>3. /\ chain' \in Seq(AckOps) /\ AckChainOK'
      /\ chain # <<>> => chain' # <<>> /\ Head(chain') = Head(chain)
  BY <1>1, <1>2, AckEnqueueLeaves
<1>4. Row(i, v, says) \in Facts /\ Row(i, v, says).id = i /\ Row(i, v, says).via = v
  BY DEF Row, Facts
<1>5. AckTypeOK'
  BY ZenonT(60), <1>3, <1>4 DEF AckTypeOK
<1>6. AckStepOK'
  BY <1>3 DEF AckStepOK, Known, Acked
<1>7. AckCoreOK' /\ AckWireOK'
  BY <1>4 DEF AckCoreOK, AckWireOK, Known
<1>. QED  BY <1>3, <1>5, <1>6, <1>7

\* The steps that end an operation without a trace.
LEMMA AckEndsInv == ASSUME AckIInv, Refuse \/ Reconciled \/ Unlisted PROVE AckIInv'
BY AckDoneInv DEF Refuse, Reconciled, Unlisted, Running

\* The running operation goes on, and nothing else happens.
LEMMA AckGoInv ==
    ASSUME AckIInv, NEW step \in {"send", "prepare"}, AckGo(step),
           UNCHANGED <<up, live, ackVars, coreVars, countVars>>, AckStepOK'
    PROVE  AckIInv'
<1>. USE DEF AckIInv, AckGo, ackVars, coreVars, countVars
<1>1. AckTypeOK' /\ AckChainOK'
  BY DEF AckTypeOK, AckChainOK
<1>. QED  BY <1>1, AckQuietInv

LEMMA AckRecoverInv == ASSUME AckIInv, Recover PROVE AckIInv'
<1>. USE DEF Recover, Running
<1>1. CASE Settled(Acked)
  BY <1>1, AckDoneInv
<1>2. CASE ~Settled(Acked)
  <2>1. Known(Acked) /\ AckGo(IF Acked \in prepared THEN "send" ELSE "prepare")
    BY <1>2 DEF Settled
  <2>2. AckStepOK'
    BY <2>1 DEF AckStepOK, AckGo, Acked, Known, ackVars, coreVars
  <2>. QED  BY <2>1, <2>2, AckGoInv
<1>. QED  BY <1>1, <1>2

\* A completion whose id and attempt are new takes the next place; an id that
\* is not on record cannot have a reservation.
LEMMA AckAcceptInv == ASSUME AckIInv, AckAccept PROVE AckIInv'
<1>. USE DEF AckIInv
<1>. DEFINE row == [id |-> Acked, attempt |-> Head(chain).attempt]
            n == Len(accepted)
<1>1. /\ up /\ chain # <<>> /\ Head(chain).kind = "completion" /\ at = "judge"
      /\ ~Known(Acked) /\ ~Tried(Head(chain).attempt)
      /\ accepted' = Append(accepted, row) /\ at' = "prepare" /\ chain' = chain /\ via' = via
      /\ UNCHANGED <<to, up, live, prepared, reserved, credited, coreVars, countVars>>
  BY DEF AckAccept, Running, AckGo
<1>2. row \in [id : Ids, attempt : Attempts] /\ row.id = Acked /\ row.attempt = Head(chain).attempt
  BY <1>1, AckHeadIsOp
<1>. HIDE DEF row
<1>3. /\ accepted' \in Seq([id : Ids, attempt : Attempts])
      /\ n \in Nat /\ DOMAIN accepted = 1..n /\ DOMAIN accepted' = 1..(n + 1)
      /\ accepted'[n + 1] = row
      /\ \A i \in 1..n : accepted'[i] = accepted[i]
  BY <1>1, <1>2, AppendProperties, LenProperties DEF AckTypeOK
<1>4. \A i \in 1..n : accepted[i].id # Acked /\ accepted[i].attempt # Head(chain).attempt
  BY <1>1, <1>3 DEF Known, Tried
<1>5. Acked' = Acked /\ Known(Acked)' /\ \A i \in Ids : Known(i) => Known(i)'
  <2>1. Acked' = Acked
    BY <1>1 DEF Acked
  <2>2. n + 1 \in DOMAIN accepted' /\ accepted'[n + 1].id = Acked'
    BY <1>2, <1>3, <2>1
  <2>. QED  BY <1>3, <2>1, <2>2 DEF Known
<1>6. AckTypeOK'
  <2>1. ASSUME NEW i \in 1..(n + 1), NEW j \in 1..(n + 1),
               accepted'[i].id = accepted'[j].id \/ accepted'[i].attempt = accepted'[j].attempt
        PROVE  i = j
    <3>1. CASE i \in 1..n /\ j \in 1..n
      BY <2>1, <3>1, <1>3 DEF AckTypeOK
    <3>2. CASE i = n + 1 /\ j \in 1..n
      BY <2>1, <3>2, <1>2, <1>3, <1>4
    <3>3. CASE j = n + 1 /\ i \in 1..n
      BY <2>1, <3>3, <1>2, <1>3, <1>4
    <3>. QED  BY <3>1, <3>2, <3>3, <1>3
  <2>2. prepared' \subseteq {accepted'[i].id : i \in DOMAIN accepted'}
    <3>1. \A i \in 1..n : i \in 1..(n + 1) /\ accepted'[i].id = accepted[i].id
      BY <1>3
    <3>. QED  BY <1>1, <1>3, <3>1 DEF AckTypeOK
  <2>. QED  BY <1>1, <1>3, <2>1, <2>2 DEF AckTypeOK, coreVars, countVars
<1>7. AckChainOK'
  BY <1>1 DEF AckChainOK, coreVars, countVars
<1>8. AckStepOK'
  <2>1. core[Acked]["first"] = Nobody
    BY <1>1, AckHeadIsOp DEF AckCoreOK, Vias
  <2>. QED  BY <1>1, <1>5, <2>1 DEF AckStepOK, coreVars
<1>9. AckCoreOK' /\ AckWireOK'
  BY <1>1, <1>5 DEF AckCoreOK, AckWireOK, coreVars, countVars
<1>. QED  BY <1>6, <1>7, <1>8, <1>9

LEMMA AckPrepareInv == ASSUME AckIInv, Prepare PROVE AckIInv'
<1>. USE DEF AckIInv, Prepare, Running, AckGo, coreVars, countVars
<1>1. Acked \in Ids /\ Known(Acked) /\ Acked' = Acked
  BY AckHeadIsOp DEF AckStepOK, Acked
<1>2. AckTypeOK'
  <2>1. Acked \in {accepted[n].id : n \in DOMAIN accepted}
    BY <1>1 DEF Known
  <2>. QED  BY ZenonT(60), <2>1 DEF AckTypeOK
<1>3. AckChainOK'
  BY DEF AckChainOK
<1>4. AckStepOK'
  BY <1>1 DEF AckStepOK, Known
<1>5. AckCoreOK' /\ AckWireOK'
  BY DEF AckCoreOK, AckWireOK, Known
<1>. QED  BY <1>2, <1>3, <1>4, <1>5

\* The transport is chosen: the second one only after the first.
LEMMA AckSendAckInv == ASSUME AckIInv, SendAck PROVE AckIInv'
<1>. DEFINE again == core[Acked]["first"] # Nobody
<1>. USE DEF AckIInv, SendAck, Running
<1>1. CASE again /\ Failed(Acked)
  BY <1>1, AckDoneInv
<1>2. CASE ~(again /\ Failed(Acked))
  <2>1. /\ via' = (IF again THEN "second" ELSE "first") /\ at' = "resolve"
        /\ UNCHANGED <<chain, to>> /\ UNCHANGED <<up, live, ackVars, coreVars, countVars>>
    BY <1>2
  <2>2. AckTypeOK'
    BY SMTT(60), <2>1 DEF AckTypeOK, Vias, ackVars, coreVars, countVars
  <2>3. AckChainOK'
    BY <2>1 DEF AckChainOK, coreVars, countVars
  <2>4. AckStepOK'
    BY <2>1 DEF AckStepOK, Acked, Known, ackVars, coreVars
  <2>. QED  BY <2>1, <2>2, <2>3, <2>4, AckQuietInv DEF countVars
<1>. QED  BY <1>1, <1>2

LEMMA AckResolveInv == ASSUME AckIInv, Resolve PROVE AckIInv'
<1>. USE DEF AckIInv, Resolve, Running
<1>1. CASE AckDone
  BY <1>1, AckDoneInv
<1>2. CASE to' = live /\ at' = "reserve" /\ UNCHANGED <<chain, via>>
  <2>1. AckTypeOK'
    BY SMTT(60), <1>2, MilestoneAssumption DEF AckTypeOK, ackVars, coreVars, countVars
  <2>2. AckChainOK'
    BY <1>2 DEF AckChainOK, coreVars, countVars
  <2>3. AckStepOK'
    BY <1>2 DEF AckStepOK, AckTypeOK, Acked, Known, ackVars, coreVars
  <2>. QED  BY <2>1, <2>2, <2>3, AckQuietInv DEF countVars
<1>. QED  BY <1>1, <1>2

\* PeerCore reserves a transport that is free, so nothing was written on it.
LEMMA AckReserveInv == ASSUME AckIInv, AckReserve PROVE AckIInv'
<1>. USE DEF AckIInv, AckReserve, Running
<1>1. CASE ~Reservable
  BY <1>1, AckDoneInv DEF ackVars, coreVars
<1>2. CASE Reservable
  <2>1. /\ core' = [core EXCEPT ![Acked][via] = to] /\ at' = "note"
        /\ UNCHANGED <<chain, via, to, up, live, ackVars, status, wire, countVars>>
    BY <1>2 DEF AckGo
  <2>2. /\ Acked \in Ids /\ via \in Vias /\ to \in 1..MaxLive /\ Acked' = Acked
        /\ Known(Acked) /\ Acked \in prepared
        /\ via = "second" => Acked \in asked /\ core[Acked]["first"] = to
    <3>1. Head(chain).kind = "completion" => via = "first"
      BY DEF AckStepOK
    <3>. QED  BY <1>2, <2>1, <3>1, AckHeadIsOp DEF AckStepOK, Acked, Reservable, AckTypeOK
  <2>3. core[Acked][via] = Nobody
    BY <1>2 DEF Reservable
  <2>4. /\ core'[Acked][via] = to /\ core' \in [Ids -> [Vias -> 0..MaxLive]]
        /\ \A i \in Ids, v \in Vias : i # Acked \/ v # via => core'[i][v] = core[i][v]
    BY <2>1, <2>2 DEF AckTypeOK
  <2>5. wire[Acked][via] = <<>>
    <3>. SUFFICES ASSUME wire[Acked][via] # <<>> PROVE FALSE
      OBVIOUS
    <3>0. wire[Acked][via] \in Seq(1..MaxLive)
      BY <2>2 DEF AckTypeOK
    <3>1. wire[Acked][via] = <<Nobody>>
      BY <2>2, <2>3 DEF AckWireOK
    <3>2. Nobody \in 1..MaxLive
      BY <3>0, <3>1
    <3>. QED  BY <3>2, MilestoneAssumption DEF Nobody
  <2>6. AckTypeOK'
    BY SMTT(60), <2>1, <2>4 DEF AckTypeOK, ackVars, countVars
  <2>7. AckChainOK'
    BY <2>1 DEF AckChainOK, countVars
  <2>8. AckStepOK'
    BY <2>1, <2>2, <2>4, <2>5 DEF AckStepOK, Known, ackVars
  <2>9. AckCoreOK'
    <3>. SUFFICES ASSUME NEW i \in Ids, NEW v \in Vias, core'[i][v] # Nobody
                  PROVE  /\ i \in prepared /\ Known(i)
                         /\ v = "second" => i \in asked /\ core'[i]["second"] = core'[i]["first"]
      BY <2>1 DEF AckCoreOK, Known, ackVars, countVars
    <3>1. CASE i # Acked
      BY <3>1, <2>4 DEF AckCoreOK, Vias
    <3>2. CASE i = Acked /\ v = via
      BY <3>2, <2>2, <2>4 DEF Vias
    <3>3. CASE i = Acked /\ v # via
      <4>1. core[i][v] # Nobody
        BY <3>3, <2>4
      <4>2. via = "first" => v = "second" /\ core[i]["second"] = core[i]["first"]
        BY <3>3, <4>1, <2>2 DEF AckCoreOK, Vias
      <4>3. via # "first"
        BY <4>1, <4>2, <2>3, <3>3
      <4>4. v = "first"
        BY <3>3, <4>3, <2>2 DEF Vias
      <4>. QED  BY <3>3, <4>4, <2>2
    <3>. QED  BY <3>1, <3>2, <3>3
  <2>10. AckWireOK'
    BY <2>1, <2>4, <2>5 DEF AckWireOK, ackVars
  <2>. QED  BY <2>6, <2>7, <2>8, <2>9, <2>10
<1>. QED  BY <1>1, <1>2

\* The extension's row comes before the bytes, which leave for the process
\* that both rows are about.
LEMMA AckNoteInv == ASSUME AckIInv, AckNote PROVE AckIInv'
<1>. USE DEF AckIInv, AckNote, Running, AckGo, coreVars, countVars
<1>1. Acked \in Ids /\ Acked' = Acked
  BY AckHeadIsOp DEF AckStepOK, Acked
<1>2. AckTypeOK'
  BY SMTT(60), <1>1 DEF AckTypeOK
<1>3. AckChainOK'
  BY DEF AckChainOK
<1>4. AckStepOK'
  BY <1>1 DEF AckStepOK, Known
<1>5. AckCoreOK' /\ AckWireOK'
  BY DEF AckCoreOK, AckWireOK, Known
<1>. QED  BY <1>2, <1>3, <1>4, <1>5

LEMMA AckWriteInv == ASSUME AckIInv, AckWrite PROVE AckIInv'
<1>. USE DEF AckIInv
<1>0. /\ chain # <<>> /\ Head(chain).kind \in {"completion", "recover"} /\ at = "write" /\ AckDone
      /\ UNCHANGED <<up, live, ackVars, core, status, countVars>>
      /\ wire' = [wire EXCEPT ![Acked][via] = Append(@, to)] \/ UNCHANGED wire
  BY DEF AckWrite, Running
<1>1. /\ Acked \in Ids /\ via \in Vias /\ to \in 1..MaxLive
      /\ core[Acked][via] = to /\ wire[Acked][via] = <<>> /\ [id |-> Acked, via |-> via] \in reserved
  BY <1>0, AckHeadIsOp DEF AckStepOK, AckTypeOK
<1>2. CASE UNCHANGED wire
  BY <1>0, <1>2, AckDoneInv DEF coreVars
<1>3. CASE wire' = [wire EXCEPT ![Acked][via] = Append(@, to)]
  <2>1. Append(wire[Acked][via], to) = <<to>> /\ <<to>> \in Seq(1..MaxLive)
    BY <1>1
  <2>2. /\ wire'[Acked][via] = <<to>> /\ wire' \in [Ids -> [Vias -> Seq(1..MaxLive)]]
        /\ \A i \in Ids, v \in Vias : i # Acked \/ v # via => wire'[i][v] = wire[i][v]
    BY <1>1, <1>3, <2>1 DEF AckTypeOK
  <2>3. /\ chain' \in Seq(AckOps) /\ via' \in Vias /\ to' \in 0..MaxLive /\ at' = "judge"
        /\ AckChainOK' /\ AckStepOK'
    BY <1>0, AckDoneLeaves DEF countVars
  <2>4. AckTypeOK'
    <3>1. UNCHANGED <<up, live, accepted, prepared, reserved, credited, core, status, asked,
                      requests, crashes>>
      BY <1>0 DEF ackVars, countVars
    <3>2. wire' \in [Ids -> [Vias -> Seq(1..MaxLive)]]
      BY <2>2
    <3>3. \A m, n \in DOMAIN accepted' :
            accepted'[m].id = accepted'[n].id \/ accepted'[m].attempt = accepted'[n].attempt => m = n
      BY <3>1 DEF AckTypeOK
    <3>. QED  BY SMTT(60), <2>3, <3>1, <3>2, <3>3 DEF AckTypeOK
  <2>5. AckCoreOK'
    BY <1>0 DEF AckCoreOK, Known, ackVars, countVars
  <2>6. AckWireOK'
    <3>1. \A f \in status : f.id \in Ids /\ f.via \in Vias
      BY DEF AckTypeOK, Facts
    <3>2. wire'[Acked][via] # <<>>
      BY <2>2
    <3>3. \A i \in Ids, v \in Vias : wire[i][v] # <<>> => wire'[i][v] # <<>>
      BY <2>2, <3>2
    <3>4. \A f \in status : wire'[f.id][f.via] # <<>>
      BY <3>1, <3>3 DEF AckWireOK
    <3>5. ASSUME NEW i \in Ids, NEW v \in Vias, wire'[i][v] # <<>>
          PROVE  wire'[i][v] = <<core[i][v]>> /\ [id |-> i, via |-> v] \in reserved
      <4>1. CASE i = Acked /\ v = via
        BY <4>1, <1>1, <2>2
      <4>2. CASE i # Acked \/ v # via
        <5>1. wire'[i][v] = wire[i][v]
          BY <4>2, <2>2
        <5>. QED  BY <3>5, <5>1 DEF AckWireOK
      <4>. QED  BY <4>1, <4>2
    <3>. QED  BY <1>0, <3>4, <3>5 DEF AckWireOK, ackVars
  <2>. QED  BY <2>3, <2>4, <2>5, <2>6
<1>. QED  BY <1>0, <1>2, <1>3

\* What is credited is a row that core has: from the chain, or found again.
LEMMA AckObserveStatusInv == ASSUME AckIInv, ObserveStatus PROVE AckIInv'
<1>. USE DEF AckIInv, ObserveStatus, Running, coreVars, countVars
<1>1. credited' \subseteq status /\ credited' \subseteq Facts
  BY AckHeadIsOp DEF AckWireOK, AckTypeOK
<1>2. /\ chain' \in Seq(AckOps) /\ via' \in Vias /\ to' \in 0..MaxLive /\ at' = "judge"
      /\ AckChainOK' /\ AckStepOK'
  BY AckDoneLeaves
<1>3. AckTypeOK'
  BY <1>1, <1>2 DEF AckTypeOK
<1>4. AckCoreOK' /\ AckWireOK'
  BY <1>1 DEF AckCoreOK, AckWireOK, Known
<1>. QED  BY <1>2, <1>3, <1>4

LEMMA AckCreditInv == ASSUME AckIInv, NEW i \in Ids, NEW v \in Vias, Credit(i, v) PROVE AckIInv'
<1>. USE DEF AckIInv, Credit, Running, ackOpVars, coreVars, countVars
<1>1. credited' \subseteq status /\ credited' \subseteq Facts
  BY DEF AckWireOK, AckTypeOK, Evident
<1>2. AckTypeOK'
  BY SMTT(60), <1>1 DEF AckTypeOK
<1>3. AckChainOK' /\ AckStepOK'
  BY DEF AckChainOK, AckStepOK, Acked, Known
<1>4. AckCoreOK' /\ AckWireOK'
  BY <1>1 DEF AckCoreOK, AckWireOK, Known
<1>. QED  BY <1>2, <1>3, <1>4

LEMMA AckReplaceInv == ASSUME AckIInv, AckReplace PROVE AckIInv'
<1>. USE DEF AckIInv, AckReplace, ackOpVars, ackVars, coreVars, countVars
<1>1. live' \in 1..MaxLive
  BY MilestoneAssumption DEF AckTypeOK
<1>2. AckTypeOK' /\ AckChainOK' /\ AckStepOK'
  BY <1>1 DEF AckTypeOK, AckChainOK, AckStepOK, Acked, Known
<1>. QED  BY <1>2, AckQuietInv

LEMMA AckCrashInv == ASSUME AckIInv, AckCrash PROVE AckIInv'
<1>. USE DEF AckIInv, AckCrash, ackVars, coreVars
<1>1. <<>> \in Seq(AckOps) /\ DOMAIN chain' = {}
  OBVIOUS
<1>2. to' \in 0..MaxLive /\ via' \in Vias /\ crashes' \in 0..MaxCrashes
  BY MilestoneAssumption DEF AckTypeOK, Nobody, Vias
<1>3. AckTypeOK'
  BY <1>1, <1>2 DEF AckTypeOK
<1>4. AckChainOK' /\ AckStepOK'
  BY <1>1 DEF AckChainOK, AckStepOK
<1>. QED  BY <1>3, <1>4, AckQuietInv

\* A daemon that is down has nothing on its chain; a start only reconciles.
LEMMA AckReconcilingIsOp ==
    /\ <<Reconciling>> \in Seq(AckOps) /\ DOMAIN <<Reconciling>> = 1..1
    /\ <<Reconciling>>[1].kind = "reconcile" /\ <<Reconciling>> # <<>>
    /\ Head(<<Reconciling>>).kind = "reconcile"
<1>1. Reconciling \in AckOps /\ Reconciling.kind = "reconcile"
  BY DEF Reconciling, AckOps
<1>. QED  BY <1>1

LEMMA AckRestartInv == ASSUME AckIInv, AckRestart PROVE AckIInv'
<1>. USE DEF AckIInv, AckRestart, ackVars, coreVars, countVars
<1>1. at = "judge"
  BY DEF AckStepOK
<1>2. AckTypeOK'
  BY AckReconcilingIsOp DEF AckTypeOK
<1>3. AckChainOK'
  <2>. SUFFICES ASSUME NEW n \in DOMAIN chain' PROVE chain'[n].kind = "reconcile"
    BY DEF AckChainOK
  <2>. QED  BY AckReconcilingIsOp
<1>4. AckStepOK'
  BY <1>1 DEF AckStepOK
<1>. QED  BY <1>2, <1>3, <1>4, AckQuietInv

LEMMA AckInitInv == ASSUME AckInit PROVE AckIInv
<1>. USE DEF AckInit
<1>1. /\ live \in 1..MaxLive /\ to \in 0..MaxLive /\ via \in Vias
      /\ requests \in 0..MaxRequests /\ crashes \in 0..MaxCrashes
  BY MilestoneAssumption DEF Instructed, Nobody, Vias
<1>2. /\ core \in [Ids -> [Vias -> 0..MaxLive]] /\ wire \in [Ids -> [Vias -> Seq(1..MaxLive)]]
      /\ \A i \in Ids, v \in Vias : core[i][v] = Nobody /\ wire[i][v] = <<>>
  BY MilestoneAssumption DEF Nobody
<1>3. accepted \in Seq([id : Ids, attempt : Attempts]) /\ DOMAIN accepted = {}
  OBVIOUS
<1>4. AckTypeOK
  BY <1>1, <1>2, <1>3, AckReconcilingIsOp DEF AckTypeOK
<1>5. AckChainOK
  <2>. SUFFICES ASSUME NEW n \in DOMAIN chain PROVE chain[n].kind = "reconcile"
    BY DEF AckChainOK
  <2>. QED  BY AckReconcilingIsOp
<1>6. AckStepOK /\ AckCoreOK /\ AckWireOK
  BY <1>2 DEF AckStepOK, AckCoreOK, AckWireOK
<1>. QED  BY <1>4, <1>5, <1>6 DEF AckIInv

LEMMA AckNextInv == ASSUME AckIInv, [AckNext]_milestoneVars PROVE AckIInv'
<1>1. CASE Work
  BY <1>1, AckEndsInv, AckAcceptInv, AckPrepareInv, AckSendAckInv, AckResolveInv,
     AckReserveInv, AckNoteInv, AckWriteInv, AckObserveStatusInv, AckRecoverInv, AckCreditInv
     DEF Work
<1>2. CASE AckNext /\ ~Work
  BY <1>2, AckReportInv, AckStatusFrameInv, AckAskRecoveryInv, AckReplaceInv, AckCrashInv,
     AckRestartInv DEF AckNext
<1>3. CASE UNCHANGED milestoneVars
  <2>. USE <1>3 DEF AckIInv, milestoneVars, ackOpVars, ackVars, coreVars, countVars
  <2>1. AckTypeOK' /\ AckChainOK' /\ AckStepOK'
    BY DEF AckTypeOK, AckChainOK, AckStepOK, Acked, Known
  <2>. QED  BY <2>1, AckQuietInv
<1>. QED  BY <1>1, <1>2, <1>3

LEMMA AckInvariance == AckSpec => []AckIInv
BY AckInitInv, AckNextInv, PTL DEF AckSpec
-----------------------------------------------------------------------------
\* Every variable of the extension keeps its type, a completion id and an
\* attempt id count once, and nothing is prepared for an id that is not there.
THEOREM AckTypeCorrect == AckSpec => []AckTypeOK
<1>1. AckIInv => AckTypeOK
  BY DEF AckIInv
<1>. QED  BY <1>1, AckInvariance, PTL

\* Across crashes, repetitions and recoveries an acknowledgement leaves once
\* on each transport, reserved twice over before, the second time only where
\* somebody asked, and what is credited to it is a row of core about it.
THEOREM AcksAreAccounted == AckSpec => []AckIsAccounted
<1>1. AckIInv => AckIsAccounted
  <2>. SUFFICES ASSUME AckIInv PROVE AckIsAccounted
    OBVIOUS
  <2>. USE DEF AckIInv
  <2>1. \A f \in credited : f \in status /\ wire[f.id][f.via] # <<>>
    BY DEF AckWireOK
  <2>2. ASSUME NEW i \in Ids, NEW v \in Vias, wire[i][v] # <<>>
        PROVE  core[i][v] # Nobody
    <3>1. wire[i][v] = <<core[i][v]>> /\ wire[i][v] \in Seq(1..MaxLive)
      BY ZenonT(60), <2>2 DEF AckWireOK, AckTypeOK
    <3>2. core[i][v] \in 1..MaxLive
      BY <3>1
    <3>. QED  BY <3>2, MilestoneAssumption DEF Nobody
  <2>. QED  BY <2>1, <2>2 DEF AckIsAccounted, AckWireOK, AckCoreOK
<1>. QED  BY <1>1, AckInvariance, PTL
-----------------------------------------------------------------------------
LEMMA AckStutters ==
    ASSUME UNCHANGED <<core, wire, status>>
    PROVE  UNCHANGED AckPromised!deliveryVars
BY DEF AckPromised!deliveryVars, AckRequest, AckRecovered, AckLeft, AckFrames, AckOutcome,
       AckEvidence

LEMMA AckIsStep ==
    ASSUME NEW i \in Ids
    PROVE  /\ AckPromised!Reserve(i) \/ AckPromised!Recover(i) => AckPromised!DeliveryNext
           /\ \A v \in Vias : AckPromised!Transmit(i, v) => AckPromised!DeliveryNext
           /\ \A f \in Facts : AckPromised!Learn(i, f) => AckPromised!DeliveryNext
BY DEF AckPromised!DeliveryNext, AckPromised!Vias, Vias

\* An acknowledgement has left for Delivery when the wire has it.
LEMMA AckUnder ==
    ASSUME AckTypeOK, NEW i \in Ids, NEW v \in Vias
    PROVE  (AckPromised!Under(i, v) # {}) <=> (wire[i][v] # <<>>)
<1>1. AckPromised!Under(i, v) = {f \in AckLeft : f.msg = i /\ f.via = v}
  BY DEF AckPromised!Under
<1>2. \A j \in Ids, u \in Vias : \A f \in AckFrames(j, u) : f.msg = j /\ f.via = u
  BY DEF AckFrames
<1>3. AckPromised!Under(i, v) = AckFrames(i, v)
  BY <1>1, <1>2 DEF AckLeft
<1>4. wire[i][v] \in Seq(1..MaxLive)
  BY DEF AckTypeOK
<1>5. (DOMAIN wire[i][v] # {}) <=> (wire[i][v] # <<>>)
  BY <1>4
<1>. QED  BY <1>3, <1>5 DEF AckFrames

\* The first reservation of an acknowledgement takes its id; the second is its recovery.
LEMMA AckReserveRefines ==
    ASSUME AckIInv, AckReserve
    PROVE  AckPromised!DeliveryNext \/ UNCHANGED AckPromised!deliveryVars
<1>. USE DEF AckIInv
<1>1. CASE ~Reservable
  BY <1>1, AckStutters DEF AckReserve
<1>2. CASE Reservable
  <2>1. /\ core' = [core EXCEPT ![Acked][via] = to] /\ UNCHANGED <<status, wire>>
        /\ core[Acked][via] = Nobody
        /\ via = "second" => core[Acked]["first"] = to
    BY <1>2 DEF AckReserve, Reservable
  <2>2. PICK i \in Ids : i = Acked
    BY AckHeadIsOp DEF AckReserve, Running
  <2>3. PICK p \in 1..MaxLive : p = to
    BY DEF AckReserve, Running, AckStepOK
  <2>4. p # Nobody
    BY <2>3, MilestoneAssumption DEF Nobody
  <2>5. core \in [Ids -> [Vias -> 0..MaxLive]] /\ via \in Vias
    BY DEF AckTypeOK
  <2>6. AckLeft' = AckLeft /\ AckEvidence' = AckEvidence
    BY <2>1 DEF AckLeft, AckFrames, AckEvidence
  <2>7. CASE via = "first"
    <3>1. /\ core'[i]["first"] = p /\ core[i]["first"] = Nobody
          /\ \A j \in Ids : j # i => core'[j]["first"] = core[j]["first"]
          /\ \A j \in Ids : core'[j]["second"] = core[j]["second"]
      BY <2>1, <2>2, <2>3, <2>5, <2>7 DEF Vias
    <3>2. AckRequest[i] = [content |-> "none"] /\ AckRecovered' = AckRecovered
      BY <3>1 DEF AckRequest, AckRecovered
    <3>3. AckRequest' = [AckRequest EXCEPT ![i] = [content |-> "ack", to |-> p]]
      BY <3>1, <2>4 DEF AckRequest
    <3>4. AckPromised!Reserve(i)
      BY <2>6, <3>2, <3>3
      DEF AckPromised!Reserve, AckPromised!None, AckOutcome
    <3>. QED  BY <3>4, AckIsStep
  <2>8. CASE via = "second"
    <3>1. /\ core'[i]["second"] = p /\ core[i]["second"] = Nobody /\ core[i]["first"] = p
          /\ \A j \in Ids : j # i => core'[j]["second"] = core[j]["second"]
          /\ \A j \in Ids : core'[j]["first"] = core[j]["first"]
      BY <2>1, <2>2, <2>3, <2>5, <2>8 DEF Vias
    <3>2. AckRequest' = AckRequest /\ AckRecovered' = AckRecovered \cup {i}
      BY <3>1, <2>4 DEF AckRequest, AckRecovered
    <3>3. AckRequest[i] # [content |-> "none"] /\ i \notin AckRecovered
      <4>1. AckRequest[i] = [content |-> "ack", to |-> p]
        BY <3>1, <2>4 DEF AckRequest
      <4>2. DOMAIN AckRequest[i] # DOMAIN [content |-> "none"]
        BY <4>1
      <4>3. AckRequest[i] # [content |-> "none"]
        BY <4>2
      <4>. QED  BY <3>1, <4>3 DEF AckRecovered
    <3>4. AckPromised!Recover(i)
      BY <2>6, <3>2, <3>3
      DEF AckPromised!Recover, AckPromised!None, AckOutcome
    <3>. QED  BY <3>4, AckIsStep
  <2>. QED  BY <2>5, <2>7, <2>8 DEF Vias
<1>. QED  BY <1>1, <1>2

\* What leaves is reserved, for the process that gets it, and left on this transport never before.
LEMMA AckWriteRefines ==
    ASSUME AckIInv, AckWrite
    PROVE  AckPromised!DeliveryNext \/ UNCHANGED AckPromised!deliveryVars
<1>. USE DEF AckIInv
<1>1. CASE UNCHANGED wire
  BY <1>1, AckStutters DEF AckWrite
<1>2. CASE wire' = [wire EXCEPT ![Acked][via] = Append(@, to)]
  <2>0. UNCHANGED <<core, status>>
    BY DEF AckWrite
  <2>1. PICK i \in Ids : i = Acked
    BY AckHeadIsOp DEF AckWrite, Running
  <2>2. PICK v \in Vias : v = via
    BY DEF AckTypeOK
  <2>3. PICK p \in 1..MaxLive : p = to
    BY DEF AckWrite, Running, AckStepOK
  <2>4. p # Nobody
    BY <2>3, MilestoneAssumption DEF Nobody
  <2>5. core[i][v] = p /\ wire[i][v] = <<>>
    BY <2>1, <2>2, <2>3 DEF AckWrite, Running, AckStepOK
  <2>6. core[i]["first"] = p /\ (v = "second" => core[i]["second"] # Nobody)
    BY <2>4, <2>5 DEF AckCoreOK, Vias
  <2>7. /\ wire'[i][v] = <<p>>
        /\ \A j \in Ids, u \in Vias : j # i \/ u # v => wire'[j][u] = wire[j][u]
    <3>1. wire \in [Ids -> [Vias -> Seq(1..MaxLive)]] /\ Append(wire[i][v], p) = <<p>>
      BY <2>5 DEF AckTypeOK
    <3>. QED  BY <1>2, <2>1, <2>2, <2>3, <3>1
  <2>. DEFINE f == [id |-> 1, msg |-> i, via |-> v, to |-> p, content |-> "ack"]
  <2>8. AckLeft' = AckLeft \cup {f}
    <3>1. AckFrames(i, v) = {}
      BY <2>5 DEF AckFrames
    <3>2. AckFrames(i, v)' = {f}
      BY <2>7 DEF AckFrames
    <3>3. \A j \in Ids, u \in Vias : j # i \/ u # v => AckFrames(j, u)' = AckFrames(j, u)
      BY <2>7 DEF AckFrames
    <3>. HIDE DEF f
    <3>. QED  BY <3>1, <3>2, <3>3 DEF AckLeft
  <2>9. AckRequest' = AckRequest /\ AckRecovered' = AckRecovered /\ AckEvidence' = AckEvidence
    BY <2>0 DEF AckRequest, AckRecovered, AckEvidence
  <2>10. AckRequest[i] = [content |-> "ack", to |-> p] /\ (v = "second" => i \in AckRecovered)
    BY <2>4, <2>6 DEF AckRequest, AckRecovered
  <2>11. AckRequest[i] # [content |-> "none"]
    <3>1. DOMAIN AckRequest[i] # DOMAIN [content |-> "none"]
      BY <2>10
    <3>. QED  BY <3>1
  <2>12. AckPromised!Under(i, v) = {}
    BY <2>5, AckUnder
  <2>13. \E g \in AckLeft' :
            /\ AckLeft' = AckLeft \cup {g} /\ g.msg = i /\ g.via = v
            /\ g.content = AckRequest[i].content /\ g.to = AckRequest[i].to
    <3>1. f.msg = i /\ f.via = v /\ f.content = "ack" /\ f.to = p
      OBVIOUS
    <3>2. AckRequest[i].content = "ack" /\ AckRequest[i].to = p
      BY <2>10
    <3>. HIDE DEF f
    <3>. QED  BY <2>8, <3>1, <3>2
  <2>14. AckPromised!Transmit(i, v)
    <3>. HIDE DEF f
    <3>. QED
      BY <2>9, <2>10, <2>11, <2>12, <2>13
      DEF AckPromised!Transmit, AckPromised!Allowed, AckPromised!None, AckOutcome
  <2>. QED  BY <2>14, AckIsStep
<1>. QED  BY <1>1, <1>2 DEF AckWrite

\* A status is about an acknowledgement that left.
LEMMA AckStatusRefines ==
    ASSUME AckIInv, NEW i \in Ids, NEW v \in Vias, NEW says \in Statuses, StatusFrame(i, v, says)
    PROVE  AckPromised!DeliveryNext
<1>. DEFINE f == Row(i, v, says)
<1>1. f \in Facts /\ f.id = i
  BY DEF Row, Facts
<1>2. status' = status \cup {f} /\ UNCHANGED <<core, wire>> /\ wire[i][v] # <<>>
  BY DEF StatusFrame
<1>. HIDE DEF f
<1>3. AckEvidence' = [AckEvidence EXCEPT ![i] = @ \cup {f}]
  BY <1>1, <1>2 DEF AckEvidence
<1>4. AckRequest' = AckRequest /\ AckRecovered' = AckRecovered /\ AckLeft' = AckLeft
  BY <1>2 DEF AckRequest, AckRecovered, AckLeft, AckFrames
<1>5. \E u \in Vias : AckPromised!Under(i, u) # {}
  BY <1>2, AckUnder DEF AckIInv
<1>6. AckPromised!Learn(i, f)
  BY <1>3, <1>4, <1>5
  DEF AckPromised!Learn, AckPromised!Vias, Vias, AckOutcome
<1>. QED  BY <1>1, <1>6, AckIsStep

LEMMA AckStepRefines ==
    ASSUME AckIInv, [AckNext]_milestoneVars
    PROVE  AckPromised!DeliveryNext \/ UNCHANGED AckPromised!deliveryVars
<1>1. CASE AckReserve \/ AckWrite
  BY <1>1, AckReserveRefines, AckWriteRefines
<1>2. CASE \E i \in Ids, v \in Vias, says \in Statuses : StatusFrame(i, v, says)
  BY <1>2, AckStatusRefines
<1>3. CASE \/ Work /\ ~AckReserve /\ ~AckWrite
           \/ AckReplace \/ AckCrash \/ AckRestart \/ UNCHANGED milestoneVars
           \/ \E i \in Ids, attempt \in Attempts : Report(i, attempt)
           \/ \E i \in Ids : AskRecovery(i)
  <2>1. UNCHANGED <<core, wire, status>>
    <3>1. CASE Work /\ ~AckReserve /\ ~AckWrite
      BY <3>1 DEF Work, Refuse, AckAccept, Prepare, SendAck, Resolve, AckNote, ObserveStatus,
                  Reconciled, Unlisted, Recover, Credit, coreVars
    <3>2. CASE AckReplace \/ AckCrash \/ AckRestart \/ UNCHANGED milestoneVars
      BY <3>2 DEF AckReplace, AckCrash, AckRestart, milestoneVars, coreVars
    <3>3. CASE \/ \E i \in Ids, attempt \in Attempts : Report(i, attempt)
               \/ \E i \in Ids : AskRecovery(i)
      BY <3>3 DEF Report, AskRecovery, coreVars
    <3>. QED  BY <1>3, <3>1, <3>2, <3>3
  <2>. QED  BY <2>1, AckStutters
<1>. QED  BY <1>1, <1>2, <1>3 DEF AckNext, Work

LEMMA AckDeliveryBegins == ASSUME AckInit PROVE AckPromised!DeliveryInit
<1>1. /\ \A i \in Ids : core[i]["first"] = Nobody /\ core[i]["second"] = Nobody
      /\ \A i \in Ids, v \in Vias : AckFrames(i, v) = {}
      /\ status = {}
  BY DEF AckInit, Vias, AckFrames
<1>. QED
  BY <1>1 DEF AckPromised!DeliveryInit, AckPromised!None, AckPromised!Vias, Vias, AckRequest,
              AckRecovered, AckLeft, AckOutcome, AckEvidence

\* Every step of the milestone extension and of PeerCore beside it is a step of Delivery or
\* invisible to it: reported again, recovered, taken over or crashed, an acknowledgement keeps
\* to what a message is promised.
THEOREM MilestoneImplementsDelivery == AckSpec => AckImplementsDelivery
<1>1. AckInit => AckPromised!DeliveryInit
  BY AckDeliveryBegins
<1>2. AckIInv /\ [AckNext]_milestoneVars =>
        [AckPromised!DeliveryNext]_(AckPromised!deliveryVars)
  BY AckStepRefines
<1>. QED  BY <1>1, <1>2, AckInvariance, PTL
          DEF AckSpec, AckImplementsDelivery, AckPromised!DeliverySpec
==============================================================================
