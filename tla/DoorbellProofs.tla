--------------------------- MODULE DoorbellProofs ---------------------------
(***************************************************************************)
(* Proofs about Doorbell for any messages, sessions and bounds: its type   *)
(* invariant, that an attempt puts its doorbell into a session at most     *)
(* once by the ways that hold a reservation, that it reaches the session   *)
(* its generation is bound to, and that "sent" is only said of a doorbell  *)
(* that rang; and that its attempts keep to Delivery.  That every post     *)
(* settles stays with TLC.                                                 *)
(***************************************************************************)
EXTENDS Doorbell, FiniteSetTheorems, SequenceTheorems, TLAPS

Carriers == {"none", "reserved", "written"}
Doorbells == [msg : Messages, gen : Generations, session : Sessions, how : {"direct", "queue"}]
OutcomeRows == [gen : Generations, state : {"sent", "held", "unknown", "not_sent"},
                quiet : BOOLEAN]

\* A ring has a result when it has one to record, and a session when it writes.
Plain == [stage : Stages \ {"write", "record"}, result : {NoResult}]
Reporting == [stage : {"record"}, result : Results]
Writing == [stage : {"write"}, result : {NoResult}, to : Sessions]
Jobs == Plain \cup Reporting \cup Writing

\* The doorbell of generation g got into a session by a way with a reservation.
Direct(i, m, g) == rung[i].msg = m /\ rung[i].gen = g /\ rung[i].how = "direct"
Rang(m, g) == \E i \in 1..Len(rung) : Direct(i, m, g)

\* Only what was posted is rung again or relinked, and it has a binding.
RowsOK ==
    /\ posted \in [Messages -> BOOLEAN] /\ binding \in [Messages -> Seq(Sessions)]
    /\ outcomes \in [Messages -> Seq(OutcomeRows)]
    /\ relinkDue \in [Messages -> BOOLEAN]
    /\ named \in Sessions /\ moves \in 0..MaxMoves /\ crashes \in 0..MaxCrashes
    /\ \A m \in Messages :
        /\ Len(binding[m]) <= MaxRelinks + 1 /\ (posted[m] <=> binding[m] # <<>>)
        /\ relinkDue[m] => posted[m]

\* A claim that has yet to ring is one of the rerings on record.
ClaimsOK ==
    /\ rerings \in [Messages -> 0..MaxRerings] /\ claims \in [Messages -> 0..MaxRerings]
    /\ \A m \in Messages : claims[m] <= rerings[m] /\ (rerings[m] > 0 => posted[m])

RingTypes ==
    /\ kind \in [Messages -> {"claude", "codex"}]
    /\ job \in [Messages -> [Generations -> Jobs]]
    /\ carrier \in [Messages -> [Generations -> Carriers]]
    /\ rung \in Seq(Doorbells)

\* A ring under way is of a generation there is, in the way its recipient
\* takes, and for the session that generation is bound to.
Placed(m, g) ==
    /\ job[m][g].stage # "none" => g < Len(binding[m])
    /\ job[m][g].stage = "write" => job[m][g].to = binding[m][g + 1]
    /\ job[m][g].stage \in {"wake", "reserved", "answered", "fallback"} => kind[m] = "codex"

\* The reservation is there before the doorbell, which is there before anybody
\* says that it is.
Reserved(m, g) ==
    /\ job[m][g].stage \in {"write", "reserved"} => carrier[m][g] = "reserved" /\ ~Rang(m, g)
    /\ job[m][g].stage \in {"wrote", "answered"} => Rang(m, g)
    /\ job[m][g].result.state = "sent" => Rang(m, g)
    /\ carrier[m][g] = "written" => Rang(m, g)
    /\ Rang(m, g) => carrier[m][g] # "none"

AttemptsOK == \A m \in Messages, g \in Generations : Placed(m, g) /\ Reserved(m, g)

\* A doorbell is in the session of its generation; a queue is Codex's.
RungOK ==
    \A i \in 1..Len(rung) :
        /\ rung[i].gen < Len(binding[rung[i].msg])
        /\ rung[i].session = binding[rung[i].msg][rung[i].gen + 1]
        /\ rung[i].how = "queue" => kind[rung[i].msg] = "codex"

OnceOK ==
    \A m \in Messages, g \in Generations : \A i, k \in 1..Len(rung) :
        Direct(i, m, g) /\ Direct(k, m, g) => i = k

RowsEarned ==
    \A m \in Messages : \A i \in 1..Len(outcomes[m]) :
        outcomes[m][i].state = "sent" => Rang(m, outcomes[m][i].gen)

IInv == RowsOK /\ ClaimsOK /\ RingTypes /\ AttemptsOK /\ RungOK /\ OnceOK /\ RowsEarned
-----------------------------------------------------------------------------
LEMMA Constants ==
    /\ MaxRelinks \in Nat /\ MaxMoves \in Nat /\ MaxCrashes \in Nat /\ MaxRerings = 2
    /\ Generations = 0..MaxRelinks
BY DoorbellAssumption DEF MaxRerings, Generations

\* The values a ring takes, and what they say.
LEMMA JobFacts ==
    /\ \A s \in Stages \ {"write", "record"} :
           At(s) \in Jobs /\ At(s).stage = s /\ At(s).result.state # "sent"
    /\ \A r \in Results :
           LET j == [stage |-> "record", result |-> r] IN
           j \in Jobs /\ j.stage = "record" /\ j.result = r
    /\ \A s \in Sessions :
           LET j == [stage |-> "write", result |-> NoResult, to |-> s] IN
           j \in Jobs /\ j.stage = "write" /\ j.to = s /\ j.result.state # "sent"
    /\ Idle \in Jobs /\ Idle.stage = "none" /\ Idle.result.state # "sent"
    /\ \A j \in Jobs : j.stage = "none" <=> j = Idle
    /\ \A j \in Jobs : j.stage = "record" => j.result \in Results
    /\ \A j \in Jobs : j.stage \in Stages /\ j.result \in Results \cup {NoResult}
<1>1. \A s \in Stages \ {"write", "record"} :
           At(s) \in Jobs /\ At(s).stage = s /\ At(s).result.state # "sent"
  BY DEF At, Jobs, Plain, NoResult
<1>2. \A r \in Results : [stage |-> "record", result |-> r] \in Jobs
  BY DEF Jobs, Reporting
<1>3. \A s \in Sessions : [stage |-> "write", result |-> NoResult, to |-> s] \in Jobs
  BY DEF Jobs, Writing
<1>4. \A j \in Jobs : j.stage = "none" <=> j = Idle
  BY DEF Jobs, Plain, Reporting, Writing, Idle, At
<1>5. \A j \in Jobs : j.stage = "record" => j.result \in Results
  BY DEF Jobs, Plain, Reporting, Writing
<1>6. \A j \in Jobs : j.stage \in Stages /\ j.result \in Results \cup {NoResult}
  BY DEF Jobs, Plain, Reporting, Writing, Stages
<1>7. Idle \in Jobs /\ Idle.stage = "none" /\ Idle.result.state # "sent"
  BY <1>1 DEF Idle, Stages
<1>. QED  BY <1>1, <1>2, <1>3, <1>4, <1>5, <1>6, <1>7 DEF NoResult

LEMMA ResultFacts ==
    /\ \A s \in {"sent", "held", "unknown", "not_sent"} :
           Loud(s) \in Results /\ Loud(s).state = s
    /\ \A b \in BOOLEAN : [state |-> "not_sent", quiet |-> b] \in Results
    /\ \A m, g : Refusal(m, g) \in Results /\ Refusal(m, g).state = "not_sent"
BY DEF Loud, Results, Refusal

\* Doorbells that rang have rung for good.
RungStays ==
    /\ Len(rung) <= Len(rung') /\ rung' \in Seq(Doorbells)
    /\ \A i \in 1..Len(rung) : rung'[i] = rung[i]

\* A message keeps the bindings of the generations it has had.
BindingsStay ==
    \A m \in Messages :
        /\ Len(binding[m]) <= Len(binding'[m]) /\ Len(binding[m]) \in Nat
        /\ Len(binding'[m]) \in Nat
        /\ \A k \in 1..Len(binding[m]) : binding'[m][k] = binding[m][k]

LEMMA SameRung == ASSUME RingTypes, UNCHANGED rung PROVE RungStays
BY DEF RingTypes, RungStays

LEMMA SameBinding == ASSUME RowsOK, UNCHANGED binding PROVE BindingsStay
BY DEF RowsOK, BindingsStay

LEMMA RangStays ==
    ASSUME RingTypes, RungStays, NEW m, NEW g, Rang(m, g)
    PROVE  Rang(m, g)'
<1>1. PICK i \in 1..Len(rung) : Direct(i, m, g)
  BY DEF Rang
<1>2. i \in 1..Len(rung') /\ rung'[i] = rung[i]
  BY DEF RungStays, RingTypes
<1>. QED  BY <1>1, <1>2 DEF Rang, Direct

LEMMA RangSame ==
    ASSUME UNCHANGED rung
    PROVE  /\ \A m, g : Rang(m, g)' <=> Rang(m, g)
           /\ \A i, m, g : Direct(i, m, g)' <=> Direct(i, m, g)
BY DEF Rang, Direct

LEMMA AppendRung ==
    ASSUME RingTypes, NEW x \in Doorbells, rung' = Append(rung, x)
    PROVE  /\ RungStays /\ Len(rung') = Len(rung) + 1 /\ Len(rung) \in Nat
           /\ rung'[Len(rung) + 1] = x
           /\ \A i \in 1..Len(rung') : i \in 1..Len(rung) \/ i = Len(rung) + 1
           /\ \A m, g : Rang(m, g)' =>
                  Rang(m, g) \/ (x.msg = m /\ x.gen = g /\ x.how = "direct")
<1>1. /\ RungStays /\ Len(rung') = Len(rung) + 1 /\ Len(rung) \in Nat
      /\ rung'[Len(rung) + 1] = x
  BY DEF RingTypes, RungStays
<1>2. \A i \in 1..Len(rung') : i \in 1..Len(rung) \/ i = Len(rung) + 1
  BY <1>1
<1>3. ASSUME NEW m, NEW g, Rang(m, g)'
      PROVE  Rang(m, g) \/ (x.msg = m /\ x.gen = g /\ x.how = "direct")
  <2>1. PICK i \in 1..Len(rung') : Direct(i, m, g)'
    BY <1>3 DEF Rang
  <2>2. CASE i \in 1..Len(rung)
    <3>1. Direct(i, m, g)
      BY <2>1, <2>2, <1>1 DEF RungStays, Direct
    <3>. QED  BY <2>2, <3>1 DEF Rang
  <2>3. CASE i = Len(rung) + 1
    BY <2>1, <2>3, <1>1 DEF Direct
  <2>. QED  BY <1>2, <2>2, <2>3
<1>. QED  BY <1>1, <1>2, <1>3

\* What was sent in a row stays sent when only doorbells are added.
LEMMA SameRows ==
    ASSUME RowsEarned, RingTypes, RungStays, UNCHANGED outcomes
    PROVE  RowsEarned'
BY RangStays DEF RowsEarned

\* Whatever else changes, the rows and counts do as they did.
LEMMA SameRowTypes ==
    ASSUME RowsOK, UNCHANGED <<posted, binding, outcomes, relinkDue, named, moves, crashes>>
    PROVE  RowsOK'
BY DEF RowsOK

LEMMA SameClaims ==
    ASSUME ClaimsOK, UNCHANGED <<posted, rerings, claims>>
    PROVE  ClaimsOK'
BY DEF ClaimsOK

\* Old doorbells are where they belong when bindings are only added.
LEMMA SameDoorbells ==
    ASSUME RingTypes, RungOK, RungStays, BindingsStay, UNCHANGED kind,
           NEW i \in 1..Len(rung)
    PROVE  /\ rung'[i].gen < Len(binding'[rung'[i].msg])
           /\ rung'[i].session = binding'[rung'[i].msg][rung'[i].gen + 1]
           /\ rung'[i].how = "queue" => kind'[rung'[i].msg] = "codex"
<1> DEFINE n == rung[i].msg
           h == rung[i].gen
<1>0. rung[i] \in Doorbells
  BY DEF RingTypes
<1>1. rung'[i] = rung[i] /\ n \in Messages /\ h \in Nat
  BY <1>0, Constants DEF RungStays, Doorbells
<1>2. h < Len(binding[n]) /\ rung[i].session = binding[n][h + 1]
  BY DEF RungOK
<1>3. Len(binding[n]) <= Len(binding'[n]) /\ Len(binding[n]) \in Nat /\ Len(binding'[n]) \in Nat
  BY <1>1 DEF BindingsStay
<1>4. h + 1 \in 1..Len(binding[n])
  BY <1>1, <1>2, <1>3
<1>5. binding'[n][h + 1] = binding[n][h + 1]
  BY <1>1, <1>4 DEF BindingsStay
<1>. QED  BY <1>1, <1>2, <1>3, <1>5 DEF RungOK

\* A ring nobody touches is where it was.
LEMMA SamePlace ==
    ASSUME RingTypes, BindingsStay, UNCHANGED kind, NEW m \in Messages, NEW g \in Generations,
           Placed(m, g), job'[m][g] = job[m][g]
    PROVE  Placed(m, g)'
<1>1. g \in Nat
  BY Constants
<1>2. /\ Len(binding[m]) <= Len(binding'[m]) /\ Len(binding[m]) \in Nat
      /\ Len(binding'[m]) \in Nat
      /\ \A k \in 1..Len(binding[m]) : binding'[m][k] = binding[m][k]
  BY DEF BindingsStay
<1>3. CASE job[m][g].stage = "none"
  BY <1>3 DEF Placed
<1>4. CASE job[m][g].stage # "none"
  <2>1. g < Len(binding[m]) /\ g + 1 \in 1..Len(binding[m])
    BY <1>1, <1>2, <1>4 DEF Placed
  <2>. QED  BY <1>1, <1>2, <2>1 DEF Placed
<1>. QED  BY <1>3, <1>4

\* A step of one attempt that rings nothing.
LEMMA AttemptInv ==
    ASSUME IInv, BindingsStay, UNCHANGED <<kind, rung>>,
           NEW m \in Messages, NEW g \in Generations, NEW j \in Jobs, NEW c \in Carriers,
           job' = [job EXCEPT ![m][g] = j], carrier' = [carrier EXCEPT ![m][g] = c],
           Placed(m, g)', Reserved(m, g)'
    PROVE  RingTypes' /\ AttemptsOK' /\ RungOK' /\ OnceOK'
<1>1. RingTypes'
  BY DEF IInv, RingTypes
<1>2. AttemptsOK'
  <2>. SUFFICES ASSUME NEW n \in Messages, NEW h \in Generations
                PROVE  Placed(n, h)' /\ Reserved(n, h)'
    BY DEF AttemptsOK
  <2>1. CASE n = m /\ h = g
    BY <2>1
  <2>2. CASE ~(n = m /\ h = g)
    <3>1. job'[n][h] = job[n][h] /\ carrier'[n][h] = carrier[n][h]
      BY <2>2 DEF IInv, RingTypes
    <3>2. Placed(n, h)'
      BY <3>1, SamePlace DEF IInv, AttemptsOK
    <3>3. Reserved(n, h)'
      BY <3>1, RangSame DEF IInv, AttemptsOK, Reserved
    <3>. QED  BY <3>2, <3>3
  <2>. QED  BY <2>1, <2>2
<1>3. RungOK'
  BY SameRung, SameDoorbells DEF IInv, RungOK
<1>4. OnceOK'
  BY RangSame DEF IInv, OnceOK
<1>. QED  BY <1>1, <1>2, <1>3, <1>4

\* A step of one attempt that rings.
LEMMA RingInv ==
    ASSUME IInv, UNCHANGED <<kind, binding, carrier>>,
           NEW m \in Messages, NEW g \in Generations, NEW j \in Jobs,
           NEW how \in {"direct", "queue"},
           g < Len(binding[m]),
           rung' = Append(rung, [msg |-> m, gen |-> g, session |-> binding[m][g + 1],
                                 how |-> how]),
           how = "direct" => ~Rang(m, g), how = "queue" => kind[m] = "codex",
           job' = [job EXCEPT ![m][g] = j], Placed(m, g)', Reserved(m, g)'
    PROVE  RingTypes' /\ AttemptsOK' /\ RungOK' /\ OnceOK' /\ RungStays
<1> DEFINE x == [msg |-> m, gen |-> g, session |-> binding[m][g + 1], how |-> how]
<1>1. x \in Doorbells /\ g + 1 \in 1..Len(binding[m])
  BY Constants DEF IInv, RowsOK, Doorbells
<1>2. x.msg = m /\ x.gen = g /\ x.session = binding[m][g + 1] /\ x.how = how
  OBVIOUS
<1>3. rung' = Append(rung, x)
  OBVIOUS
<1> HIDE DEF x
<1>4. RingTypes
  BY DEF IInv
<1>5. /\ RungStays /\ Len(rung') = Len(rung) + 1 /\ Len(rung) \in Nat
      /\ rung'[Len(rung) + 1] = x
      /\ \A i \in 1..Len(rung') : i \in 1..Len(rung) \/ i = Len(rung) + 1
  BY <1>1, <1>3, <1>4, AppendRung
<1>6. \A n, h : Rang(n, h)' =>
                  Rang(n, h) \/ (x.msg = n /\ x.gen = h /\ x.how = "direct")
  BY <1>1, <1>3, <1>4, AppendRung
<1>7. RingTypes'
  <2>1. rung' \in Seq(Doorbells)
    BY <1>5 DEF RungStays
  <2>. QED  BY <1>4, <2>1 DEF RingTypes
<1>8. AttemptsOK'
  <2>. SUFFICES ASSUME NEW n \in Messages, NEW h \in Generations
                PROVE  Placed(n, h)' /\ Reserved(n, h)'
    BY DEF AttemptsOK
  <2>1. CASE n = m /\ h = g
    BY <2>1
  <2>2. CASE ~(n = m /\ h = g)
    <3>1. job'[n][h] = job[n][h] /\ carrier'[n][h] = carrier[n][h]
      BY <2>2, <1>4 DEF RingTypes
    <3>2. Placed(n, h)'
      BY <3>1, SamePlace, SameBinding DEF IInv, AttemptsOK
    <3>3. Rang(n, h)' <=> Rang(n, h)
      BY <1>2, <1>4, <1>5, <1>6, <2>2, RangStays
    <3>4. Reserved(n, h)'
      BY <3>1, <3>3 DEF IInv, AttemptsOK, Reserved
    <3>. QED  BY <3>2, <3>4
  <2>. QED  BY <2>1, <2>2
<1>9. RungOK'
  <2>. SUFFICES ASSUME NEW i \in 1..Len(rung')
                PROVE  /\ rung'[i].gen < Len(binding'[rung'[i].msg])
                       /\ rung'[i].session = binding'[rung'[i].msg][rung'[i].gen + 1]
                       /\ rung'[i].how = "queue" => kind'[rung'[i].msg] = "codex"
    BY DEF RungOK
  <2>1. CASE i \in 1..Len(rung)
    BY <2>1, <1>4, <1>5, SameDoorbells, SameBinding DEF IInv
  <2>2. CASE i = Len(rung) + 1
    BY <2>2, <1>2, <1>5
  <2>. QED  BY <1>5, <2>1, <2>2
<1>10. OnceOK'
  <2>. SUFFICES ASSUME NEW n \in Messages, NEW h \in Generations,
                       NEW i \in 1..Len(rung'), NEW k \in 1..Len(rung'),
                       Direct(i, n, h)', Direct(k, n, h)'
                PROVE  i = k
    BY DEF OnceOK
  <2>1. \A a \in 1..Len(rung) : Direct(a, n, h)' => Direct(a, n, h) /\ Rang(n, h)
    BY <1>5 DEF RungStays, Direct, Rang
  <2>2. \A a : a = Len(rung) + 1 => (Direct(a, n, h)' => n = m /\ h = g /\ how = "direct")
    BY <1>2, <1>5 DEF Direct
  <2>3. CASE i \in 1..Len(rung) /\ k \in 1..Len(rung)
    BY <2>1, <2>3 DEF IInv, OnceOK
  <2>4. CASE ~(i \in 1..Len(rung) /\ k \in 1..Len(rung))
    BY <1>5, <2>1, <2>2, <2>4
  <2>. QED  BY <2>3, <2>4
<1>. QED  BY <1>5, <1>7, <1>8, <1>9, <1>10
-----------------------------------------------------------------------------
Attempts == RingTypes /\ AttemptsOK /\ RungOK /\ OnceOK

LEMMA Together ==
    ASSUME IInv, RungStays, Attempts',
           UNCHANGED <<posted, binding, outcomes, rerings, claims, relinkDue, named, moves,
                       crashes>>
    PROVE  IInv'
BY SameRows, SameRowTypes, SameClaims DEF IInv, Attempts

\* A step of a ring that changes nothing else.
LEMMA JobInv ==
    ASSUME IInv, BindingsStay, UNCHANGED <<kind, rung, carrier>>,
           NEW m \in Messages, NEW g \in Generations, NEW j \in Jobs,
           job' = [job EXCEPT ![m][g] = j],
           j.stage \notin {"write", "reserved", "wrote", "answered"},
           j.stage \in {"wake", "fallback"} => kind[m] = "codex",
           g < Len(binding'[m]), j.result.state = "sent" => Rang(m, g)
    PROVE  RungStays /\ Attempts'
<1>0. RingTypes
  BY DEF IInv
<1>1. job'[m][g] = j /\ carrier[m][g] \in Carriers
  BY <1>0 DEF RingTypes
<1>2. carrier' = [carrier EXCEPT ![m][g] = carrier[m][g]]
  <2>1. carrier[m] = [carrier[m] EXCEPT ![g] = carrier[m][g]]
    BY <1>0 DEF RingTypes
  <2>2. carrier = [carrier EXCEPT ![m] = carrier[m]]
    BY <1>0 DEF RingTypes
  <2>. QED  BY <2>1, <2>2
<1>3. Placed(m, g)'
  BY <1>1 DEF Placed
<1>4. Reserved(m, g)'
  BY <1>1, RangSame DEF IInv, AttemptsOK, Reserved
<1>5. RungStays
  BY SameRung DEF IInv
<1>. QED  BY <1>1, <1>2, <1>3, <1>4, <1>5, AttemptInv DEF Attempts

\* A ring under way has a binding.
LEMMA UnderWay ==
    ASSUME IInv, NEW m \in Messages, NEW g \in Generations, NEW s, In(m, g, s), s # "none"
    PROVE  /\ g < Len(binding[m]) /\ g + 1 \in 1..Len(binding[m])
           /\ job[m][g].stage = s /\ binding[m][g + 1] \in Sessions
<1>1. g < Len(binding[m])
  BY DEF IInv, AttemptsOK, Placed, In
<1>2. Len(binding[m]) \in Nat /\ binding[m] \in Seq(Sessions)
  BY DEF IInv, RowsOK
<1>3. g \in Nat
  BY Constants
<1>4. g + 1 \in 1..Len(binding[m])
  BY <1>1, <1>2, <1>3
<1>5. binding[m][g + 1] \in Sessions
  BY <1>2, <1>4
<1>. QED  BY <1>1, <1>4, <1>5 DEF In

LEMMA ReportInv ==
    ASSUME IInv, UNCHANGED <<kind, rung, carrier, binding>>,
           NEW m \in Messages, NEW g \in Generations, NEW s, In(m, g, s), s # "none",
           NEW r \in Results, Report(m, g, r), r.state = "sent" => Rang(m, g)
    PROVE  RungStays /\ Attempts'
<1> DEFINE j == [stage |-> "record", result |-> r]
<1>1. j \in Jobs /\ j.stage = "record" /\ j.result = r
  BY JobFacts
<1>2. job' = [job EXCEPT ![m][g] = j]
  BY DEF Report
<1> HIDE DEF j
<1>3. BindingsStay
  BY SameBinding DEF IInv
<1>4. g < Len(binding'[m])
  BY UnderWay
<1>. QED  BY <1>1, <1>2, <1>3, <1>4, JobInv

LEMMA ToInv ==
    ASSUME IInv, BindingsStay, UNCHANGED <<kind, rung, carrier>>,
           NEW m \in Messages, NEW g \in Generations, g < Len(binding'[m]),
           NEW s \in {"none", "first", "retry", "begin", "send", "wake", "fallback"},
           To(m, g, s), s \in {"wake", "fallback"} => kind[m] = "codex"
    PROVE  RungStays /\ Attempts'
<1>1. At(s) \in Jobs /\ At(s).stage = s /\ At(s).result.state # "sent"
  BY JobFacts DEF Stages
<1>2. job' = [job EXCEPT ![m][g] = At(s)]
  BY DEF To
<1>. QED  BY <1>1, <1>2, JobInv

\* What a step of a ring leaves alone.
Aside == UNCHANGED <<kind, posted, binding, outcomes, rerings, claims, relinkDue, named, moves,
                     crashes>>

LEMMA AsideFacts ==
    /\ UNCHANGED <<rowVars, worldVars, queueVars>> => Aside
    /\ (IInv /\ Aside) => BindingsStay
BY SameBinding DEF rowVars, worldVars, queueVars, Aside, IInv
-----------------------------------------------------------------------------
\* Intent and retry: the ring goes on or ends; only their own rows change.
LEMMA IntendInv ==
    ASSUME IInv, NEW m \in Messages, NEW g \in Generations, Intend(m, g) \/ NoteRetry(m, g)
    PROVE  IInv'
<1>1. Aside /\ UNCHANGED <<carrier, rung>>
  BY DEF Intend, NoteRetry, Aside, worldVars, queueVars
<1>2. PICK s \in {"first", "retry"} : In(m, g, s)
  BY DEF Intend, NoteRetry
<1>3. To(m, g, "none") \/ To(m, g, "begin")
  BY DEF Intend, NoteRetry
<1>4. g < Len(binding'[m])
  BY <1>1, <1>2, UnderWay DEF Aside
<1>5. RungStays /\ Attempts'
  BY <1>1, <1>3, <1>4, ToInv, AsideFacts DEF Aside
<1>. QED  BY <1>1, <1>5, Together DEF Aside

LEMMA BeginInv ==
    ASSUME IInv, NEW m \in Messages, NEW g \in Generations, Begin(m, g)
    PROVE  IInv'
<1>1. Aside /\ UNCHANGED <<carrier, rung>> /\ In(m, g, "begin")
  BY AsideFacts DEF Begin
<1>2. g < Len(binding'[m])
  BY <1>1, UnderWay DEF Aside
<1>3. \/ To(m, g, "none")
      \/ Report(m, g, Refusal(m, g))
      \/ kind[m] = "claude" /\ To(m, g, "send")
      \/ kind[m] = "codex" /\ To(m, g, "wake")
      \/ Report(m, g, [state |-> "not_sent", quiet |-> TRUE])
  BY DEF Begin
<1>4. CASE To(m, g, "none") \/ To(m, g, "send") \/ (kind[m] = "codex" /\ To(m, g, "wake"))
  <2>1. RungStays /\ Attempts'
    BY <1>1, <1>2, <1>4, ToInv, AsideFacts DEF Aside
  <2>. QED  BY <1>1, <2>1, Together DEF Aside
<1>5. CASE \/ Report(m, g, Refusal(m, g))
           \/ Report(m, g, [state |-> "not_sent", quiet |-> TRUE])
  <2>1. PICK r \in Results : Report(m, g, r) /\ r.state = "not_sent"
    BY <1>5, ResultFacts
  <2>2. RungStays /\ Attempts'
    BY <1>1, <2>1, ReportInv DEF Aside
  <2>. QED  BY <1>1, <2>2, Together DEF Aside
<1>. QED  BY <1>3, <1>4, <1>5

\* The replays and refusals: a reservation that is there says "sent" only when
\* it was written after a doorbell.
LEMMA AnswerInv ==
    ASSUME IInv, NEW m \in Messages, NEW g \in Generations,
           SendReplay(m, g) \/ SendRefused(m, g) \/ WakeReplay(m, g) \/ QueueRefused(m, g)
    PROVE  IInv'
<1>1. Aside /\ UNCHANGED <<carrier, rung>>
  BY AsideFacts DEF SendReplay, SendRefused, WakeReplay, QueueRefused
<1>2. PICK s \in {"send", "wake", "fallback"} : In(m, g, s)
  BY DEF SendReplay, SendRefused, WakeReplay, QueueRefused
<1>3. carrier[m][g] = "written" => Rang(m, g)
  BY DEF IInv, AttemptsOK, Reserved
<1>4. \/ carrier[m][g] = "written" /\ Report(m, g, Loud("sent"))
      \/ Report(m, g, Loud("unknown"))
      \/ Report(m, g, Loud("not_sent"))
      \/ Report(m, g, Refusal(m, g))
  BY DEF SendReplay, SendRefused, WakeReplay, QueueRefused
<1>5. PICK r \in Results : Report(m, g, r) /\ (r.state = "sent" => Rang(m, g))
  BY <1>3, <1>4, ResultFacts
<1>6. RungStays /\ Attempts'
  BY <1>1, <1>2, <1>5, ReportInv DEF Aside
<1>. QED  BY <1>1, <1>6, Together DEF Aside

\* The reservation is made: nothing rang without one.
LEMMA SendReserveInv ==
    ASSUME IInv, NEW m \in Messages, NEW g \in Generations, NEW s \in Sessions,
           SendReserve(m, g, s)
    PROVE  IInv'
<1> DEFINE j == [stage |-> "write", result |-> NoResult, to |-> s]
<1>1. j \in Jobs /\ j.stage = "write" /\ j.to = s /\ j.result.state # "sent"
  BY JobFacts
<1>2. /\ Aside /\ UNCHANGED rung /\ In(m, g, "send") /\ carrier[m][g] = "none"
      /\ s = binding[m][g + 1] /\ carrier' = [carrier EXCEPT ![m][g] = "reserved"]
      /\ job' = [job EXCEPT ![m][g] = j]
  BY AsideFacts DEF SendReserve, Expected, Carry
<1> HIDE DEF j
<1>3. job'[m][g] = j /\ carrier'[m][g] = "reserved"
  BY <1>2 DEF IInv, RingTypes
<1>4. g < Len(binding[m])
  BY <1>2, UnderWay
<1>5. Placed(m, g)'
  BY <1>1, <1>2, <1>3, <1>4 DEF Placed, Aside
<1>6. ~Rang(m, g)
  BY <1>2 DEF IInv, AttemptsOK, Reserved
<1>7. Reserved(m, g)'
  BY <1>1, <1>2, <1>3, <1>6, RangSame DEF Reserved
<1>8. RungStays /\ BindingsStay
  BY <1>2, SameRung, AsideFacts DEF IInv
<1>9. Attempts'
  BY <1>1, <1>2, <1>5, <1>7, <1>8, AttemptInv DEF Attempts, Aside, Carriers
<1>. QED  BY <1>2, <1>8, <1>9, Together DEF Aside
-----------------------------------------------------------------------------
\* A doorbell goes to the session of its generation under a reservation.
LEMMA DirectInv ==
    ASSUME IInv, Aside, UNCHANGED carrier, NEW m \in Messages, NEW g \in Generations,
           NEW s \in {"write", "reserved"}, In(m, g, s),
           Reaches(m, g, binding[m][g + 1], "direct"),
           NEW j \in Jobs, job' = [job EXCEPT ![m][g] = j],
           j.stage \in {"wrote", "answered", "record"}, j.result.state # "sent",
           j.stage = "answered" => kind[m] = "codex"
    PROVE  IInv'
<1> DEFINE x == [msg |-> m, gen |-> g, session |-> binding[m][g + 1], how |-> "direct"]
<1>1. g < Len(binding[m]) /\ job[m][g].stage = s /\ binding[m][g + 1] \in Sessions
  BY UnderWay
<1>2. ~Rang(m, g) /\ carrier[m][g] = "reserved"
  BY <1>1 DEF IInv, AttemptsOK, Reserved
<1>3. x \in Doorbells /\ x.msg = m /\ x.gen = g /\ x.how = "direct"
  BY <1>1 DEF Doorbells
<1>4. rung' = Append(rung, x)
  BY DEF Reaches
<1>5. rung'[Len(rung) + 1] = x /\ Len(rung) + 1 \in 1..Len(rung')
  BY <1>3, <1>4, AppendRung DEF IInv
<1>6. Rang(m, g)'
  BY <1>3, <1>5 DEF Rang, Direct
<1>7. job'[m][g] = j /\ carrier'[m][g] = "reserved"
  BY <1>2 DEF IInv, RingTypes
<1>8. Placed(m, g)'
  BY <1>1, <1>7 DEF Placed, Aside
<1>9. Reserved(m, g)'
  BY <1>6, <1>7 DEF Reserved
<1>10. RungStays /\ Attempts'
  BY <1>1, <1>2, <1>4, <1>8, <1>9, RingInv DEF Attempts, Aside
<1>. QED  BY <1>10, Together DEF Aside

LEMMA UnclearFacts ==
    LET j == [stage |-> "record", result |-> Loud("unknown")] IN
    j \in Jobs /\ j.stage = "record" /\ j.result.state # "sent"
BY JobFacts, ResultFacts

LEMMA SendWriteInv ==
    ASSUME IInv, NEW m \in Messages, NEW g \in Generations, SendWrite(m, g)
    PROVE  IInv'
<1> DEFINE to == binding[m][g + 1]
<1>1. Aside /\ UNCHANGED carrier /\ In(m, g, "write")
  BY AsideFacts DEF SendWrite
<1>2. job[m][g].to = to
  BY <1>1 DEF IInv, AttemptsOK, Placed, In
<1>3. \/ Reaches(m, g, to, "direct") /\ To(m, g, "wrote")
      \/ Reaches(m, g, to, "direct") /\ Report(m, g, Loud("unknown"))
      \/ UNCHANGED rung /\ Report(m, g, Loud("unknown"))
  BY <1>2 DEF SendWrite, Exchange
<1>4. CASE Reaches(m, g, to, "direct") /\ To(m, g, "wrote")
  <2>1. /\ At("wrote") \in Jobs /\ At("wrote").stage = "wrote"
        /\ At("wrote").result.state # "sent"
    BY JobFacts DEF Stages
  <2>. QED  BY <1>1, <1>4, <2>1, DirectInv DEF To
<1>5. CASE Reaches(m, g, to, "direct") /\ Report(m, g, Loud("unknown"))
  BY <1>1, <1>5, UnclearFacts, DirectInv DEF Report
<1>6. CASE UNCHANGED rung /\ Report(m, g, Loud("unknown"))
  <2>1. RungStays /\ Attempts'
    BY <1>1, <1>6, ReportInv, ResultFacts DEF Aside
  <2>. QED  BY <1>1, <2>1, Together DEF Aside
<1>. QED  BY <1>3, <1>4, <1>5, <1>6

LEMMA WakeAskInv ==
    ASSUME IInv, NEW m \in Messages, NEW g \in Generations, WakeAsk(m, g)
    PROVE  IInv'
<1> DEFINE to == binding[m][g + 1]
<1>1. Aside /\ UNCHANGED carrier /\ In(m, g, "reserved")
  BY AsideFacts DEF WakeAsk
<1>2. kind[m] = "codex"
  BY <1>1 DEF IInv, AttemptsOK, Placed, In
<1>3. \/ Reaches(m, g, to, "direct") /\ To(m, g, "answered")
      \/ Reaches(m, g, to, "direct") /\ Report(m, g, Loud("unknown"))
      \/ UNCHANGED rung /\ Report(m, g, Loud("unknown"))
  BY DEF WakeAsk, Exchange
<1>4. CASE Reaches(m, g, to, "direct") /\ To(m, g, "answered")
  <2>1. /\ At("answered") \in Jobs /\ At("answered").stage = "answered"
        /\ At("answered").result.state # "sent"
    BY JobFacts DEF Stages
  <2>. QED  BY <1>1, <1>2, <1>4, <2>1, DirectInv DEF To
<1>5. CASE Reaches(m, g, to, "direct") /\ Report(m, g, Loud("unknown"))
  BY <1>1, <1>5, UnclearFacts, DirectInv DEF Report
<1>6. CASE UNCHANGED rung /\ Report(m, g, Loud("unknown"))
  <2>1. RungStays /\ Attempts'
    BY <1>1, <1>6, ReportInv, ResultFacts DEF Aside
  <2>. QED  BY <1>1, <2>1, Together DEF Aside
<1>. QED  BY <1>3, <1>4, <1>5, <1>6

\* The queue needs no reservation, and a doorbell in it is no direct one.
LEMMA EnqueueInv ==
    ASSUME IInv, NEW m \in Messages, NEW g \in Generations, Enqueue(m, g)
    PROVE  IInv'
<1> DEFINE to == binding[m][g + 1]
           x == [msg |-> m, gen |-> g, session |-> to, how |-> "queue"]
<1>1. Aside /\ UNCHANGED carrier /\ In(m, g, "fallback")
  BY AsideFacts DEF Enqueue
<1>2. kind[m] = "codex" /\ g < Len(binding[m]) /\ to \in Sessions
  BY <1>1, UnderWay DEF IInv, AttemptsOK, Placed, In
<1>3. PICK r \in Results :
          /\ Report(m, g, r) /\ r.state # "sent"
          /\ Reaches(m, g, to, "queue") \/ UNCHANGED rung
  BY ResultFacts DEF Enqueue, Exchange
<1>4. CASE Reaches(m, g, to, "queue")
  <2> DEFINE j == [stage |-> "record", result |-> r]
  <2>1. j \in Jobs /\ j.stage = "record" /\ j.result.state # "sent"
    BY <1>3, JobFacts
  <2>2. job' = [job EXCEPT ![m][g] = j]
    BY <1>3 DEF Report
  <2> HIDE DEF j
  <2>3. x \in Doorbells /\ x.how = "queue" /\ rung' = Append(rung, x)
    BY <1>2, <1>4 DEF Doorbells, Reaches
  <2>4. RungStays /\ (Rang(m, g)' => Rang(m, g))
    BY <2>3, AppendRung DEF IInv
  <2>5. Rang(m, g) => Rang(m, g)'
    BY <2>4, RangStays DEF IInv
  <2>6. job'[m][g] = j /\ carrier'[m][g] = carrier[m][g]
    BY <1>1, <2>2 DEF IInv, RingTypes
  <2>7. Placed(m, g)'
    BY <1>1, <1>2, <2>1, <2>6 DEF Placed, Aside
  <2>8. Reserved(m, g)'
    BY <2>1, <2>4, <2>5, <2>6 DEF Reserved, IInv, AttemptsOK
  <2>9. RungStays /\ Attempts'
    BY <1>1, <1>2, <2>1, <2>2, <2>3, <2>7, <2>8, RingInv DEF Attempts, Aside
  <2>. QED  BY <1>1, <2>9, Together DEF Aside
<1>5. CASE UNCHANGED rung
  <2>1. RungStays /\ Attempts'
    BY <1>1, <1>3, <1>5, ReportInv DEF Aside
  <2>. QED  BY <1>1, <2>1, Together DEF Aside
<1>. QED  BY <1>3, <1>4, <1>5

\* What a reservation says changes and nothing rings: it is dropped only where
\* nothing rang, and written only where something did.
LEMMA CarryInv ==
    ASSUME IInv, Aside, UNCHANGED rung, NEW m \in Messages, NEW g \in Generations,
           NEW c \in Carriers, Carry(m, g, c),
           NEW j \in Jobs, job' = [job EXCEPT ![m][g] = j],
           j.stage \in {"reserved", "answered", "fallback"} => kind[m] = "codex",
           j.stage \notin {"write", "wake"}, j.stage # "none" => g < Len(binding[m]),
           j.stage = "reserved" => c = "reserved" /\ ~Rang(m, g),
           j.stage \in {"wrote", "answered"} => Rang(m, g),
           j.result.state = "sent" => Rang(m, g),
           c = "written" => Rang(m, g), Rang(m, g) => c # "none"
    PROVE  IInv'
<1>1. job'[m][g] = j /\ carrier'[m][g] = c
  BY DEF IInv, RingTypes, Carry
<1>2. Placed(m, g)'
  BY <1>1 DEF Placed, Aside
<1>3. Reserved(m, g)'
  BY <1>1, RangSame DEF Reserved
<1>4. RungStays /\ BindingsStay
  BY SameRung, AsideFacts DEF IInv
<1>5. Attempts'
  BY <1>2, <1>3, <1>4, AttemptInv DEF Attempts, Aside, Carry
<1>. QED  BY <1>4, <1>5, Together DEF Aside

LEMMA SendWrittenInv ==
    ASSUME IInv, NEW m \in Messages, NEW g \in Generations, SendWritten(m, g) \/ WakeKeep(m, g)
    PROVE  IInv'
<1>1. Aside /\ UNCHANGED rung
  BY AsideFacts DEF SendWritten, WakeKeep
<1>2. PICK s \in {"wrote", "answered"} : In(m, g, s)
  BY DEF SendWritten, WakeKeep
<1>3. Rang(m, g) /\ g < Len(binding[m])
  BY <1>2, UnderWay DEF IInv, AttemptsOK, Reserved, In
<1>4. \/ Carry(m, g, "written") /\ Report(m, g, Loud("sent"))
      \/ UNCHANGED carrier /\ Report(m, g, Loud("unknown"))
  BY DEF SendWritten, WakeKeep
<1>5. CASE Carry(m, g, "written") /\ Report(m, g, Loud("sent"))
  <2>1. PICK j \in Jobs : job' = [job EXCEPT ![m][g] = j] /\ j.stage = "record"
    BY <1>5, JobFacts, ResultFacts DEF Report
  <2>. QED  BY <1>1, <1>3, <1>5, <2>1, CarryInv DEF Carriers
<1>6. CASE UNCHANGED carrier /\ Report(m, g, Loud("unknown"))
  <2>1. RungStays /\ Attempts'
    BY <1>1, <1>2, <1>6, ReportInv, ResultFacts DEF Aside
  <2>. QED  BY <1>1, <2>1, Together DEF Aside
<1>. QED  BY <1>4, <1>5, <1>6

\* A ring function is what it is with any of its rings put back.
LEMMA SameJob ==
    ASSUME RingTypes, NEW m \in Messages, NEW g \in Generations
    PROVE  job = [job EXCEPT ![m][g] = job[m][g]]
<1>1. job[m] = [job[m] EXCEPT ![g] = job[m][g]]
  BY DEF RingTypes
<1>2. job = [job EXCEPT ![m] = job[m]]
  BY DEF RingTypes
<1>. QED  BY <1>1, <1>2

LEMMA EvidenceInv ==
    ASSUME IInv, NEW m \in Messages, NEW g \in Generations, Evidence(m, g)
    PROVE  IInv'
<1>1. /\ Aside /\ UNCHANGED <<rung, job>> /\ Carry(m, g, "written")
      /\ kind[m] = "claude"
  BY AsideFacts DEF Evidence
<1>2. Rang(m, g)
  <2>1. PICK i \in 1..Len(rung) : rung[i].msg = m /\ rung[i].gen = g
    BY DEF Evidence
  <2>2. rung[i] \in Doorbells
    BY DEF IInv, RingTypes
  <2>3. rung[i].how \in {"direct", "queue"}
    BY <2>2 DEF Doorbells
  <2>4. rung[i].how # "queue"
    BY <1>1, <2>1 DEF IInv, RungOK
  <2>. QED  BY <2>1, <2>3, <2>4 DEF Rang, Direct
<1>3. job[m][g] \in Jobs
  BY DEF IInv, RingTypes
<1>4. /\ Placed(m, g) /\ Reserved(m, g)
  BY DEF IInv, AttemptsOK
<1>5. /\ job[m][g].stage \notin {"reserved", "answered", "fallback", "wake", "write"}
      /\ job[m][g].stage # "none" => g < Len(binding[m])
  BY <1>1, <1>2, <1>4 DEF Placed, Reserved
<1>6. job' = [job EXCEPT ![m][g] = job[m][g]]
  BY <1>1, SameJob DEF IInv
<1>. QED  BY <1>1, <1>2, <1>3, <1>5, <1>6, CarryInv DEF Carriers

LEMMA WakeReserveInv ==
    ASSUME IInv, NEW m \in Messages, NEW g \in Generations, WakeReserve(m, g)
    PROVE  IInv'
<1>1. /\ Aside /\ UNCHANGED rung /\ In(m, g, "wake") /\ carrier[m][g] = "none"
      /\ Carry(m, g, "reserved")
      /\ To(m, g, "reserved") \/ Report(m, g, Loud("not_sent"))
  BY AsideFacts DEF WakeReserve
<1>2. kind[m] = "codex" /\ ~Rang(m, g) /\ g < Len(binding[m])
  BY <1>1, UnderWay DEF IInv, AttemptsOK, Placed, Reserved, In
<1>3. PICK j \in Jobs : /\ job' = [job EXCEPT ![m][g] = j]
                        /\ j.stage \in {"reserved", "record"} /\ j.result.state # "sent"
  BY <1>1, JobFacts, ResultFacts DEF To, Report, Stages
<1>. QED  BY <1>1, <1>2, <1>3, CarryInv DEF Carriers

\* The reservation is dropped: nothing rang under it.
LEMMA DropInv ==
    ASSUME IInv, NEW m \in Messages, NEW g \in Generations,
           WakeUnanswered(m, g) \/ WakeWithdrawn(m, g)
    PROVE  IInv'
<1>1. /\ Aside /\ UNCHANGED rung /\ In(m, g, "reserved") /\ Carry(m, g, "none")
  BY AsideFacts DEF WakeUnanswered, WakeWithdrawn, Drop
<1>2. kind[m] = "codex" /\ ~Rang(m, g) /\ g < Len(binding[m])
  BY <1>1, UnderWay DEF IInv, AttemptsOK, Placed, Reserved, In
<1>3. \/ To(m, g, "fallback") \/ Report(m, g, Loud("not_sent"))
      \/ Report(m, g, Refusal(m, g))
  BY DEF WakeUnanswered, WakeWithdrawn
<1>4. PICK j \in Jobs : /\ job' = [job EXCEPT ![m][g] = j]
                        /\ j.stage \in {"fallback", "record"} /\ j.result.state # "sent"
  BY <1>3, JobFacts, ResultFacts DEF To, Report, Stages
<1>. QED  BY <1>1, <1>2, <1>4, CarryInv DEF Carriers

\* The row says what the ring has to say.
LEMMA RecordInv ==
    ASSUME IInv, NEW m \in Messages, NEW g \in Generations, Record(m, g)
    PROVE  IInv'
<1> DEFINE r == job[m][g].result
           o == Outcome(g, r)
<1>1. /\ UNCHANGED <<kind, posted, binding, rerings, claims, relinkDue, named, moves, crashes,
                     carrier, rung>>
      /\ In(m, g, "record") /\ To(m, g, "none")
      /\ outcomes' = [outcomes EXCEPT ![m] = Append(@, o)]
  BY DEF Record, worldVars, queueVars
<1>2. job[m][g] \in Jobs /\ job[m][g].stage = "record"
  BY <1>1 DEF IInv, RingTypes, In
<1>3. r \in Results /\ (r.state = "sent" => Rang(m, g))
  BY <1>2, JobFacts DEF IInv, AttemptsOK, Reserved
<1>4. o \in OutcomeRows /\ o.state = r.state /\ o.gen = g
  BY <1>3 DEF Outcome, OutcomeRows, Results
<1> HIDE DEF o, r
<1>5. RungStays /\ Attempts'
  <2>1. BindingsStay /\ g < Len(binding'[m])
    BY <1>1, SameBinding, UnderWay DEF IInv
  <2>. QED  BY <1>1, <2>1, ToInv
<1>6. RowsOK'
  <2>1. outcomes[m] \in Seq(OutcomeRows) /\ outcomes \in [Messages -> Seq(OutcomeRows)]
    BY DEF IInv, RowsOK
  <2>2. Append(outcomes[m], o) \in Seq(OutcomeRows)
    BY <1>4, <2>1
  <2>3. outcomes' \in [Messages -> Seq(OutcomeRows)]
    BY <1>1, <2>1, <2>2
  <2>. QED  BY <1>1, <2>3 DEF IInv, RowsOK
<1>7. RowsEarned'
  <2>. SUFFICES ASSUME NEW n \in Messages, NEW i \in 1..Len(outcomes'[n]),
                       outcomes'[n][i].state = "sent", NEW h, h = outcomes'[n][i].gen
                PROVE  Rang(n, h)'
    BY DEF RowsEarned
  <2>1. outcomes[n] \in Seq(OutcomeRows) /\ outcomes \in [Messages -> Seq(OutcomeRows)]
    BY DEF IInv, RowsOK
  <2>2. CASE n = m /\ i = Len(outcomes[m]) + 1
    <3>1. outcomes'[n][i] = o
      BY <1>1, <2>1, <2>2
    <3>. QED  BY <1>1, <1>3, <1>4, <2>2, <3>1, RangSame
  <2>3. CASE ~(n = m /\ i = Len(outcomes[m]) + 1)
    <3>1. i \in 1..Len(outcomes[n]) /\ outcomes'[n][i] = outcomes[n][i]
      BY <1>1, <2>1, <2>3
    <3>. QED  BY <1>1, <3>1, RangSame DEF IInv, RowsEarned
  <2>. QED  BY <2>2, <2>3
<1>. QED  BY <1>1, <1>5, <1>6, <1>7, SameClaims DEF IInv, Attempts
-----------------------------------------------------------------------------
\* A post has a generation to ring.
LEMMA GenerationFacts ==
    ASSUME RowsOK, NEW m \in Messages, posted[m]
    PROVE  /\ Generation(m) \in Generations /\ Generation(m) < Len(binding[m])
           /\ Len(binding[m]) = Generation(m) + 1
<1>1. binding[m] \in Seq(Sessions) /\ binding[m] # <<>> /\ Len(binding[m]) <= MaxRelinks + 1
  BY DEF RowsOK
<1>2. Len(binding[m]) \in Nat /\ Len(binding[m]) > 0
  BY <1>1
<1>. QED  BY <1>1, <1>2, Constants DEF Generation

LEMMA SweepRingInv ==
    ASSUME IInv, NEW m \in Messages, SweepIntent(m) \/ SweepRetry(m)
    PROVE  IInv'
<1>1. Aside /\ UNCHANGED <<carrier, rung>> /\ posted[m]
  BY AsideFacts DEF SweepIntent, SweepRetry, Visited
<1>2. To(m, Generation(m), "first") \/ To(m, Generation(m), "retry")
  BY DEF SweepIntent, SweepRetry
<1>3. Generation(m) \in Generations /\ Generation(m) < Len(binding'[m])
  BY <1>1, GenerationFacts DEF IInv, Aside
<1>4. RungStays /\ Attempts'
  BY <1>1, <1>2, <1>3, ToInv, AsideFacts DEF Aside
<1>. QED  BY <1>1, <1>4, Together DEF Aside

\* What a step that rings nobody and ends no ring leaves as it is.
LEMMA SameAttempts ==
    ASSUME IInv, BindingsStay, UNCHANGED <<kind, carrier, rung, job>>
    PROVE  RungStays /\ Attempts'
<1>1. RungStays /\ RungOK'
  BY SameRung, SameDoorbells DEF IInv, RungOK
<1>2. AttemptsOK'
  <2>. SUFFICES ASSUME NEW n \in Messages, NEW h \in Generations
                PROVE  Placed(n, h)' /\ Reserved(n, h)'
    BY DEF AttemptsOK
  <2>1. Placed(n, h)'
    BY SamePlace DEF IInv, AttemptsOK
  <2>2. Reserved(n, h)'
    BY RangSame DEF IInv, AttemptsOK, Reserved
  <2>. QED  BY <2>1, <2>2
<1>3. RingTypes' /\ OnceOK'
  BY RangSame DEF IInv, RingTypes, OnceOK
<1>. QED  BY <1>1, <1>2, <1>3 DEF Attempts

LEMMA SweepExhaustedInv ==
    ASSUME IInv, NEW m \in Messages, SweepExhausted(m)
    PROVE  IInv'
<1> DEFINE o == Outcome(Generation(m), Loud("unknown"))
<1>1. /\ UNCHANGED <<kind, posted, binding, rerings, claims, relinkDue, named, moves, crashes,
                     carrier, rung, job>>
      /\ posted[m] /\ outcomes' = [outcomes EXCEPT ![m] = <<o>>]
  BY DEF SweepExhausted, Visited, worldVars, queueVars
<1>2. o \in OutcomeRows /\ o.state = "unknown"
  BY <1>1, GenerationFacts, ResultFacts DEF IInv, Outcome, OutcomeRows, Loud
<1> HIDE DEF o
<1>3. RungStays /\ Attempts'
  BY <1>1, SameBinding, SameAttempts DEF IInv
<1>4. outcomes' \in [Messages -> Seq(OutcomeRows)] /\ outcomes \in [Messages -> Seq(OutcomeRows)]
  <2>1. <<o>> \in Seq(OutcomeRows)
    BY <1>2
  <2>. QED  BY <1>1, <2>1 DEF IInv, RowsOK
<1>5. RowsOK'
  BY <1>1, <1>4 DEF IInv, RowsOK
<1>6. RowsEarned'
  <2>. SUFFICES ASSUME NEW n \in Messages, NEW i \in 1..Len(outcomes'[n]),
                       outcomes'[n][i].state = "sent", NEW h, h = outcomes'[n][i].gen
                PROVE  Rang(n, h)'
    BY DEF RowsEarned
  <2>1. n # m
    BY <1>1, <1>2, <1>4
  <2>2. outcomes'[n] = outcomes[n]
    BY <1>1, <1>4, <2>1
  <2>. QED  BY <1>1, <2>2, RangSame DEF IInv, RowsEarned
<1>. QED  BY <1>1, <1>3, <1>5, <1>6, SameClaims DEF IInv, Attempts
-----------------------------------------------------------------------------
\* A sequence keeps what it has when something is appended to it.
LEMMA AppendBinding ==
    ASSUME RowsOK, NEW m \in Messages, NEW s \in Sessions,
           binding' = [binding EXCEPT ![m] = Append(@, s)]
    PROVE  /\ BindingsStay /\ binding' \in [Messages -> Seq(Sessions)]
           /\ Len(binding'[m]) = Len(binding[m]) + 1 /\ binding'[m] # <<>>
           /\ Len(binding[m]) \in Nat
           /\ \A n \in Messages : n # m => binding'[n] = binding[n]
<1>1. binding \in [Messages -> Seq(Sessions)]
  BY DEF RowsOK
<1>2. binding[m] \in Seq(Sessions) /\ binding'[m] = Append(binding[m], s)
  BY <1>1
<1>3. /\ Append(binding[m], s) \in Seq(Sessions) /\ Len(binding[m]) \in Nat
      /\ Len(Append(binding[m], s)) = Len(binding[m]) + 1
      /\ \A k \in 1..Len(binding[m]) : Append(binding[m], s)[k] = binding[m][k]
  BY <1>2
<1>4. \A n \in Messages : n # m => binding'[n] = binding[n]
  BY <1>1
<1>5. binding' \in [Messages -> Seq(Sessions)]
  BY <1>1, <1>3
<1>6. Append(binding[m], s) # <<>>
  <2>1. Len(Append(binding[m], s)) # 0 /\ Len(<<>>) = 0
    BY <1>3
  <2>. QED  BY <2>1
<1>7. BindingsStay
  <2>. SUFFICES ASSUME NEW n \in Messages
                PROVE  /\ Len(binding[n]) <= Len(binding'[n]) /\ Len(binding[n]) \in Nat
                       /\ Len(binding'[n]) \in Nat
                       /\ \A k \in 1..Len(binding[n]) : binding'[n][k] = binding[n][k]
    BY DEF BindingsStay
  <2>1. CASE n = m
    BY <2>1, <1>2, <1>3
  <2>2. CASE n # m
    <3>1. binding[n] \in Seq(Sessions)
      BY <1>1
    <3>. QED  BY <2>2, <1>4, <3>1
  <2>. QED  BY <2>1, <2>2
<1>. QED  BY <1>2, <1>3, <1>4, <1>5, <1>6, <1>7

LEMMA PostInv ==
    ASSUME IInv, NEW m \in Messages, Post(m)
    PROVE  IInv'
<1>1. /\ UNCHANGED <<kind, outcomes, rerings, claims, relinkDue, named, moves, crashes,
                     carrier, rung>>
      /\ ~posted[m] /\ posted' = [posted EXCEPT ![m] = TRUE]
      /\ binding' = [binding EXCEPT ![m] = <<named>>] /\ To(m, 0, "first")
  BY DEF Post, worldVars, queueVars
<1>2. binding[m] = <<>> /\ named \in Sessions /\ 0 \in Generations
  BY <1>1, Constants DEF IInv, RowsOK
<1>3. binding' = [binding EXCEPT ![m] = Append(@, named)]
  BY <1>1, <1>2
<1>4. /\ BindingsStay /\ binding' \in [Messages -> Seq(Sessions)]
      /\ Len(binding'[m]) = Len(binding[m]) + 1 /\ binding'[m] # <<>>
      /\ \A n \in Messages : n # m => binding'[n] = binding[n]
  BY <1>2, <1>3, AppendBinding DEF IInv
<1>5. Len(binding'[m]) = 1
  BY <1>2, <1>4
<1>6. RungStays /\ Attempts'
  BY <1>1, <1>2, <1>4, <1>5, ToInv
<1>7. RowsOK'
  BY <1>1, <1>4, <1>5, Constants DEF IInv, RowsOK
<1>8. ClaimsOK'
  BY <1>1 DEF IInv, RowsOK, ClaimsOK
<1>. QED  BY <1>1, <1>6, <1>7, <1>8, SameRows DEF IInv, Attempts

LEMMA RelinkInv ==
    ASSUME IInv, NEW m \in Messages, Relink(m)
    PROVE  IInv'
<1>1. /\ UNCHANGED <<kind, posted, outcomes, rerings, claims, named, moves, crashes, carrier,
                     rung, job>>
      /\ posted[m] /\ Generation(m) < MaxRelinks
      /\ binding' = [binding EXCEPT ![m] = Append(@, named)]
      /\ relinkDue' = [relinkDue EXCEPT ![m] = TRUE]
  BY DEF Relink, worldVars
<1>2. /\ BindingsStay /\ binding' \in [Messages -> Seq(Sessions)]
      /\ Len(binding'[m]) = Len(binding[m]) + 1 /\ binding'[m] # <<>>
      /\ \A n \in Messages : n # m => binding'[n] = binding[n]
  BY <1>1, AppendBinding DEF IInv, RowsOK
<1>3. Len(binding'[m]) <= MaxRelinks + 1
  BY <1>1, <1>2, GenerationFacts, Constants DEF IInv
<1>4. RungStays /\ Attempts'
  BY <1>1, <1>2, SameAttempts
<1>5. RowsOK'
  BY <1>1, <1>2, <1>3 DEF IInv, RowsOK
<1>. QED  BY <1>1, <1>4, <1>5, SameClaims, SameRows DEF IInv, Attempts

LEMMA ClaimAgainInv ==
    ASSUME IInv, NEW m \in Messages, ClaimAgain(m)
    PROVE  IInv'
<1>1. /\ UNCHANGED <<kind, posted, binding, outcomes, relinkDue, named, moves, crashes,
                     carrier, rung, job>>
      /\ posted[m] /\ rerings[m] < MaxRerings
      /\ rerings' = [rerings EXCEPT ![m] = @ + 1] /\ claims' = [claims EXCEPT ![m] = @ + 1]
  BY DEF ClaimAgain, EligibleAgain, worldVars
<1>2. RungStays /\ Attempts'
  BY <1>1, SameBinding, SameAttempts DEF IInv
<1>3. RowsOK'
  BY <1>1, SameRowTypes DEF IInv
<1>4. ClaimsOK'
  <2>1. /\ rerings \in [Messages -> 0..2] /\ claims \in [Messages -> 0..2]
        /\ rerings[m] < 2 /\ claims[m] <= rerings[m]
    BY <1>1, Constants DEF IInv, ClaimsOK
  <2>2. /\ rerings[m] \in 0..2 /\ claims[m] \in 0..2
        /\ rerings[m] + 1 \in 0..2 /\ claims[m] + 1 \in 0..2
        /\ claims[m] + 1 <= rerings[m] + 1
    BY <2>1
  <2>3. rerings' \in [Messages -> 0..2] /\ claims' \in [Messages -> 0..2]
    BY <1>1, <2>1, <2>2
  <2>4. \A n \in Messages : claims'[n] <= rerings'[n] /\ (rerings'[n] > 0 => posted'[n])
    BY <1>1, <2>1, <2>2 DEF IInv, ClaimsOK
  <2>. QED  BY <2>3, <2>4, Constants DEF ClaimsOK
<1>. QED  BY <1>1, <1>2, <1>3, <1>4, SameRows DEF IInv, Attempts

LEMMA RingAgainInv ==
    ASSUME IInv, NEW m \in Messages, RingAgain(m)
    PROVE  IInv'
<1>1. /\ UNCHANGED <<kind, posted, binding, outcomes, rerings, relinkDue, named, moves, crashes,
                     carrier, rung>>
      /\ claims[m] > 0 /\ claims' = [claims EXCEPT ![m] = @ - 1]
      /\ To(m, Generation(m), "begin") \/ UNCHANGED job
  BY DEF RingAgain, rowVars, worldVars
<1>2. posted[m] /\ claims \in [Messages -> 0..2] /\ rerings \in [Messages -> 0..2]
  BY <1>1, Constants DEF IInv, ClaimsOK
<1>3. BindingsStay
  BY <1>1, SameBinding DEF IInv
<1>4. Generation(m) \in Generations /\ Generation(m) < Len(binding'[m])
  BY <1>1, <1>2, GenerationFacts DEF IInv
<1>5. RungStays /\ Attempts'
  BY <1>1, <1>3, <1>4, ToInv, SameAttempts
<1>6. RowsOK'
  BY <1>1, SameRowTypes DEF IInv
<1>7. ClaimsOK'
  <2>1. claims[m] \in 0..2 /\ rerings[m] \in 0..2 /\ claims[m] - 1 \in 0..2
    BY <1>1, <1>2
  <2>2. claims' \in [Messages -> 0..2]
    BY <1>1, <1>2, <2>1
  <2>3. \A n \in Messages : claims'[n] <= rerings'[n] /\ (rerings'[n] > 0 => posted'[n])
    BY <1>1, <1>2, <2>1 DEF IInv, ClaimsOK
  <2>. QED  BY <1>1, <1>2, <2>2, <2>3, Constants DEF ClaimsOK
<1>. QED  BY <1>1, <1>5, <1>6, <1>7, SameRows DEF IInv, Attempts

LEMMA RingRelinkedInv ==
    ASSUME IInv, NEW m \in Messages, RingRelinked(m)
    PROVE  IInv'
<1>1. /\ UNCHANGED <<kind, posted, binding, outcomes, rerings, claims, named, moves, crashes,
                     carrier, rung>>
      /\ relinkDue[m] /\ relinkDue' = [relinkDue EXCEPT ![m] = FALSE]
      /\ To(m, Generation(m), "begin") \/ UNCHANGED job
  BY DEF RingRelinked, worldVars
<1>2. posted[m]
  BY <1>1 DEF IInv, RowsOK
<1>3. BindingsStay
  BY <1>1, SameBinding DEF IInv
<1>4. Generation(m) \in Generations /\ Generation(m) < Len(binding'[m])
  BY <1>1, <1>2, GenerationFacts DEF IInv
<1>5. RungStays /\ Attempts'
  BY <1>1, <1>3, <1>4, ToInv, SameAttempts
<1>6. RowsOK'
  BY <1>1 DEF IInv, RowsOK
<1>. QED  BY <1>1, <1>5, <1>6, SameClaims, SameRows DEF IInv, Attempts

\* The alarm and the recipient's own row.
LEMMA ProcessInv ==
    ASSUME IInv, NEW m \in Messages, SweepAlert(m) \/ Alarm(m) \/ Process(m)
    PROVE  IInv'
<1>1. Aside /\ UNCHANGED <<carrier, rung, job>>
  BY DEF SweepAlert, Alarm, Process, Aside, rowVars, worldVars, queueVars
<1>2. RungStays /\ Attempts'
  BY <1>1, AsideFacts, SameAttempts DEF Aside
<1>. QED  BY <1>1, <1>2, Together DEF Aside

LEMMA MoveInv ==
    ASSUME IInv, NEW s \in Sessions, Move(s)
    PROVE  IInv'
<1>1. /\ UNCHANGED <<kind, posted, binding, outcomes, rerings, claims, relinkDue, crashes,
                     carrier, rung, job>>
      /\ named' = s /\ moves < MaxMoves /\ moves' = moves + 1
  BY DEF Move, rowVars, queueVars
<1>2. RungStays /\ Attempts'
  BY <1>1, SameBinding, SameAttempts DEF IInv
<1>3. RowsOK'
  BY <1>1, Constants DEF IInv, RowsOK
<1>. QED  BY <1>1, <1>2, <1>3, SameClaims, SameRows DEF IInv, Attempts

\* What was under way is gone; rows, reservations and doorbells stay.
LEMMA CrashInv ==
    ASSUME IInv, Crash
    PROVE  IInv'
<1>1. /\ UNCHANGED <<kind, posted, binding, outcomes, rerings, named, moves, carrier, rung>>
      /\ crashes < MaxCrashes /\ crashes' = crashes + 1
      /\ job' = [m \in Messages |-> [g \in Generations |-> Idle]]
      /\ claims' = [m \in Messages |-> 0] /\ relinkDue' = [m \in Messages |-> FALSE]
  BY DEF Crash, rowVars
<1>2. RungStays /\ RungOK'
  BY <1>1, SameRung, SameBinding, SameDoorbells DEF IInv, RungOK
<1>3. RingTypes' /\ OnceOK'
  BY <1>1, JobFacts, RangSame DEF IInv, RingTypes, OnceOK
<1>4. AttemptsOK'
  <2>. SUFFICES ASSUME NEW n \in Messages, NEW h \in Generations
                PROVE  Placed(n, h)' /\ Reserved(n, h)'
    BY DEF AttemptsOK
  <2>1. job'[n][h] = Idle /\ carrier' = carrier
    BY <1>1
  <2>2. Placed(n, h)'
    BY <2>1, JobFacts DEF Placed
  <2>3. Reserved(n, h)'
    BY <1>1, <2>1, JobFacts, RangSame DEF IInv, AttemptsOK, Reserved
  <2>. QED  BY <2>2, <2>3
<1>5. RowsOK'
  BY <1>1, Constants DEF IInv, RowsOK
<1>6. ClaimsOK'
  <2>1. rerings \in [Messages -> 0..2]
    BY Constants DEF IInv, ClaimsOK
  <2>2. \A n \in Messages : rerings[n] \in 0..2 /\ claims'[n] = 0
    BY <1>1, <2>1
  <2>. QED  BY <1>1, <2>1, <2>2, Constants DEF IInv, ClaimsOK
<1>. QED  BY <1>1, <1>2, <1>3, <1>4, <1>5, <1>6, SameRows DEF IInv
-----------------------------------------------------------------------------
LEMMA InitInv == ASSUME Init PROVE IInv
<1>1. named \in Sessions
  BY DoorbellAssumption DEF Init
<1>2. rung = <<>> /\ Len(rung) = 0
  BY DEF Init
<1>3. RingTypes
  BY JobFacts DEF Init, RingTypes, Carriers
<1>4. AttemptsOK
  <2>. SUFFICES ASSUME NEW n \in Messages, NEW h \in Generations
                PROVE  Placed(n, h) /\ Reserved(n, h)
    BY DEF AttemptsOK
  <2>1. job[n][h] = Idle /\ carrier[n][h] = "none"
    BY DEF Init
  <2>2. ~Rang(n, h)
    BY <1>2 DEF Rang
  <2>. QED  BY <2>1, <2>2, JobFacts DEF Placed, Reserved
<1>5. RungOK /\ OnceOK
  BY <1>2 DEF RungOK, OnceOK
<1>6. RowsOK /\ ClaimsOK
  BY <1>1, Constants DEF Init, RowsOK, ClaimsOK
<1>7. RowsEarned
  BY DEF Init, RowsEarned
<1>. QED  BY <1>3, <1>4, <1>5, <1>6, <1>7 DEF IInv

LEMMA NextInv == ASSUME IInv, [Next]_vars PROVE IInv'
<1>1. CASE Next
  BY <1>1, IntendInv, BeginInv, AnswerInv, SendReserveInv, SendWriteInv, SendWrittenInv,
     WakeReserveInv, DropInv, WakeAskInv, EnqueueInv, RecordInv, EvidenceInv, SweepRingInv,
     SweepExhaustedInv, ProcessInv, RingAgainInv, RingRelinkedInv, PostInv, ClaimAgainInv,
     RelinkInv, MoveInv, CrashInv DEF Next, RingStep, SweepStep
<1>2. CASE UNCHANGED vars
  <2>1. Aside /\ UNCHANGED <<carrier, rung, job>>
    BY <1>2 DEF vars, rowVars, worldVars, queueVars, Aside
  <2>2. RungStays /\ Attempts'
    BY <2>1, AsideFacts, SameAttempts DEF Aside
  <2>. QED  BY <2>1, <2>2, Together DEF Aside
<1>. QED  BY <1>1, <1>2

LEMMA Invariance == Spec => []IInv
BY InitInv, NextInv, PTL DEF Spec
-----------------------------------------------------------------------------
\* Every variable keeps its type: in particular a message is rung again twice
\* at most, and its relinks and the rings under way stay within its
\* generations.
THEOREM TypeCorrect == Spec => []TypeOK
<1>1. IInv => TypeOK
  <2>. SUFFICES ASSUME IInv PROVE TypeOK
    OBVIOUS
  <2>1. ASSUME NEW m \in Messages
        PROVE  /\ Len(binding[m]) \in 0..MaxRelinks + 1 /\ posted[m] = (binding[m] # <<>>)
               /\ rerings[m] \in 0..MaxRerings /\ claims[m] \in 0..MaxRerings
    <3>1. binding[m] \in Seq(Sessions) /\ Len(binding[m]) <= MaxRelinks + 1
      BY DEF IInv, RowsOK
    <3>2. Len(binding[m]) \in 0..MaxRelinks + 1
      BY <3>1, Constants
    <3>3. posted[m] = (binding[m] # <<>>)
      BY DEF IInv, RowsOK
    <3>. QED  BY <3>2, <3>3 DEF IInv, ClaimsOK
  <2>2. ASSUME NEW m \in Messages, NEW i \in 1..Len(outcomes[m])
        PROVE  outcomes[m][i] \in OutcomeRows
    BY DEF IInv, RowsOK
  <2>3. ASSUME NEW m \in Messages, NEW g \in Generations
        PROVE  /\ job[m][g].stage \in Stages /\ carrier[m][g] \in {"none", "reserved", "written"}
               /\ job[m][g].result \in Results \cup {NoResult}
    BY JobFacts DEF IInv, RingTypes, Carriers
  <2>4. named \in Sessions /\ moves \in 0..MaxMoves /\ crashes \in 0..MaxCrashes
    BY DEF IInv, RowsOK
  <2>. QED  BY <2>1, <2>2, <2>3, <2>4 DEF TypeOK, OutcomeRows
<1>. QED  BY <1>1, Invariance, PTL

\* However many ask for a ring and wherever the daemon dies, an attempt puts
\* its doorbell into a session at most once by a way that holds a reservation.
THEOREM OneRingPerAttempt == Spec => []OneDirectRing
<1>1. IInv => OneDirectRing
  <2>. SUFFICES ASSUME IInv, NEW m \in Messages, NEW g \in Generations
                PROVE  Cardinality(Rings(m, g, {"direct"})) <= 1
    BY DEF OneDirectRing
  <2>1. \A i, k \in Rings(m, g, {"direct"}) : i = k
    BY DEF IInv, OnceOK, Rings, Direct
  <2>2. CASE Rings(m, g, {"direct"}) = {}
    BY <2>2, FS_EmptySet
  <2>3. CASE Rings(m, g, {"direct"}) # {}
    <3>1. PICK i : i \in Rings(m, g, {"direct"})
      BY <2>3
    <3>2. Rings(m, g, {"direct"}) = {i}
      BY <2>1, <3>1
    <3>. QED  BY <3>2, FS_Singleton
  <2>. QED  BY <2>2, <2>3
<1>. QED  BY <1>1, Invariance, PTL

\* A doorbell reaches only the session its generation is bound to, also when
\* the alias moves or the Owner relinks while the ring is under way.
THEOREM RingsArriveWhereBound == Spec => []RungWhereBound
<1>1. IInv => RungWhereBound
  BY DEF IInv, RungOK, RungWhereBound
<1>. QED  BY <1>1, Invariance, PTL

\* A row says "sent" only of an attempt whose doorbell did ring.
THEOREM SentIsEarned == Spec => []SentMeansRung
<1>1. IInv => SentMeansRung
  <2>. SUFFICES ASSUME IInv, NEW m \in Messages, NEW i \in 1..Len(outcomes[m]),
                       outcomes[m][i].state = "sent"
                PROVE  Rings(m, outcomes[m][i].gen, {"direct"}) # {}
    BY DEF SentMeansRung
  <2>1. PICK k \in 1..Len(rung) : Direct(k, m, outcomes[m][i].gen)
    BY DEF IInv, RowsEarned, Rang
  <2>2. k \in Rings(m, outcomes[m][i].gen, {"direct"})
    BY <2>1 DEF Rings, Direct
  <2>. QED  BY <2>2
<1>. QED  BY <1>1, Invariance, PTL
-----------------------------------------------------------------------------
\* A reservation is of a generation there is.
CarriedOK == \A m \in Messages, g \in Generations : carrier[m][g] # "none" => g < Len(binding[m])

\* What a step that makes, drops or completes no reservation does to them, and to what rang:
\* a doorbell in the CLI's queue is not one of Delivery's.
QueueOnly ==
    \/ UNCHANGED rung
    \/ \E m \in Messages, g \in Generations, s \in Sessions : Reaches(m, g, s, "queue")

\* Steps that touch no reservation, and no doorbell but in a queue.
Unreserved == UNCHANGED carrier /\ QueueOnly

\* Every step is one of these to the reservations and the doorbells.
Reserves(m, g) ==
    /\ carrier[m][g] = "none" /\ Carry(m, g, "reserved") /\ UNCHANGED <<rung, binding>>
    /\ g < Len(binding[m])
Drops(m, g) ==
    /\ carrier[m][g] = "reserved" /\ Carry(m, g, "none") /\ UNCHANGED <<rung, binding>>
    /\ ~Rang(m, g)
Transmits(m, g) ==
    /\ carrier[m][g] = "reserved" /\ ~Rang(m, g) /\ UNCHANGED <<carrier, binding>>
    /\ Reaches(m, g, binding[m][g + 1], "direct")
Completes(m, g) ==
    /\ Rang(m, g) /\ Carry(m, g, "written") /\ UNCHANGED <<rung, binding>>

LEMMA RingShape ==
    ASSUME IInv, NEW m \in Messages, NEW g \in Generations, RingStep(m, g) \/ Evidence(m, g)
    PROVE  /\ UNCHANGED binding
           /\ Unreserved \/ Reserves(m, g) \/ Drops(m, g) \/ Transmits(m, g) \/ Completes(m, g)
<1>0. UNCHANGED binding
  BY DEF RingStep, Intend, NoteRetry, Begin, SendReplay, SendRefused, SendReserve, SendWrite,
     SendWritten, WakeReplay, WakeReserve, WakeUnanswered, WakeWithdrawn, WakeAsk, WakeKeep,
     QueueRefused, Enqueue, Record, Evidence, rowVars
<1>1. CASE \/ Intend(m, g) \/ NoteRetry(m, g) \/ Begin(m, g) \/ SendReplay(m, g)
           \/ SendRefused(m, g) \/ WakeReplay(m, g) \/ QueueRefused(m, g) \/ Record(m, g)
  <2>1. carrier' = carrier
    BY <1>1 DEF Intend, NoteRetry, Begin, SendReplay, SendRefused, WakeReplay, QueueRefused, Record
  <2>2. rung' = rung
    BY <1>1 DEF Intend, NoteRetry, Begin, SendReplay, SendRefused, WakeReplay, QueueRefused, Record
  <2>. QED  BY <1>0, <2>1, <2>2 DEF Unreserved, QueueOnly
<1>2. CASE (\E s \in Sessions : SendReserve(m, g, s)) \/ WakeReserve(m, g)
  <2>1. PICK s \in {"send", "wake"} : In(m, g, s)
    BY <1>2 DEF SendReserve, WakeReserve
  <2>2. g < Len(binding[m])
    BY <2>1, UnderWay
  <2>. QED  BY <1>0, <1>2, <2>2 DEF SendReserve, WakeReserve, Reserves
<1>3. CASE WakeUnanswered(m, g) \/ WakeWithdrawn(m, g)
  <2>1. carrier[m][g] = "reserved" /\ ~Rang(m, g)
    BY <1>3 DEF WakeUnanswered, WakeWithdrawn, Drop, In, IInv, AttemptsOK, Reserved
  <2>. QED  BY <1>0, <1>3, <2>1 DEF WakeUnanswered, WakeWithdrawn, Drop, Drops
<1>4. CASE SendWrite(m, g) \/ WakeAsk(m, g)
  <2>1. carrier[m][g] = "reserved" /\ ~Rang(m, g)
    BY <1>4 DEF SendWrite, WakeAsk, In, IInv, AttemptsOK, Reserved
  <2>2. SendWrite(m, g) => job[m][g].to = binding[m][g + 1]
    BY DEF SendWrite, In, IInv, AttemptsOK, Placed
  <2>3. UNCHANGED rung \/ Reaches(m, g, binding[m][g + 1], "direct")
    BY <1>4, <2>2 DEF SendWrite, WakeAsk, Exchange
  <2>. QED
    BY <1>0, <1>4, <2>1, <2>3 DEF SendWrite, WakeAsk, Transmits, Unreserved, QueueOnly
<1>5. CASE SendWritten(m, g) \/ WakeKeep(m, g)
  <2>1. Rang(m, g)
    BY <1>5 DEF SendWritten, WakeKeep, In, IInv, AttemptsOK, Reserved
  <2>. QED
    BY <1>0, <1>5, <2>1 DEF SendWritten, WakeKeep, Completes, Unreserved, QueueOnly
<1>6. CASE Evidence(m, g)
  <2>1. PICK i \in 1..Len(rung) : rung[i].msg = m /\ rung[i].gen = g
    BY <1>6 DEF Evidence
  <2>2. rung[i] \in Doorbells
    BY DEF IInv, RingTypes
  <2>3. rung[i].how \in {"direct", "queue"}
    BY <2>2 DEF Doorbells
  <2>4. rung[i].how # "queue"
    BY <1>6, <2>1 DEF Evidence, IInv, RungOK
  <2>5. Rang(m, g)
    BY <2>1, <2>3, <2>4 DEF Rang, Direct
  <2>. QED  BY <1>0, <1>6, <2>5 DEF Evidence, Completes
<1>7. CASE Enqueue(m, g)
  <2>1. binding[m][g + 1] \in Sessions
    BY <1>7, UnderWay DEF Enqueue
  <2>. QED  BY <1>0, <1>7, <2>1 DEF Enqueue, Exchange, Unreserved, QueueOnly
<1>. QED  BY <1>0, <1>1, <1>2, <1>3, <1>4, <1>5, <1>6, <1>7 DEF RingStep

\* A relink adds a generation, a post the first one; nothing else touches the bindings.
LEMMA OtherShape ==
    ASSUME IInv, [Next]_vars, ~ \E m \in Messages, g \in Generations : RingStep(m, g) \/ Evidence(m, g)
    PROVE  UNCHANGED <<carrier, rung>> /\ BindingsStay
<1>1. UNCHANGED <<carrier, rung>>
  <2>1. ASSUME NEW m \in Messages, SweepStep(m) PROVE UNCHANGED <<carrier, rung>>
    BY <2>1 DEF SweepStep, SweepIntent, SweepRetry, SweepExhausted, SweepAlert, Alarm
  <2>2. ASSUME NEW m \in Messages,
               RingAgain(m) \/ RingRelinked(m) \/ Post(m) \/ ClaimAgain(m) \/ Relink(m) \/ Process(m)
        PROVE  UNCHANGED <<carrier, rung>>
    BY <2>2 DEF RingAgain, RingRelinked, Post, ClaimAgain, Relink, Process
  <2>3. ASSUME (\E s \in Sessions : Move(s)) \/ Crash \/ UNCHANGED vars
        PROVE  UNCHANGED <<carrier, rung>>
    BY <2>3 DEF Move, Crash, vars
  <2>. QED  BY <2>1, <2>2, <2>3 DEF Next
<1>2. CASE UNCHANGED binding
  BY <1>1, <1>2, SameBinding DEF IInv
<1>3. CASE ~UNCHANGED binding
  <2>1. PICK m \in Messages : Post(m) \/ Relink(m)
    <3>1. ASSUME NEW m \in Messages, SweepStep(m) PROVE UNCHANGED binding
      BY <3>1 DEF SweepStep, SweepIntent, SweepRetry, SweepExhausted, SweepAlert, Alarm, rowVars
    <3>2. ASSUME NEW m \in Messages, RingAgain(m) \/ RingRelinked(m) \/ ClaimAgain(m) \/ Process(m)
          PROVE  UNCHANGED binding
      BY <3>2 DEF RingAgain, RingRelinked, ClaimAgain, Process, rowVars
    <3>3. ASSUME (\E s \in Sessions : Move(s)) \/ Crash \/ UNCHANGED vars
          PROVE  UNCHANGED binding
      BY <3>3 DEF Move, Crash, vars, rowVars
    <3>. QED  BY <1>3, <3>1, <3>2, <3>3 DEF Next
  <2>2. PICK s \in Sessions : binding' = [binding EXCEPT ![m] = Append(binding[m], s)]
    <3>1. CASE Post(m)
      <4>1. binding[m] = <<>> /\ named \in Sessions
        BY <3>1 DEF Post, IInv, RowsOK
      <4>2. Append(binding[m], named) = <<named>>
        BY <4>1
      <4>3. binding' = [binding EXCEPT ![m] = <<named>>]
        BY <3>1 DEF Post
      <4>. QED  BY <4>1, <4>2, <4>3
    <3>2. CASE Relink(m)
      BY <3>2 DEF Relink, IInv, RowsOK
    <3>. QED  BY <2>1, <3>1, <3>2
  <2>. QED  BY <1>1, <2>2, AppendBinding DEF IInv
<1>. QED  BY <1>1, <1>2, <1>3

LEMMA NextCarried == ASSUME IInv, CarriedOK, [Next]_vars PROVE CarriedOK'
<1>1. ASSUME NEW m \in Messages, NEW g \in Generations, RingStep(m, g) \/ Evidence(m, g)
      PROVE  CarriedOK'
  <2>1. UNCHANGED binding
    BY <1>1, RingShape
  <2>2. CASE Unreserved \/ Transmits(m, g)
    BY <2>1, <2>2 DEF CarriedOK, Unreserved, Transmits
  <2>3. CASE Reserves(m, g) \/ Drops(m, g) \/ Completes(m, g)
    <3>1. PICK c \in Carriers : Carry(m, g, c)
      BY <2>3 DEF Reserves, Drops, Completes, Carriers
    <3>2. g < Len(binding[m])
      BY <2>3 DEF Reserves, Drops, Completes, CarriedOK, IInv, AttemptsOK, Reserved
    <3>3. \A n \in Messages, h \in Generations : <<n, h>> # <<m, g>> => carrier'[n][h] = carrier[n][h]
      BY <3>1 DEF Carry, IInv, RingTypes
    <3>. QED  BY <2>1, <3>2, <3>3 DEF CarriedOK
  <2>. QED  BY <1>1, <2>2, <2>3, RingShape
<1>2. CASE ~ \E m \in Messages, g \in Generations : RingStep(m, g) \/ Evidence(m, g)
  <2>1. UNCHANGED carrier /\ BindingsStay
    BY <1>2, OtherShape
  <2>. SUFFICES ASSUME NEW m \in Messages, NEW g \in Generations, carrier[m][g] # "none"
                PROVE  g < Len(binding'[m])
    BY <2>1 DEF CarriedOK
  <2>2. g < Len(binding[m]) /\ g \in Nat
    BY Constants DEF CarriedOK
  <2>. QED  BY <2>1, <2>2 DEF BindingsStay
<1>. QED  BY <1>1, <1>2
-----------------------------------------------------------------------------
\* The variables of Delivery, as the reservations, the bindings and the doorbells give them.
RequestAt(m, g) == IF carrier[m][g] = "none" THEN [content |-> "none"]
                   ELSE [content |-> "doorbell", to |-> binding[m][g + 1]]
OutcomeAt(m, g) == [v \in {"first", "second"} |->
                      IF v = "first" /\ carrier[m][g] = "written" THEN "written" ELSE "none"]
FrameAt(i) == [id |-> i, msg |-> <<rung[i].msg, rung[i].gen>>, via |-> "first",
               to |-> rung[i].session, content |-> "doorbell"]
Directs == {k \in DOMAIN rung : rung[k].how = "direct"}
Taken == [a \in Attempted |-> RequestAt(a[1], a[2])]
Outcomes == [a \in Attempted |-> OutcomeAt(a[1], a[2])]
LeftFrames == {FrameAt(i) : i \in Directs}

\* Reservations that stay, with the sessions of the generations that have one, stay for Delivery.
LEMMA SameTaken ==
    ASSUME IInv, CarriedOK, BindingsStay, UNCHANGED carrier
    PROVE  Taken' = Taken /\ Outcomes' = Outcomes
<1>1. ASSUME NEW m \in Messages, NEW g \in Generations
      PROVE  RequestAt(m, g)' = RequestAt(m, g) /\ OutcomeAt(m, g)' = OutcomeAt(m, g)
  <2>1. CASE carrier[m][g] = "none"
    BY <2>1 DEF RequestAt, OutcomeAt
  <2>2. CASE carrier[m][g] # "none"
    <3>1. g < Len(binding[m]) /\ Len(binding[m]) \in Nat /\ g \in Nat
      BY <2>2, Constants DEF CarriedOK, BindingsStay
    <3>2. binding'[m][g + 1] = binding[m][g + 1]
      BY <3>1 DEF BindingsStay
    <3>. QED  BY <3>2 DEF RequestAt, OutcomeAt
  <2>. QED  BY <2>1, <2>2
<1>2. \A a \in Attempted : a[1] \in Messages /\ a[2] \in Generations
  BY DEF Attempted
<1>. QED  BY <1>1, <1>2 DEF Taken, Outcomes

\* A reservation that changes is one attempt's.
LEMMA OneTaken ==
    ASSUME IInv, NEW m \in Messages, NEW g \in Generations, NEW c \in Carriers,
           Carry(m, g, c), UNCHANGED binding
    PROVE  /\ Taken' = [Taken EXCEPT ![<<m, g>>] = RequestAt(m, g)']
           /\ Outcomes' = [Outcomes EXCEPT ![<<m, g>>] = OutcomeAt(m, g)']
           /\ <<m, g>> \in Attempted /\ carrier'[m][g] = c
<1>1. carrier'[m][g] = c
  BY DEF Carry, IInv, RingTypes
<1>2. ASSUME NEW n \in Messages, NEW h \in Generations, <<n, h>> # <<m, g>>
      PROVE  RequestAt(n, h)' = RequestAt(n, h) /\ OutcomeAt(n, h)' = OutcomeAt(n, h)
  <2>1. carrier'[n][h] = carrier[n][h]
    BY <1>2 DEF Carry, IInv, RingTypes
  <2>. QED  BY <2>1 DEF RequestAt, OutcomeAt
<1>3. \A a \in Attempted : a[1] \in Messages /\ a[2] \in Generations /\ a = <<a[1], a[2]>>
  BY DEF Attempted
<1>4. <<m, g>> \in Attempted
  BY DEF Attempted
<1>. QED  BY <1>1, <1>2, <1>3, <1>4 DEF Taken, Outcomes

\* An attempt has left for Delivery when it rang.
LEMMA UnderIsRang ==
    ASSUME IInv, NEW m \in Messages, NEW g \in Generations
    PROVE  (Promised!Under(<<m, g>>, "first") # {}) <=> Rang(m, g)
<1>1. DOMAIN rung = 1..Len(rung)
  BY DEF IInv, RingTypes
<1>2. Promised!Under(<<m, g>>, "first") =
        {f \in LeftFrames : f.msg = <<m, g>> /\ f.via = "first"}
  BY DEF Promised!Under, LeftFrames, FrameAt, Directs
<1>3. \A i \in Directs : (FrameAt(i).msg = <<m, g>>) <=> Direct(i, m, g)
  BY DEF FrameAt, Direct, Directs
<1>4. \A i \in Directs : FrameAt(i).via = "first"
  BY DEF FrameAt
<1>5. \A i \in 1..Len(rung) : Direct(i, m, g) => i \in Directs
  BY <1>1 DEF Direct, Directs
<1>6. Directs \subseteq 1..Len(rung)
  BY <1>1 DEF Directs
<1>. QED  BY <1>2, <1>3, <1>4, <1>5, <1>6 DEF LeftFrames, Rang

\* A doorbell in a queue is no frame; a direct one is one more.
LEMMA RungFrames ==
    ASSUME IInv, NEW m \in Messages, NEW g \in Generations, NEW s \in Sessions,
           NEW how \in {"direct", "queue"}, Reaches(m, g, s, how)
    PROVE  LeftFrames' = IF how = "queue" THEN LeftFrames
             ELSE LeftFrames \cup {[id |-> Len(rung) + 1, msg |-> <<m, g>>, via |-> "first",
                                    to |-> s, content |-> "doorbell"]}
<1>. DEFINE n == Len(rung)
            x == [msg |-> m, gen |-> g, session |-> s, how |-> how]
<1>1. rung \in Seq(Doorbells) /\ rung' = Append(rung, x)
  BY DEF IInv, RingTypes, Reaches
<1>2. /\ n \in Nat /\ DOMAIN rung = 1..n /\ DOMAIN rung' = 1..(n + 1) /\ rung'[n + 1] = x
      /\ \A i \in 1..n : rung'[i] = rung[i]
  BY <1>1
<1>3. \A i \in 1..n : FrameAt(i)' = FrameAt(i)
  BY <1>2 DEF FrameAt
<1>4. Directs' = IF how = "queue" THEN Directs ELSE Directs \cup {n + 1}
  BY <1>2 DEF Directs
<1>5. \A i : i = n + 1 => FrameAt(i)' = [id |-> n + 1, msg |-> <<m, g>>, via |-> "first",
                                         to |-> s, content |-> "doorbell"]
  BY <1>2 DEF FrameAt
<1>6. Directs \subseteq 1..n
  BY <1>2 DEF Directs
<1>. QED  BY <1>3, <1>4, <1>5, <1>6 DEF LeftFrames

LEMMA Stutters ==
    ASSUME Taken' = Taken, Outcomes' = Outcomes, LeftFrames' = LeftFrames
    PROVE  UNCHANGED Promised!deliveryVars
BY DEF Promised!deliveryVars, Taken, Outcomes, LeftFrames, RequestAt, OutcomeAt, FrameAt, Directs

LEMMA IsStep ==
    ASSUME NEW a \in Attempted
    PROVE  /\ Promised!Reserve(a) \/ Promised!Drop(a) => Promised!DeliveryNext
           /\ Promised!Transmit(a, "first") => Promised!DeliveryNext
           /\ Promised!Settle(a, "first", "written") => Promised!DeliveryNext
BY DEF Promised!DeliveryNext, Promised!Vias

LEMMA RingRefines ==
    ASSUME IInv, CarriedOK, NEW m \in Messages, NEW g \in Generations,
           RingStep(m, g) \/ Evidence(m, g)
    PROVE  Promised!DeliveryNext \/ UNCHANGED Promised!deliveryVars
<1>. DEFINE a == <<m, g>>
<1>0. /\ UNCHANGED binding /\ BindingsStay /\ a \in Attempted
      /\ Unreserved \/ Reserves(m, g) \/ Drops(m, g) \/ Transmits(m, g) \/ Completes(m, g)
  BY RingShape, SameBinding DEF IInv, Attempted
<1>1. /\ Taken[a] = RequestAt(m, g) /\ Outcomes[a] = OutcomeAt(m, g)
  BY DEF Taken, Outcomes, Attempted
<1>2. CASE Unreserved
  <2>1. LeftFrames' = LeftFrames
    <3>1. CASE UNCHANGED rung
      BY <3>1 DEF LeftFrames, FrameAt, Directs
    <3>2. CASE \E n \in Messages, h \in Generations, s \in Sessions : Reaches(n, h, s, "queue")
      BY <3>2, RungFrames
    <3>. QED  BY <1>2, <3>1, <3>2 DEF Unreserved, QueueOnly
  <2>. QED  BY <1>0, <1>2, <2>1, SameTaken, Stutters DEF Unreserved
<1>3. CASE Reserves(m, g)
  <2>. DEFINE to == binding[m][g + 1]
  <2>1. to \in Sessions
    <3>1. binding[m] \in Seq(Sessions) /\ g \in Nat /\ g < Len(binding[m])
      BY <1>3, Constants DEF Reserves, IInv, RowsOK
    <3>. QED  BY <3>1
  <2>2. carrier[m][g] = "none" /\ carrier'[m][g] = "reserved"
    BY <1>3, OneTaken DEF Reserves, Carriers
  <2>3. /\ RequestAt(m, g) = [content |-> "none"] /\ OutcomeAt(m, g)' = OutcomeAt(m, g)
        /\ RequestAt(m, g)' = [content |-> "doorbell", to |-> to]
    BY <1>0, <2>2 DEF RequestAt, OutcomeAt
  <2>4. /\ Taken' = [Taken EXCEPT ![a] = [content |-> "doorbell", to |-> to]]
        /\ Outcomes' = [Outcomes EXCEPT ![a] = OutcomeAt(m, g)]
    BY <1>0, <1>3, <2>3, OneTaken DEF Reserves, Carriers
  <2>5. Outcomes' = Outcomes /\ LeftFrames' = LeftFrames
    BY <1>1, <1>3, <2>4 DEF Outcomes, Reserves, LeftFrames, FrameAt, Directs
  <2>6. Promised!Reserve(a)
    BY <1>1, <2>1, <2>3, <2>4, <2>5
    DEF Promised!Reserve, Promised!None, Taken, Outcomes, LeftFrames, RequestAt, OutcomeAt,
        FrameAt, Directs
  <2>. QED  BY <1>0, <2>6, IsStep
<1>4. CASE Drops(m, g)
  <2>1. carrier[m][g] = "reserved" /\ carrier'[m][g] = "none" /\ ~Rang(m, g)
    BY <1>4, OneTaken DEF Drops, Carriers
  <2>2. /\ OutcomeAt(m, g)["first"] = "none" /\ OutcomeAt(m, g)' = OutcomeAt(m, g)
        /\ RequestAt(m, g)' = [content |-> "none"]
    BY <2>1 DEF RequestAt, OutcomeAt
  <2>3. /\ Taken' = [Taken EXCEPT ![a] = [content |-> "none"]]
        /\ Outcomes' = [Outcomes EXCEPT ![a] = OutcomeAt(m, g)]
    BY <1>0, <1>4, <2>2, OneTaken DEF Drops, Carriers
  <2>4. Outcomes' = Outcomes /\ LeftFrames' = LeftFrames
    BY <1>1, <1>4, <2>3 DEF Outcomes, Drops, LeftFrames, FrameAt, Directs
  <2>5. Promised!Under(a, "first") = {}
    BY <2>1, UnderIsRang
  <2>6. Promised!Drop(a)
    BY <1>0, <1>1, <2>2, <2>3, <2>4, <2>5
    DEF Promised!Drop, Promised!None, Taken, Outcomes, LeftFrames, RequestAt, OutcomeAt,
        FrameAt, Directs
  <2>. QED  BY <1>0, <2>6, IsStep
<1>5. CASE Transmits(m, g)
  <2>. DEFINE to == binding[m][g + 1]
  <2>1. PICK s \in Sessions : s = to
    <3>1. binding[m] \in Seq(Sessions) /\ g \in Nat /\ g < Len(binding[m])
      BY <1>5, Constants DEF Transmits, CarriedOK, IInv, RowsOK
    <3>. QED  BY <3>1
  <2>2. PICK n : n = Len(rung) + 1
    OBVIOUS
  <2>. DEFINE f == [id |-> n, msg |-> a, via |-> "first", to |-> s, content |-> "doorbell"]
  <2>3. LeftFrames' = LeftFrames \cup {f}
    BY <1>5, <2>1, <2>2, RungFrames DEF Transmits
  <2>4. Taken' = Taken /\ Outcomes' = Outcomes
    BY <1>0, <1>5, SameTaken DEF Transmits
  <2>5. Taken[a] = [content |-> "doorbell", to |-> s] /\ Outcomes[a]["first"] = "none"
    BY <1>1, <1>5, <2>1 DEF Transmits, RequestAt, OutcomeAt
  <2>6. Promised!Under(a, "first") = {}
    BY <1>5, UnderIsRang DEF Transmits
  <2>7. \E h \in LeftFrames' :
            /\ LeftFrames' = LeftFrames \cup {h} /\ h.msg = a /\ h.via = "first"
            /\ h.content = Taken[a].content /\ h.to = Taken[a].to
    <3>1. f.msg = a /\ f.via = "first" /\ f.content = "doorbell" /\ f.to = s
      OBVIOUS
    <3>2. Taken[a].content = "doorbell" /\ Taken[a].to = s
      BY <2>5
    <3>. HIDE DEF f, a
    <3>. QED  BY <2>3, <3>1, <3>2
  <2>8. Taken[a] # [content |-> "none"]
    <3>1. DOMAIN Taken[a] # DOMAIN [content |-> "none"]
      BY <2>5
    <3>. QED  BY <3>1
  <2>9. Promised!Transmit(a, "first")
    <3>. HIDE DEF f, a
    <3>. QED
      BY <2>4, <2>5, <2>6, <2>7, <2>8
      DEF Promised!Transmit, Promised!Allowed, Promised!None, Taken, Outcomes, LeftFrames,
          RequestAt, OutcomeAt, FrameAt, Directs
  <2>. QED  BY <1>0, <2>9, IsStep
<1>6. CASE Completes(m, g)
  <2>1. carrier[m][g] # "none" /\ carrier'[m][g] = "written" /\ Rang(m, g)
    <3>1. Carry(m, g, "written") /\ UNCHANGED binding /\ Rang(m, g)
      BY <1>6 DEF Completes
    <3>2. carrier'[m][g] = "written"
      BY <3>1, OneTaken DEF Carriers
    <3>3. Reserved(m, g)
      BY DEF IInv, AttemptsOK
    <3>. QED  BY <3>1, <3>2, <3>3 DEF Reserved
  <2>2. RequestAt(m, g)' = RequestAt(m, g)
    BY <1>0, <2>1 DEF RequestAt
  <2>3. LeftFrames' = LeftFrames
    BY <1>6 DEF Completes, LeftFrames, FrameAt, Directs
  <2>4. Taken' = Taken
    <3>1. Taken' = [Taken EXCEPT ![a] = RequestAt(m, g)]
      BY <1>0, <1>6, <2>2, OneTaken DEF Completes, Carriers
    <3>. QED  BY <1>1, <3>1 DEF Taken
  <2>5. Outcomes' = [Outcomes EXCEPT ![a] = OutcomeAt(m, g)']
    BY <1>6, OneTaken DEF Completes, Carriers
  <2>6. CASE carrier[m][g] = "written"
    <3>1. OutcomeAt(m, g)' = OutcomeAt(m, g)
      BY <2>1, <2>6 DEF OutcomeAt
    <3>2. Outcomes' = Outcomes
      BY <1>1, <2>5, <3>1 DEF Outcomes
    <3>. QED  BY <2>3, <2>4, <3>2, Stutters
  <2>7. CASE carrier[m][g] # "written"
    <3>1. /\ OutcomeAt(m, g)["first"] = "none"
          /\ OutcomeAt(m, g)' = [OutcomeAt(m, g) EXCEPT !["first"] = "written"]
      BY <2>1, <2>7 DEF OutcomeAt
    <3>2. Outcomes' = [Outcomes EXCEPT ![a]["first"] = "written"]
      BY <1>0, <1>1, <2>5, <3>1
    <3>3. Promised!Under(a, "first") # {}
      BY <2>1, UnderIsRang
    <3>4. Taken[a] # [content |-> "none"]
      <4>1. Taken[a] = [content |-> "doorbell", to |-> binding[m][g + 1]]
        BY <1>1, <2>1 DEF RequestAt
      <4>2. DOMAIN Taken[a] # DOMAIN [content |-> "none"]
        BY <4>1
      <4>. QED  BY <4>2
    <3>5. Promised!Settle(a, "first", "written")
      <4>. HIDE DEF a
      <4>. QED
        BY <1>1, <2>3, <2>4, <3>1, <3>2, <3>3, <3>4
        DEF Promised!Settle, Promised!Allowed, Promised!None, Taken, Outcomes, LeftFrames,
            RequestAt, OutcomeAt, FrameAt, Directs
    <3>. QED  BY <1>0, <3>5, IsStep
  <2>. QED  BY <2>6, <2>7
<1>. QED  BY <1>0, <1>2, <1>3, <1>4, <1>5, <1>6

LEMMA StepRefines ==
    ASSUME IInv, CarriedOK, [Next]_vars
    PROVE  Promised!DeliveryNext \/ UNCHANGED Promised!deliveryVars
<1>1. CASE \E m \in Messages, g \in Generations : RingStep(m, g) \/ Evidence(m, g)
  BY <1>1, RingRefines
<1>2. CASE ~ \E m \in Messages, g \in Generations : RingStep(m, g) \/ Evidence(m, g)
  <2>1. UNCHANGED <<carrier, rung>> /\ BindingsStay
    BY <1>2, OtherShape
  <2>2. LeftFrames' = LeftFrames
    BY <2>1 DEF LeftFrames, FrameAt, Directs
  <2>. QED  BY <2>1, <2>2, SameTaken, Stutters
<1>. QED  BY <1>1, <1>2

LEMMA DeliveryBegins == ASSUME Init PROVE Promised!DeliveryInit
<1>1. rung = <<>> /\ \A m \in Messages, g \in Generations : carrier[m][g] = "none"
  BY DEF Init
<1>2. \A a \in Attempted : a[1] \in Messages /\ a[2] \in Generations
  BY DEF Attempted
<1>3. Directs = {}
  BY <1>1 DEF Directs
<1>. QED
  BY <1>1, <1>2, <1>3 DEF Promised!DeliveryInit, Promised!None, Promised!Vias, Directs

\* Ring, retry, relink, crash: every attempt keeps to Delivery in what holds a reservation.
THEOREM DoorbellImplementsDelivery == Spec => ImplementsDelivery
<1>1. Init => Promised!DeliveryInit
  BY DeliveryBegins
<1>2. Init => CarriedOK
  BY DEF Init, CarriedOK
<1>3. IInv /\ CarriedOK /\ [Next]_vars => CarriedOK'
  BY NextCarried
<1>4. IInv /\ CarriedOK /\ [Next]_vars => [Promised!DeliveryNext]_(Promised!deliveryVars)
  BY StepRefines
<1>. QED  BY <1>1, <1>2, <1>3, <1>4, Invariance, PTL
          DEF Spec, ImplementsDelivery, Promised!DeliverySpec
=============================================================================
