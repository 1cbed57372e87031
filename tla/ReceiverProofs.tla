--------------------------- MODULE ReceiverProofs ---------------------------
(***************************************************************************)
(* Proofs about Receiver for any pids, connections and bounds: its type    *)
(* invariant, that a stop which ends clean has left no frame undone, and   *)
(* that a reclaim removes the files of the dead and no others.  That a     *)
(* stop ends stays with TLC.                                               *)
(***************************************************************************)
EXTENDS Receiver, TLAPS

Claims == {NoClaim} \cup [pid : Pids, raw : Lives, at : 1..4]
Seen == {Cardinality(S) : S \in SUBSET Conns} \cup {0}
Drains == [stage : {"none", "sleep", "settle"}, quiet : 0..2, seen : Seen,
           look : [Conns -> 0..MaxFrames]]
ConnStates == [stage : {"none", "backlog", "open", "gone"}, sent : 0..MaxFrames,
               read : 0..MaxFrames, done : 0..MaxFrames, refusing : BOOLEAN]
Fates == [1..MaxFrames -> SUBSET {"recorded", "refused", "named"}]

\* What TypeOK leaves open of the daemon that runs.
LifeTypes ==
    /\ phase \in Phases /\ gen \in 0..MaxStarts /\ pid \in Pids \cup {Nobody}
    /\ pidOf \in [Lives -> Pids \cup {Nobody}] /\ exit \in Reasons
    /\ todo \subseteq Pids /\ claim \in Claims

\* A daemon that runs has a number, a pid and no end yet; only one that
\* starts looks at the rows of others.
LifeOK ==
    /\ phase # "off" => gen # 0 /\ exit = "none"
    /\ exit # "none" => gen # 0
    /\ gen # 0 => pid \in Pids /\ pidOf[gen] = pid
    /\ \A g \in 1..gen : pidOf[g] \in Pids
    /\ phase # "reclaim" => claim = NoClaim

\* Nothing on disk or in memory is of a daemon to come.
FileTypes ==
    /\ socket \in 0..gen /\ key \in [Pids -> 0..gen]
    /\ row \in [Pids -> 0..gen \cup {Other}]
    /\ torn \subseteq 1..gen /\ recycled \subseteq 1..gen /\ foreign \subseteq Pids

\* A daemon comes by the socket, the key and the row in this order, and
\* keeps the socket until it removes its files.
FilesOK ==
    /\ phase = "reclaim" => socket # gen
    /\ phase \in {"reclaim", "publish"} => row[pid] # gen
    /\ Listening \/ phase = "reporting" => socket = gen
    /\ phase = "removing" => socket \in {gen, Nobody}
    /\ Listening /\ row[pid] = gen => key[pid] = gen

\* Whoever has the pid of an earlier daemon has made it a reused one.
PidsOK ==
    /\ \A p \in foreign : Former(p) \subseteq recycled
    /\ phase # "off" => pid \notin foreign /\ Former(pid) \subseteq recycled \cup {gen}

\* The socket of a dead daemon has the row of its maker beside it, which a
\* start that looks at the rows has yet to come to.
SocketOK ==
    /\ socket # Nobody /\ (socket # gen \/ phase = "off") /\ socket \notin torn \cup recycled =>
           /\ row[pidOf[socket]] = socket
           /\ phase = "reclaim" =>
                  pidOf[socket] \in todo \/ (claim.pid = pidOf[socket] /\ claim.at = 1)
    /\ claim.at > 1 => socket = Nobody

\* What TypeOK leaves open of the frames, the drain and the ledger.
FrameTypes ==
    /\ ledger \in {"ok", "poisoned", "stuck"} /\ conn \in [Conns -> ConnStates]
    /\ fate \in [Conns -> Fates] /\ drain \in Drains
    /\ missed \in BOOLEAN /\ removing \subseteq Artifacts

\* Frames are handled in order and each leaves a row as long as rows are taken;
\* a stop without anything to report has handled them all.
FramesOK ==
    /\ \A c \in Conns : conn[c].done <= conn[c].read /\ conn[c].read <= conn[c].sent
    /\ ledger = "ok" => \A c \in Conns : \A i \in 1..conn[c].done : fate[c][i] # {}
    /\ drain.stage = "settle" => drain.quiet < 2
    /\ phase = "removing" => \A c \in Conns : conn[c].stage \in {"none", "gone"}
    /\ phase = "reporting" => missed
    /\ phase = "removing" /\ ~missed => \A c \in Conns : conn[c].done = conn[c].read

\* What the closing receiver has removed, it has not got.
RemovedOK ==
    phase = "removing" /\ ~missed =>
        /\ "socket" \notin removing => socket # gen
        /\ "row" \notin removing => row[pid] # gen
        /\ "key" \notin removing => key[pid] # gen

\* The directory and who has it; the frames and the stop.
DirOK == LifeTypes /\ LifeOK /\ FileTypes /\ FilesOK /\ PidsOK /\ SocketOK /\ ReclaimIsExact
StopOK == FrameTypes /\ FramesOK /\ RemovedOK /\ CleanMeansDone
IInv == DirOK /\ StopOK

dirVars == <<phase, gen, pid, pidOf, socket, row, key, todo, claim, foreign, exit, torn, recycled>>
stopVars == <<ledger, conn, fate, drain, missed, removing>>
-----------------------------------------------------------------------------
LEMMA Constants ==
    /\ MaxFrames \in Nat /\ MaxStarts \in Nat /\ Nobody = 0 /\ Other = MaxStarts + 1
    /\ Lives = 1..MaxStarts
    /\ NoClaim \in Claims /\ NoClaim.at = 0 /\ NoConn \in ConnStates /\ NoDrain \in Drains
    /\ NoDrain.stage = "none"
<1>. USE ReceiverAssumption DEF Nobody, Other, Lives
<1>1. NoClaim \in Claims /\ NoClaim.at = 0
  BY DEF NoClaim, Claims
<1>2. NoConn \in ConnStates
  BY DEF NoConn, ConnStates
<1>3. NoDrain \in Drains /\ NoDrain.stage = "none"
  BY DEF NoDrain, Drains, Seen
<1>. QED  BY <1>1, <1>2, <1>3

\* What only touches frames leaves the directory in order.
LEMMA DirSame == ASSUME DirOK, UNCHANGED dirVars PROVE DirOK'
<1>. USE DEF dirVars
<1>1. LifeTypes' /\ LifeOK'
  BY DEF DirOK, LifeTypes, LifeOK
<1>2. FileTypes' /\ FilesOK'
  BY DEF DirOK, FileTypes, FilesOK, Listening
<1>3. PidsOK'
  BY DEF DirOK, PidsOK, Former
<1>4. SocketOK'
  BY DEF DirOK, SocketOK
<1>5. ReclaimIsExact'
  BY DEF DirOK, ReclaimIsExact, Listening
<1>. QED  BY <1>1, <1>2, <1>3, <1>4, <1>5 DEF DirOK

\* What only touches the directory, before a stop, leaves the frames in order.
LEMMA StopSame ==
    ASSUME StopOK, UNCHANGED stopVars, phase' \notin {"removing", "reporting"}, exit' # "clean"
    PROVE  StopOK'
<1>. USE DEF stopVars
<1>1. FrameTypes'
  BY DEF StopOK, FrameTypes
<1>2. FramesOK'
  BY DEF StopOK, FramesOK
<1>3. RemovedOK' /\ CleanMeansDone'
  BY DEF RemovedOK, CleanMeansDone
<1>. QED  BY <1>1, <1>2, <1>3 DEF StopOK
-----------------------------------------------------------------------------
LEMMA InitInv == Init => IInv
<1>. SUFFICES ASSUME Init PROVE IInv
  OBVIOUS
<1>. USE Constants DEF Init
<1>1. LifeTypes /\ LifeOK
  BY DEF LifeTypes, LifeOK, Phases, Reasons
<1>2. FileTypes /\ FilesOK /\ PidsOK /\ SocketOK
  BY DEF FileTypes, FilesOK, PidsOK, SocketOK, Former, Listening
<1>3. ReclaimIsExact
  BY DEF ReclaimIsExact, Listening
<1>4. FrameTypes
  BY DEF FrameTypes, Fates
<1>5. \A c \in Conns : conn[c].done = 0 /\ conn[c].read = 0 /\ conn[c].sent = 0
  BY DEF NoConn
<1>6. FramesOK
  BY <1>5 DEF FramesOK
<1>7. RemovedOK /\ CleanMeansDone
  BY DEF RemovedOK, CleanMeansDone
<1>. QED  BY <1>1, <1>2, <1>3, <1>4, <1>6, <1>7 DEF IInv, DirOK, StopOK
-----------------------------------------------------------------------------
\* Numbers of daemons, and the pids of those there were.
LEMMA Past ==
    ASSUME IInv
    PROVE  /\ gen \in 0..MaxStarts /\ gen \in Nat /\ gen < Other
           /\ socket \in 0..gen /\ (phase \notin {"off", "reclaim"} => socket \in {gen, Nobody})
           /\ socket # Nobody => pidOf[socket] \in Pids /\ socket \in Former(pidOf[socket])
           /\ phase # "off" => pid \in Pids /\ gen # 0 /\ gen \in Lives /\ exit = "none"
           /\ DirOK /\ StopOK
<1>. USE Constants DEF IInv, DirOK
<1>1. gen \in 0..MaxStarts /\ gen \in Nat /\ gen < Other
  BY DEF LifeTypes
<1>2. socket \in 0..gen
  BY DEF FileTypes
<1>3. phase \notin {"off", "reclaim"} => socket \in {gen, Nobody}
  BY DEF FilesOK, LifeTypes, Phases, Listening
<1>4. socket # Nobody => pidOf[socket] \in Pids /\ socket \in Former(pidOf[socket])
  BY <1>1, <1>2 DEF LifeOK, Former
<1>5. phase # "off" => pid \in Pids /\ gen # 0 /\ gen \in Lives /\ exit = "none"
  BY <1>1 DEF LifeOK
<1>. QED  BY <1>1, <1>2, <1>3, <1>4, <1>5

\* A daemon that starts has looked at the row of a pid that somebody has, or
\* at one that is not of a daemon: the socket there is is not of that row.
LEMMA Skipped ==
    ASSUME IInv, NEW p \in Pids, phase = "reclaim", row[p] \notin Lives \/ ~Dead(p),
           socket # Nobody, socket \notin torn \cup recycled
    PROVE  pidOf[socket] # p
<1>1. SUFFICES ASSUME pidOf[socket] = p PROVE FALSE
  OBVIOUS
<1>2. socket \in Former(p) /\ socket # gen /\ socket \in Lives
  BY <1>1, Past, Constants DEF IInv, DirOK, FilesOK
<1>3. row[p] = socket
  BY <1>1, <1>2 DEF IInv, DirOK, SocketOK
<1>4. p = pid \/ p \in foreign
  BY <1>2, <1>3 DEF Dead
<1>. QED  BY <1>2, <1>4 DEF IInv, DirOK, PidsOK

LEMMA SkipRowInv == ASSUME IInv, NEW p \in Pids, SkipRow(p) PROVE IInv'
<1>. USE DEF SkipRow, lifeVars, fileVars, frameVars, closeVars, historyVars
<1>. USE Past
<1>1. LifeTypes' /\ LifeOK'
  BY DEF DirOK, LifeTypes, LifeOK
<1>2. FileTypes' /\ FilesOK' /\ ReclaimIsExact'
  BY DEF DirOK, FileTypes, FilesOK, ReclaimIsExact, Listening
<1>3. PidsOK'
  BY DEF DirOK, PidsOK, Former
<1>4. SocketOK'
  BY Skipped DEF DirOK, SocketOK
<1>5. StopOK'
  BY StopSame DEF stopVars
<1>. QED  BY <1>1, <1>2, <1>3, <1>4, <1>5 DEF IInv, DirOK

LEMMA ClaimRowInv == ASSUME IInv, NEW p \in Pids, ClaimRow(p) PROVE IInv'
<1>. USE DEF ClaimRow, lifeVars, fileVars, frameVars, closeVars, historyVars
<1>. USE Past, Constants
<1>0. claim' \in Claims /\ claim'.pid = p /\ claim'.at = 1
  BY DEF Claims
<1>1. LifeTypes' /\ LifeOK'
  BY <1>0 DEF DirOK, LifeTypes, LifeOK
<1>2. FileTypes' /\ FilesOK' /\ ReclaimIsExact'
  BY DEF DirOK, FileTypes, FilesOK, ReclaimIsExact, Listening
<1>3. PidsOK'
  BY DEF DirOK, PidsOK, Former
<1>4. SocketOK'
  BY <1>0 DEF DirOK, SocketOK
<1>5. StopOK'
  BY StopSame DEF stopVars
<1>. QED  BY <1>1, <1>2, <1>3, <1>4, <1>5 DEF IInv, DirOK

\* Where a reclaim is in its order, and where it goes on.
LEMMA ClaimFacts ==
    ASSUME IInv
    PROVE  /\ claim \in Claims
           /\ claim # NoClaim => /\ claim.pid \in Pids /\ claim.raw \in Lives /\ claim.at \in 1..4
                                 /\ phase = "reclaim"
           /\ At("socket") => claim.at = 1
           /\ At("reread") => claim.at = 2
           /\ At("row") => claim.at = 3
           /\ At("key") => claim.at = 4
           /\ claim # NoClaim => Onwards \in Claims
<1>1. claim \in Claims /\ (claim # NoClaim => phase = "reclaim")
  BY DEF IInv, DirOK, LifeTypes, LifeOK
<1>2. claim # NoClaim => claim \in [pid : Pids, raw : Lives, at : 1..4]
  BY <1>1 DEF Claims
<1>3. /\ Order[1] = "socket" /\ Order[2] = "reread" /\ Order[3] = "row" /\ Order[4] = "key"
  BY DEF Order
<1>4. claim # NoClaim => claim.at = 1 \/ claim.at = 2 \/ claim.at = 3 \/ claim.at = 4
  BY <1>2
<1>5. claim # NoClaim => Onwards \in Claims
  BY <1>2, Constants DEF Onwards, Claims
<1>. QED  BY <1>1, <1>2, <1>3, <1>4, <1>5 DEF At

LEMMA ReclaimInv == ASSUME IInv, Reclaim PROVE IInv'
<1>. USE Past, Constants, ClaimFacts DEF lifeVars, fileVars, frameVars, closeVars, historyVars
<1>0. claim # NoClaim /\ phase = "reclaim"
  BY DEF Reclaim, ReclaimSocket, ReclaimReread, ReclaimUnlink, ReclaimKey, At
<1>1. /\ UNCHANGED <<phase, gen, pid, pidOf, todo, exit, foreign, torn, recycled>>
      /\ UNCHANGED stopVars
      /\ claim' \in Claims /\ socket' = Nobody
      /\ \A p \in Pids : row'[p] \in {row[p], Nobody} /\ key'[p] \in {key[p], Nobody}
      /\ row' \in [Pids -> 0..gen \cup {Other}] /\ key' \in [Pids -> 0..gen]
  <2>0. row \in [Pids -> 0..gen \cup {Other}] /\ key \in [Pids -> 0..gen]
    BY DEF DirOK, FileTypes
  <2>1. CASE ReclaimSocket
    BY <2>0, <2>1 DEF ReclaimSocket, stopVars
  <2>a. claim.at > 1 => socket = Nobody
    BY DEF DirOK, SocketOK
  <2>2. CASE ReclaimReread
    BY <2>0, <2>2, <2>a DEF ReclaimReread, stopVars
  <2>3. CASE ReclaimUnlink
    BY <2>0, <2>3, <2>a DEF ReclaimUnlink, stopVars
  <2>4. CASE ReclaimKey
    BY <2>0, <2>4, <2>a DEF ReclaimKey, stopVars
  <2>. QED  BY <2>1, <2>2, <2>3, <2>4 DEF Reclaim
<1>2. LifeTypes' /\ LifeOK'
  BY <1>0, <1>1 DEF DirOK, LifeTypes, LifeOK
<1>3. FileTypes' /\ FilesOK' /\ ReclaimIsExact'
  BY <1>0, <1>1 DEF DirOK, FileTypes, FilesOK, ReclaimIsExact, Listening
<1>4. PidsOK' /\ SocketOK'
  BY <1>1 DEF DirOK, PidsOK, SocketOK, Former
<1>5. StopOK'
  BY <1>0, <1>1, StopSame
<1>. QED  BY <1>2, <1>3, <1>4, <1>5 DEF IInv, DirOK
-----------------------------------------------------------------------------
\* A daemon that starts listens, publishes, or is told to stop.
LEMMA ListenInv == ASSUME IInv, Listen PROVE IInv'
<1>. USE Past, Constants DEF Listen, lifeVars, startVars, frameVars, closeVars, historyVars
<1>1. LifeTypes' /\ LifeOK'
  BY DEF DirOK, LifeTypes, LifeOK, Phases
<1>2. FileTypes' /\ FilesOK' /\ ReclaimIsExact'
  BY DEF DirOK, FileTypes, FilesOK, ReclaimIsExact, Listening
<1>3. PidsOK'
  BY DEF DirOK, PidsOK, Former
<1>4. SocketOK'
  BY DEF DirOK, SocketOK
<1>5. StopOK'
  BY StopSame DEF stopVars
<1>. QED  BY <1>1, <1>2, <1>3, <1>4, <1>5 DEF IInv, DirOK

LEMMA PublishKeyInv == ASSUME IInv, PublishKey PROVE IInv'
<1>. USE Past, Constants DEF PublishKey, lifeVars, startVars, frameVars, closeVars, historyVars
<1>1. LifeTypes' /\ LifeOK'
  BY DEF DirOK, LifeTypes, LifeOK
<1>2. FileTypes' /\ FilesOK' /\ ReclaimIsExact'
  BY DEF DirOK, FileTypes, FilesOK, ReclaimIsExact, Listening
<1>3. PidsOK'
  BY DEF DirOK, PidsOK, Former
<1>4. SocketOK'
  BY DEF DirOK, SocketOK
<1>5. StopOK'
  BY StopSame DEF stopVars
<1>. QED  BY <1>1, <1>2, <1>3, <1>4, <1>5 DEF IInv, DirOK

LEMMA PublishRowInv == ASSUME IInv, PublishRow PROVE IInv'
<1>. USE Past, Constants DEF PublishRow, lifeVars, startVars, frameVars, closeVars, historyVars
<1>0. socket = gen
  BY DEF DirOK, FilesOK, Listening
<1>1. LifeTypes' /\ LifeOK'
  BY DEF DirOK, LifeTypes, LifeOK, Phases
<1>2. FileTypes' /\ FilesOK' /\ ReclaimIsExact'
  BY <1>0 DEF DirOK, FileTypes, FilesOK, ReclaimIsExact, Listening
<1>3. PidsOK'
  BY DEF DirOK, PidsOK, Former
<1>4. SocketOK'
  BY <1>0 DEF DirOK, SocketOK
<1>5. StopOK'
  BY StopSame DEF stopVars
<1>. QED  BY <1>1, <1>2, <1>3, <1>4, <1>5 DEF IInv, DirOK

LEMMA SigtermInv == ASSUME IInv, Sigterm PROVE IInv'
<1>. USE Past, Constants DEF Sigterm, lifeVars, fileVars, startVars, frameVars, closeVars,
                             historyVars
<1>1. LifeTypes' /\ LifeOK'
  BY DEF DirOK, LifeTypes, LifeOK, Phases
<1>2. FileTypes' /\ FilesOK' /\ ReclaimIsExact'
  BY DEF DirOK, FileTypes, FilesOK, ReclaimIsExact, Listening
<1>3. PidsOK'
  BY DEF DirOK, PidsOK, Former
<1>4. SocketOK'
  BY DEF DirOK, SocketOK
<1>5. StopOK'
  BY StopSame DEF stopVars
<1>. QED  BY <1>1, <1>2, <1>3, <1>4, <1>5 DEF IInv, DirOK
-----------------------------------------------------------------------------
\* Other programs come and go on pids that no daemon runs under, and write and
\* remove rows that are of no daemon.
LEMMA ForeignInv ==
    ASSUME IInv, NEW p \in Pids, ForeignStart(p) \/ ForeignRow(p) \/ ForeignEnd(p)
    PROVE  IInv'
<1>. USE Past, Constants DEF lifeVars, fileVars, startVars, frameVars, closeVars, historyVars
<1>1. /\ UNCHANGED <<phase, gen, pid, pidOf, socket, key, todo, claim, exit, torn>>
      /\ UNCHANGED stopVars
      /\ recycled \subseteq recycled' /\ recycled' \subseteq 1..gen
      /\ \A q \in Pids : Former(q)' = Former(q)
  <2>1. recycled \subseteq 1..gen /\ Former(p) \subseteq 1..gen
    BY DEF DirOK, FileTypes, Former
  <2>2. CASE ForeignStart(p)
    BY <2>1, <2>2 DEF ForeignStart, stopVars, Former
  <2>3. CASE ForeignRow(p)
    BY <2>1, <2>3 DEF ForeignRow, stopVars, Former
  <2>4. CASE ForeignEnd(p)
    BY <2>1, <2>4 DEF ForeignEnd, stopVars, Former
  <2>. QED  BY <2>2, <2>3, <2>4
<1>2. /\ row' \in [Pids -> 0..gen \cup {Other}] /\ foreign' \subseteq Pids
      /\ \A q \in Pids : row'[q] # row[q] => q \in foreign /\ row'[q] \in {Other, Nobody}
      /\ phase # "off" => pid \notin foreign /\ pid \notin foreign'
      /\ \A q \in foreign' : Former(q) \subseteq recycled'
  <2>0. /\ row \in [Pids -> 0..gen \cup {Other}] /\ foreign \subseteq Pids
        /\ phase # "off" => pid \notin foreign
        /\ \A q \in foreign : Former(q) \subseteq recycled
    BY DEF DirOK, FileTypes, PidsOK
  <2>2. CASE ForeignStart(p)
    BY <2>0, <2>2 DEF ForeignStart
  <2>3. CASE ForeignRow(p)
    BY <2>0, <2>3 DEF ForeignRow
  <2>4. CASE ForeignEnd(p)
    BY <2>0, <2>4 DEF ForeignEnd
  <2>. QED  BY <2>2, <2>3, <2>4
<1>3. LifeTypes' /\ LifeOK'
  BY <1>1 DEF DirOK, LifeTypes, LifeOK
<1>4. FileTypes'
  BY <1>1, <1>2 DEF DirOK, FileTypes
<1>5. FilesOK' /\ ReclaimIsExact'
  BY <1>1, <1>2 DEF DirOK, FilesOK, ReclaimIsExact, Listening
<1>6. PidsOK'
  <2>1. phase # "off" => Former(pid) \subseteq recycled \cup {gen}
    BY DEF DirOK, PidsOK
  <2>. QED  BY <1>1, <1>2, <2>1 DEF PidsOK
<1>7. SocketOK'
  <2>1. socket # Nobody /\ socket \notin recycled' => row'[pidOf[socket]] = row[pidOf[socket]]
    <3>1. \A q \in foreign : Former(q) \subseteq recycled
      BY DEF DirOK, PidsOK
    <3>. QED  BY <1>1, <1>2, <3>1
  <2>. QED  BY <1>1, <2>1 DEF DirOK, SocketOK
<1>8. StopOK'
  <2>1. FrameTypes' /\ FramesOK'
    BY <1>1 DEF StopOK, FrameTypes, FramesOK, stopVars
  <2>2. gen # 0 => pid \in Pids
    BY DEF DirOK, LifeOK
  <2>3. exit # "none" => gen # 0
    BY DEF DirOK, LifeOK
  <2>4. RemovedOK'
    BY <1>1, <1>2, <2>2 DEF StopOK, RemovedOK, stopVars
  <2>5. CleanMeansDone'
    BY <1>1, <1>2, <2>2, <2>3 DEF StopOK, CleanMeansDone, stopVars
  <2>. QED  BY <2>1, <2>4, <2>5 DEF StopOK
<1>. QED  BY <1>3, <1>4, <1>5, <1>6, <1>7, <1>8 DEF IInv, DirOK
-----------------------------------------------------------------------------
\* A new daemon: whoever had its pid before has had it reused, and what it
\* finds on disk is of earlier ones.
LEMMA StartInv == ASSUME IInv, NEW p \in Pids, Start(p) PROVE IInv'
<1>. USE Past, Constants DEF Start, fileVars, closeVars
<1>0. /\ gen' \in Lives /\ gen' = gen + 1
      /\ \A g \in 1..gen : pidOf'[g] = pidOf[g] /\ pidOf[g] \in Pids
      /\ pidOf'[gen'] = p /\ pidOf' \in [Lives -> Pids \cup {Nobody}]
      /\ claim = NoClaim
  <2>1. pidOf \in [Lives -> Pids \cup {Nobody}] /\ \A g \in 1..gen : pidOf[g] \in Pids
    BY DEF DirOK, LifeTypes, LifeOK
  <2>2. claim = NoClaim
    BY DEF DirOK, LifeOK
  <2>. QED  BY <2>1, <2>2
<1>1. LifeTypes' /\ LifeOK'
  <2>1. \A g \in 1..gen' : pidOf'[g] \in Pids
    BY <1>0
  <2>. QED  BY <1>0, <2>1 DEF LifeTypes, LifeOK, Phases, Reasons
<1>2. FileTypes' /\ FilesOK' /\ ReclaimIsExact'
  <2>1. /\ socket \in 0..gen /\ key \in [Pids -> 0..gen]
        /\ row \in [Pids -> 0..gen \cup {Other}]
        /\ torn \subseteq 1..gen /\ recycled \subseteq 1..gen /\ foreign \subseteq Pids
    BY DEF DirOK, FileTypes
  <2>2. Former(p) \subseteq 1..gen
    BY DEF Former
  <2>3. FileTypes'
    <3>1. /\ gen' \in Nat /\ 0..gen \subseteq 0..gen' /\ 1..gen \subseteq 1..gen'
      BY <1>0
    <3>2. /\ socket' \in 0..gen' /\ key' \in [Pids -> 0..gen']
          /\ row' \in [Pids -> 0..gen' \cup {Other}]
      BY <2>1, <3>1
    <3>3. torn' \subseteq 1..gen' /\ recycled' \subseteq 1..gen' /\ foreign' \subseteq Pids
      BY <2>1, <2>2, <3>1
    <3>. QED  BY <3>2, <3>3 DEF FileTypes
  <2>4. FilesOK' /\ ReclaimIsExact'
    BY <1>0, <2>1 DEF FilesOK, ReclaimIsExact, Listening
  <2>. QED  BY <2>3, <2>4
<1>3. PidsOK'
  <2>1. \A q \in foreign : Former(q) \subseteq recycled /\ q # p
    BY DEF DirOK, PidsOK
  <2>2. foreign \subseteq Pids
    BY DEF DirOK, FileTypes
  <2>3. \A q \in Pids : Former(q)' \subseteq Former(q) \cup (IF q = p THEN {gen'} ELSE {})
    BY <1>0 DEF Former
  <2>. QED  BY <2>1, <2>2, <2>3 DEF PidsOK
<1>4. SocketOK'
  <2>1. socket # Nobody /\ socket \notin torn \cup recycled => row[pidOf[socket]] = socket
    BY DEF DirOK, SocketOK
  <2>2. socket # Nobody => pidOf'[socket] = pidOf[socket] /\ pidOf[socket] \in Pids
    BY <1>0
  <2>3. claim'.at = 0
    BY <1>0
  <2>. QED  BY <2>1, <2>2, <2>3 DEF SocketOK
<1>5. StopOK'
  <2>1. \A c \in Conns : conn'[c] = NoConn
    OBVIOUS
  <2>2. NoConn.done = 0 /\ NoConn.read = 0 /\ NoConn.sent = 0
    BY DEF NoConn
  <2>3. fate' \in [Conns -> Fates]
    BY DEF Fates
  <2>4. FrameTypes'
    BY <2>3 DEF StopOK, FrameTypes
  <2>5. FramesOK'
    BY <2>1, <2>2 DEF StopOK, FramesOK
  <2>6. RemovedOK' /\ CleanMeansDone'
    BY DEF RemovedOK, CleanMeansDone
  <2>. QED  BY <2>4, <2>5, <2>6 DEF StopOK
<1>. QED  BY <1>1, <1>2, <1>3, <1>4, <1>5 DEF IInv, DirOK

\* The process ends: if it dies with a socket and no row, it is one of those
\* whose socket nobody will reclaim.
LEMMA EndInv ==
    ASSUME IInv, phase # "off", NEW reason \in Reasons \ {"none"}, End(reason), UNCHANGED ledger,
           reason = "refused" => socket \in torn \cup recycled,
           reason = "clean" => /\ socket # gen /\ row[pid] # gen /\ key[pid] # gen
                               /\ \A c \in Conns : conn[c].done = conn[c].read
    PROVE  IInv'
<1>. USE Past, Constants DEF End, lifeVars, fileVars, frameVars
<1>1. LifeTypes' /\ LifeOK'
  BY DEF DirOK, LifeTypes, LifeOK, Phases
<1>2. torn \subseteq torn' /\ torn' \subseteq torn \cup {gen}
  OBVIOUS
<1>3. FileTypes'
  BY <1>2 DEF DirOK, FileTypes
<1>4. FilesOK' /\ ReclaimIsExact'
  BY <1>2 DEF FilesOK, ReclaimIsExact, Listening
<1>5. PidsOK'
  BY DEF DirOK, PidsOK, Former
<1>6. SocketOK'
  <2>1. socket = gen /\ socket \notin torn' => row[pidOf[socket]] = socket
    BY DEF DirOK, LifeOK
  <2>2. socket # gen /\ socket # Nobody /\ socket \notin torn \cup recycled
            => row[pidOf[socket]] = socket
    BY DEF DirOK, SocketOK
  <2>. QED  BY <1>2, <2>1, <2>2 DEF SocketOK
<1>7. StopOK'
  <2>1. FrameTypes'
    BY DEF StopOK, FrameTypes
  <2>2. FramesOK' /\ RemovedOK'
    BY DEF StopOK, FramesOK, RemovedOK
  <2>3. CleanMeansDone'
    <3>1. ledger = "ok" => \A c \in Conns : \A i \in 1..conn[c].done : fate[c][i] # {}
      BY DEF StopOK, FramesOK
    <3>. QED  BY <3>1 DEF CleanMeansDone
  <2>. QED  BY <2>1, <2>2, <2>3 DEF StopOK
<1>. QED  BY <1>1, <1>3, <1>4, <1>5, <1>6, <1>7 DEF IInv, DirOK

LEMMA EndsInv == ASSUME IInv, RefuseStart \/ PublishFails \/ Leave \/ Kill PROVE IInv'
<1>. USE DEF Reasons
<1>1. CASE RefuseStart
  <2>1. socket \in torn \cup recycled
    BY <1>1, Constants DEF RefuseStart, IInv, DirOK, SocketOK, FilesOK
  <2>. QED  BY <1>1, <2>1, EndInv DEF RefuseStart
<1>2. CASE PublishFails
  BY <1>2, EndInv DEF PublishFails
<1>3. CASE Leave
  <2>1. CASE missed \/ ledger = "stuck"
    BY <1>3, <2>1, EndInv DEF Leave
  <2>2. CASE ~(missed \/ ledger = "stuck")
    <3>1. /\ socket # gen /\ row[pid] # gen /\ key[pid] # gen
          /\ \A c \in Conns : conn[c].done = conn[c].read
      BY <1>3, <2>2 DEF Leave, IInv, StopOK, RemovedOK, FramesOK
    <3>. QED  BY <1>3, <2>2, <3>1, EndInv DEF Leave
  <2>. QED  BY <2>1, <2>2
<1>4. CASE Kill
  BY <1>4, EndInv DEF Kill
<1>. QED  BY <1>1, <1>2, <1>3, <1>4
-----------------------------------------------------------------------------
\* One connection goes on: no frame is read that was not sent, none in a
\* receiver that has nothing left to wait for.
LEMMA ConnKept ==
    ASSUME IInv, NEW c \in Conns, NEW k \in ConnStates, conn' = [conn EXCEPT ![c] = k],
           UNCHANGED dirVars, UNCHANGED <<ledger, fate, drain, missed, removing>>,
           k.done = conn[c].done, conn[c].read <= k.read, k.read <= k.sent,
           phase = "off" \/ phase = "removing" => k.read = conn[c].read,
           phase = "removing" => k.stage \in {"none", "gone"}
    PROVE  IInv'
<1>. USE Past, Constants DEF dirVars
<1>1. DirOK'
  BY DirSame
<1>2. conn \in [Conns -> ConnStates]
  BY DEF StopOK, FrameTypes
<1>3. /\ conn' \in [Conns -> ConnStates] /\ conn'[c] = k
      /\ \A d \in Conns \ {c} : conn'[d] = conn[d]
  BY <1>2
<1>4. conn[c].done \in 0..MaxFrames /\ conn[c].read \in 0..MaxFrames /\ k.read \in 0..MaxFrames
  BY <1>2 DEF ConnStates
<1>5. FrameTypes' /\ RemovedOK'
  BY <1>3 DEF StopOK, FrameTypes, RemovedOK
<1>6. FramesOK'
  <2>1. conn[c].done <= conn[c].read
    BY DEF StopOK, FramesOK
  <2>2. k.done <= k.read /\ k.read <= k.sent
    BY <1>4, <2>1
  <2>. QED  BY <1>3, <2>2 DEF StopOK, FramesOK
<1>7. CleanMeansDone'
  <2>1. exit = "clean" => phase = "off"
    OBVIOUS
  <2>. QED  BY <1>3, <2>1 DEF StopOK, CleanMeansDone
<1>. QED  BY <1>1, <1>5, <1>6, <1>7 DEF IInv, StopOK

LEMMA ConnFacts ==
    ASSUME IInv, NEW c \in Conns
    PROVE  /\ conn \in [Conns -> ConnStates] /\ conn[c] \in ConnStates
           /\ conn[c].stage \in {"none", "backlog", "open", "gone"}
           /\ conn[c].sent \in 0..MaxFrames /\ conn[c].read \in 0..MaxFrames
           /\ conn[c].done \in 0..MaxFrames
           /\ conn[c].done <= conn[c].read /\ conn[c].read <= conn[c].sent
           /\ phase = "removing" => conn[c].stage \in {"none", "gone"}
<1>1. conn \in [Conns -> ConnStates] /\ conn[c] \in ConnStates
  BY DEF IInv, StopOK, FrameTypes
<1>2. /\ conn[c].done <= conn[c].read /\ conn[c].read <= conn[c].sent
      /\ phase = "removing" => conn[c].stage \in {"none", "gone"}
  BY DEF IInv, StopOK, FramesOK
<1>. QED  BY <1>1, <1>2 DEF ConnStates

LEMMA StageInv ==
    ASSUME IInv, NEW c \in Conns, Connect(c) \/ Accept(c) \/ HangUp(c) PROVE IInv'
<1>. USE Constants, ConnFacts DEF lifeVars, fileVars, startVars, closeVars, historyVars
<1>1. PICK s \in {"backlog", "open", "gone"} :
          /\ conn' = [conn EXCEPT ![c].stage = s]
          /\ phase = "removing" => s = "gone"
  BY DEF Connect, Accept, HangUp, Listening
<1>2. UNCHANGED dirVars /\ UNCHANGED <<ledger, fate, drain, missed, removing>>
  BY DEF Connect, Accept, HangUp, dirVars
<1>. DEFINE k == [conn[c] EXCEPT !.stage = s]
<1>3. k \in ConnStates /\ k.done = conn[c].done /\ k.read = conn[c].read
      /\ k.sent = conn[c].sent /\ k.stage = s
  BY DEF ConnStates
<1>4. conn' = [conn EXCEPT ![c] = k]
  BY <1>1
<1>. HIDE DEF k
<1>5. conn[c].read <= k.read /\ k.read <= k.sent
  BY <1>3
<1>6. phase = "removing" => k.stage \in {"none", "gone"}
  BY <1>1, <1>3
<1>. QED  BY <1>2, <1>3, <1>4, <1>5, <1>6, ConnKept

LEMMA SendFrameInv == ASSUME IInv, NEW c \in Conns, SendFrame(c) PROVE IInv'
<1>. USE Constants, ConnFacts DEF lifeVars, fileVars, startVars, closeVars, historyVars
<1>1. UNCHANGED dirVars /\ UNCHANGED <<ledger, fate, drain, missed, removing>>
  BY DEF SendFrame, dirVars
<1>. DEFINE k == [conn[c] EXCEPT !.sent = @ + 1]
<1>2. conn[c].sent + 1 \in 0..MaxFrames
  BY DEF SendFrame
<1>3. k \in ConnStates /\ k.done = conn[c].done /\ k.read = conn[c].read
      /\ k.sent = conn[c].sent + 1 /\ k.stage = conn[c].stage
  BY <1>2 DEF ConnStates
<1>4. conn' = [conn EXCEPT ![c] = k]
  BY DEF SendFrame
<1>. HIDE DEF k
<1>5. conn[c].read <= k.read /\ k.read <= k.sent
  BY <1>3
<1>. QED  BY <1>1, <1>3, <1>4, <1>5, ConnKept

LEMMA ReadFrameInv == ASSUME IInv, NEW c \in Conns, ReadFrame(c) PROVE IInv'
<1>. USE Constants, ConnFacts DEF lifeVars, fileVars, startVars, closeVars, historyVars
<1>1. UNCHANGED dirVars /\ UNCHANGED <<ledger, fate, drain, missed, removing>>
  BY DEF ReadFrame, dirVars
<1>. DEFINE k == [conn[c] EXCEPT !.read = @ + 1]
<1>2. conn[c].read + 1 \in 0..MaxFrames
  BY DEF ReadFrame
<1>3. k \in ConnStates /\ k.done = conn[c].done /\ k.read = conn[c].read + 1
      /\ k.sent = conn[c].sent /\ k.stage = conn[c].stage
  BY <1>2 DEF ConnStates
<1>4. conn' = [conn EXCEPT ![c] = k]
  BY DEF ReadFrame
<1>. HIDE DEF k
<1>5. conn[c].read <= k.read /\ k.read <= k.sent
  BY <1>3 DEF ReadFrame
<1>6. phase # "off" /\ phase # "removing"
  BY DEF ReadFrame, Running, Listening
<1>. QED  BY <1>1, <1>3, <1>4, <1>5, <1>6, ConnKept

LEMMA RefusalInv ==
    ASSUME IInv, NEW c \in Conns, RefuseFrame(c) \/ ReportRefusal(c) PROVE IInv'
<1>. USE Constants, ConnFacts DEF lifeVars, fileVars, startVars, closeVars, historyVars
<1>1. UNCHANGED dirVars /\ UNCHANGED <<ledger, fate, drain, missed, removing>>
  BY DEF RefuseFrame, ReportRefusal, dirVars
<1>2. PICK b \in BOOLEAN, s \in {"none", "backlog", "open", "gone"} :
          /\ conn' = [conn EXCEPT ![c].stage = s, ![c].refusing = b]
          /\ phase = "removing" => s \in {"none", "gone"}
  <2>1. CASE RefuseFrame(c)
    BY <2>1 DEF RefuseFrame
  <2>2. CASE ReportRefusal(c)
    <3>. DEFINE s == conn[c].stage
    <3>1. conn' = [conn EXCEPT ![c].stage = s, ![c].refusing = FALSE]
      BY <2>2 DEF ReportRefusal, ConnStates
    <3>. QED  BY <3>1
  <2>. QED  BY <2>1, <2>2
<1>. DEFINE k == [conn[c] EXCEPT !.stage = s, !.refusing = b]
<1>3. k \in ConnStates /\ k.done = conn[c].done /\ k.read = conn[c].read
      /\ k.sent = conn[c].sent /\ k.stage = s
  BY DEF ConnStates
<1>4. conn' = [conn EXCEPT ![c] = k]
  BY <1>2
<1>. HIDE DEF k
<1>5. conn[c].read <= k.read /\ k.read <= k.sent
  BY <1>3
<1>6. phase = "removing" => k.stage \in {"none", "gone"}
  BY <1>2, <1>3
<1>. QED  BY <1>1, <1>3, <1>4, <1>5, <1>6, ConnKept
-----------------------------------------------------------------------------
\* The next frame settles: as long as the ledger takes rows there is one about it.
LEMMA HandleFrameInv == ASSUME IInv, NEW c \in Conns, HandleFrame(c) PROVE IInv'
<1>. USE Past, Constants, ConnFacts
         DEF HandleFrame, Note, lifeVars, fileVars, startVars, closeVars, historyVars
<1>1. DirOK' /\ phase # "off"
  BY DirSame DEF dirVars, Running, Listening
<1>2. UNCHANGED <<phase, ledger, drain, missed, removing, exit, socket, row, key, gen, pid>>
  OBVIOUS
<1>. DEFINE n == conn[c].done + 1
<1>3. n \in 1..conn[c].read /\ n \in 1..MaxFrames
  OBVIOUS
<1>4. PICK s \in {"none", "backlog", "open", "gone"} :
          /\ conn' = [conn EXCEPT ![c].done = n, ![c].stage = s]
          /\ phase = "removing" => s \in {"none", "gone"}
  <2>1. CASE conn' = [conn EXCEPT ![c].done = @ + 1, ![c].stage = "gone"]
    BY <2>1
  <2>2. CASE conn' = [conn EXCEPT ![c].done = @ + 1]
    <3>. DEFINE s == conn[c].stage
    <3>1. conn' = [conn EXCEPT ![c].done = n, ![c].stage = s]
      BY <2>2 DEF ConnStates
    <3>. QED  BY <3>1
  <2>. QED  BY <2>1, <2>2
<1>5. PICK w \in SUBSET {"recorded", "refused"} :
          /\ fate' = [fate EXCEPT ![c][n] = @ \cup w]
          /\ ledger = "ok" => w # {}
  <2>0. fate \in [Conns -> Fates]
    BY DEF StopOK, FrameTypes
  <2>1. CASE ledger = "ok"
    <3>1. \/ fate' = [fate EXCEPT ![c][n] = @ \cup {"recorded"}]
          \/ fate' = [fate EXCEPT ![c][n] = @ \cup {"refused"}]
      BY <2>1
    <3>2. CASE fate' = [fate EXCEPT ![c][n] = @ \cup {"recorded"}]
      <4>. HIDE DEF HandleFrame
      <4>. WITNESS {"recorded"} \in SUBSET {"recorded", "refused"}
      <4>. QED  BY <3>2
    <3>3. CASE fate' = [fate EXCEPT ![c][n] = @ \cup {"refused"}]
      <4>. HIDE DEF HandleFrame
      <4>. WITNESS {"refused"} \in SUBSET {"recorded", "refused"}
      <4>. QED  BY <3>3
    <3>. QED  BY <3>1, <3>2, <3>3
  <2>2. CASE ledger # "ok"
    <3>1. fate' = fate
      BY <2>2
    <3>2. fate = [fate EXCEPT ![c][n] = @ \cup {}]
      <4>1. fate[c] \in [1..MaxFrames -> SUBSET {"recorded", "refused", "named"}]
        BY <2>0 DEF Fates
      <4>. HIDE DEF HandleFrame, n
      <4>2. [fate[c] EXCEPT ![n] = fate[c][n] \cup {}] = fate[c]
        BY <1>3, <4>1
      <4>3. [fate EXCEPT ![c] = fate[c]] = fate
        BY <2>0
      <4>. QED  BY <4>2, <4>3
    <3>3. fate' = [fate EXCEPT ![c][n] = @ \cup {}]
      BY <3>1, <3>2
    <3>. HIDE DEF HandleFrame
    <3>. WITNESS {} \in SUBSET {"recorded", "refused"}
    <3>. QED  BY <2>2, <3>3
  <2>. QED  BY <2>1, <2>2
<1>6. /\ conn' \in [Conns -> ConnStates] /\ conn'[c].done = n /\ conn'[c].read = conn[c].read
      /\ conn'[c].sent = conn[c].sent /\ conn'[c].stage = s
      /\ \A d \in Conns \ {c} : conn'[d] = conn[d]
  <2>. DEFINE k == [conn[c] EXCEPT !.done = n, !.stage = s]
  <2>1. /\ k \in ConnStates /\ k.done = n /\ k.read = conn[c].read /\ k.sent = conn[c].sent
        /\ k.stage = s
    <3>1. n \in 0..MaxFrames /\ conn[c] \in ConnStates
      BY <1>3
    <3>. HIDE DEF n, HandleFrame
    <3>. QED  BY <3>1 DEF ConnStates
  <2>2. conn' = [conn EXCEPT ![c] = k]
    BY <1>4
  <2>. HIDE DEF k
  <2>. QED  BY <2>1, <2>2
<1>7. /\ fate' \in [Conns -> Fates]
      /\ ledger = "ok" => fate'[c][n] # {}
      /\ \A d \in Conns : \A i \in 1..MaxFrames : fate[d][i] # {} => fate'[d][i] # {}
  <2>1. fate \in [Conns -> Fates] /\ \A d \in Conns : fate[d] \in Fates
    BY DEF StopOK, FrameTypes
  <2>. DEFINE f == [fate[c] EXCEPT ![n] = @ \cup w]
  <2>2. /\ f \in Fates /\ (ledger = "ok" => f[n] # {})
        /\ \A i \in 1..MaxFrames : fate[c][i] # {} => f[i] # {}
    <3>1. /\ fate[c] \in [1..MaxFrames -> SUBSET {"recorded", "refused", "named"}]
          /\ n \in 1..MaxFrames
      BY <1>3, <2>1 DEF Fates
    <3>. HIDE DEF HandleFrame, n
    <3>2. fate[c][n] \cup w \in SUBSET {"recorded", "refused", "named"}
      BY <3>1
    <3>. QED  BY <1>5, <3>1, <3>2 DEF Fates
  <2>3. fate' = [fate EXCEPT ![c] = f]
    BY <1>5
  <2>. HIDE DEF f
  <2>. QED  BY <2>1, <2>2, <2>3
<1>. HIDE DEF HandleFrame
<1>8. FrameTypes'
  BY <1>2, <1>6, <1>7 DEF StopOK, FrameTypes
<1>9. FramesOK'
  <2>1. \A d \in Conns : conn'[d].done <= conn'[d].read /\ conn'[d].read <= conn'[d].sent
    BY <1>3, <1>6 DEF StopOK, FramesOK
  <2>2. ledger = "ok" => \A d \in Conns : \A i \in 1..conn'[d].done : fate'[d][i] # {}
    <3>. SUFFICES ASSUME ledger = "ok", NEW d \in Conns, NEW i \in 1..conn'[d].done
                  PROVE  fate'[d][i] # {}
      OBVIOUS
    <3>1. CASE d = c /\ i = n
      BY <3>1, <1>7
    <3>2. CASE ~(d = c /\ i = n)
      <4>1. i \in 1..conn[d].done
        <5>1. CASE d = c
          BY <3>2, <5>1, <1>6
        <5>2. CASE d # c
          BY <5>2, <1>6
        <5>. QED  BY <5>1, <5>2
      <4>2. conn[d].done \in 0..MaxFrames
        BY ConnFacts
      <4>3. i \in 1..MaxFrames
        BY <4>1, <4>2
      <4>. QED  BY <4>1, <4>3, <1>7 DEF StopOK, FramesOK
    <3>. QED  BY <3>1, <3>2
  <2>3. phase = "removing" => \A d \in Conns : conn'[d].stage \in {"none", "gone"}
    BY <1>4, <1>6
  <2>4. phase = "removing" => missed
    BY <1>3 DEF StopOK, FramesOK
  <2>. QED  BY <1>2, <2>1, <2>2, <2>3, <2>4 DEF StopOK, FramesOK
<1>10. RemovedOK' /\ CleanMeansDone'
  BY <1>1, <1>2 DEF StopOK, RemovedOK, CleanMeansDone
<1>. QED  BY <1>1, <1>8, <1>9, <1>10 DEF IInv, StopOK

\* A ledger that fails does not take rows again.
LEMMA LedgerFailsInv ==
    ASSUME IInv, NEW how \in {"poisoned", "stuck"}, LedgerFails(how) PROVE IInv'
<1>. USE DEF LedgerFails, lifeVars, fileVars, startVars, frameVars, closeVars, historyVars
<1>1. DirOK'
  BY Past, DirSame DEF dirVars
<1>2. FrameTypes' /\ FramesOK'
  BY Past DEF StopOK, FrameTypes, FramesOK
<1>3. RemovedOK' /\ CleanMeansDone'
  BY Past DEF StopOK, RemovedOK, CleanMeansDone, Running, Listening
<1>. QED  BY <1>1, <1>2, <1>3 DEF IInv, StopOK
-----------------------------------------------------------------------------
\* The stop begins: the socket stays until the drain is over.
LEMMA BeginCloseInv == ASSUME IInv, BeginClose PROVE IInv'
<1>. USE Past, Constants DEF BeginClose, lifeVars, fileVars, startVars, frameVars, historyVars
<1>1. LifeTypes' /\ LifeOK'
  BY DEF DirOK, LifeTypes, LifeOK, Phases
<1>2. FileTypes' /\ FilesOK' /\ ReclaimIsExact'
  BY DEF DirOK, FileTypes, FilesOK, ReclaimIsExact, Listening
<1>3. PidsOK'
  BY DEF DirOK, PidsOK, Former
<1>4. SocketOK'
  BY DEF DirOK, SocketOK
<1>5. Cardinality(Accepted) \in Seen
  BY DEF Accepted, Seen
<1>6. drain' \in Drains /\ drain'.stage = "sleep"
  BY <1>5 DEF Drains, NoDrain
<1>. HIDE DEF BeginClose
<1>7. FrameTypes' /\ FramesOK'
  BY <1>6 DEF BeginClose, StopOK, FrameTypes, FramesOK
<1>8. RemovedOK' /\ CleanMeansDone'
  BY DEF BeginClose, RemovedOK, CleanMeansDone
<1>. QED  BY <1>1, <1>2, <1>3, <1>4, <1>7, <1>8 DEF IInv, DirOK, StopOK

\* A poll of the drain.
LEMMA PollInv == ASSUME IInv, Look \/ Judge PROVE IInv'
<1>. USE Past, Constants DEF lifeVars, fileVars, startVars, frameVars, historyVars
<1>1. UNCHANGED dirVars /\ UNCHANGED <<ledger, conn, fate, missed, removing>>
      /\ phase = "draining"
  BY DEF Look, Judge, dirVars
<1>2. DirOK'
  BY <1>1, DirSame
<1>3. drain' \in Drains /\ (drain'.stage = "settle" => drain'.quiet < 2)
  <2>0. drain \in Drains /\ (drain.stage = "settle" => drain.quiet < 2)
    BY DEF StopOK, FrameTypes, FramesOK
  <2>1. CASE Look
    <3>1. [d \in Conns |-> conn[d].read] \in [Conns -> 0..MaxFrames]
      BY ConnFacts
    <3>. QED  BY <2>0, <2>1, <3>1 DEF Look, Drains
  <2>2. CASE Judge
    <3>1. Cardinality(Accepted) \in Seen
      BY DEF Accepted, Seen
    <3>2. drain.quiet \in 0..2 /\ drain.quiet < 2
      BY <2>0, <2>2 DEF Judge, Drains
    <3>3. (IF Busy THEN 0 ELSE drain.quiet + 1) \in 0..2
      BY <3>2
    <3>. QED  BY <2>0, <2>2, <3>1, <3>3 DEF Judge, Drains
  <2>. QED  BY <2>1, <2>2
<1>4. FrameTypes' /\ FramesOK'
  BY <1>1, <1>3 DEF StopOK, FrameTypes, FramesOK, dirVars
<1>5. RemovedOK' /\ CleanMeansDone'
  BY <1>1 DEF RemovedOK, CleanMeansDone, dirVars
<1>. QED  BY <1>2, <1>4, <1>5 DEF IInv, StopOK
-----------------------------------------------------------------------------
\* What is left of a connection when the receiver destroys it.
LEMMA DestroyedFacts ==
    ASSUME IInv
    PROVE  /\ Destroyed \in [Conns -> ConnStates]
           /\ \A c \in Conns :
                /\ Destroyed[c].done = conn[c].done /\ Destroyed[c].read = conn[c].read
                /\ Destroyed[c].sent = conn[c].sent /\ Destroyed[c].stage \in {"none", "gone"}
<1>1. ASSUME NEW c \in Conns
      PROVE  LET k == [conn[c] EXCEPT !.stage = IF @ = "none" THEN @ ELSE "gone"] IN
             /\ k \in ConnStates /\ k.done = conn[c].done /\ k.read = conn[c].read
             /\ k.sent = conn[c].sent /\ k.stage \in {"none", "gone"}
  BY ConnFacts DEF ConnStates
<1>. QED  BY <1>1 DEF Destroyed

\* The drain is over: without a frame to report every one that was read is settled.
LEMMA DrainedInv == ASSUME IInv, DrainQuiet \/ DrainBound PROVE IInv'
<1>. USE Past, Constants DEF lifeVars, fileVars, startVars, historyVars
<1>1. /\ phase = "draining" /\ phase' \in {"removing", "reporting"}
      /\ UNCHANGED <<gen, pid, pidOf, socket, row, key, todo, claim, foreign, exit, torn,
                     recycled, ledger, fate>>
      /\ drain' = NoDrain /\ missed' = (Unfinished # {})
      /\ phase' = "removing" => Unfinished = {} /\ removing' = Artifacts /\ conn' = Destroyed
      /\ phase' = "reporting" => Unfinished # {} /\ UNCHANGED <<removing, conn>>
  BY DEF DrainQuiet, DrainBound, Drained
<1>2. LifeTypes' /\ LifeOK'
  BY <1>1 DEF DirOK, LifeTypes, LifeOK, Phases
<1>3. FileTypes' /\ FilesOK' /\ ReclaimIsExact'
  BY <1>1 DEF DirOK, FileTypes, FilesOK, ReclaimIsExact, Listening
<1>4. PidsOK'
  BY <1>1 DEF DirOK, PidsOK, Former
<1>5. SocketOK'
  BY <1>1 DEF DirOK, SocketOK
<1>6. Unfinished = {} => \A c \in Conns : conn[c].done = conn[c].read
  <2>. SUFFICES ASSUME NEW c \in Conns, conn[c].done # conn[c].read PROVE Unfinished # {}
    OBVIOUS
  <2>1. conn[c].read \in conn[c].done + 1..conn[c].read
    BY ConnFacts
  <2>2. <<c, conn[c].read>> \in Unfinished
    BY <2>1 DEF Unfinished
  <2>. QED  BY <2>2
<1>7. /\ conn' \in [Conns -> ConnStates]
      /\ \A c \in Conns :
           /\ conn'[c].done = conn[c].done /\ conn'[c].read = conn[c].read
           /\ conn'[c].sent = conn[c].sent
           /\ phase' = "removing" => conn'[c].stage \in {"none", "gone"}
  <2>0. conn \in [Conns -> ConnStates]
    BY DEF StopOK, FrameTypes
  <2>1. CASE phase' = "removing"
    BY <1>1, <2>1, DestroyedFacts
  <2>2. CASE phase' = "reporting"
    BY <1>1, <2>0, <2>2
  <2>. QED  BY <1>1, <2>1, <2>2
<1>8. FrameTypes'
  BY <1>1, <1>7 DEF StopOK, FrameTypes
<1>9. FramesOK'
  BY <1>1, <1>6, <1>7 DEF StopOK, FramesOK
<1>10. RemovedOK' /\ CleanMeansDone'
  BY <1>1 DEF RemovedOK, CleanMeansDone, Artifacts
<1>. QED  BY <1>2, <1>3, <1>4, <1>5, <1>8, <1>9, <1>10 DEF IInv, DirOK, StopOK

\* A report says what became of a frame; it takes no row away.
LEMMA ReportInv ==
    ASSUME IInv, NEW c \in Conns, NEW i \in 1..MaxFrames, ReportStranded(c, i) PROVE IInv'
<1>. USE Past DEF lifeVars, fileVars, startVars, historyVars
<1>1. /\ UNCHANGED dirVars /\ UNCHANGED <<ledger, conn, drain, missed, removing>>
      /\ phase = "reporting"
      /\ fate' = fate \/ fate' = [fate EXCEPT ![c][i] = @ \cup {"named"}]
  BY DEF ReportStranded, Note, dirVars
<1>2. DirOK'
  BY <1>1, DirSame
<1>3. /\ fate' \in [Conns -> Fates]
      /\ \A d \in Conns : \A n \in 1..MaxFrames : fate[d][n] # {} => fate'[d][n] # {}
  <2>0. fate \in [Conns -> Fates]
    BY DEF StopOK, FrameTypes
  <2>1. CASE fate' = fate
    BY <2>0, <2>1
  <2>2. CASE fate' = [fate EXCEPT ![c][i] = @ \cup {"named"}]
    <3>. DEFINE f == [fate[c] EXCEPT ![i] = @ \cup {"named"}]
    <3>1. f \in Fates /\ \A n \in 1..MaxFrames : fate[c][n] # {} => f[n] # {}
      <4>1. fate[c] \in [1..MaxFrames -> SUBSET {"recorded", "refused", "named"}]
        BY <2>0 DEF Fates
      <4>2. fate[c][i] \cup {"named"} \in SUBSET {"recorded", "refused", "named"}
        BY <4>1
      <4>. QED  BY <4>1, <4>2 DEF Fates
    <3>2. fate' = [fate EXCEPT ![c] = f]
      BY <2>2
    <3>. HIDE DEF f
    <3>. QED  BY <2>0, <3>1, <3>2
  <2>. QED  BY <1>1, <2>1, <2>2
<1>4. FrameTypes'
  BY <1>1, <1>3 DEF StopOK, FrameTypes
<1>5. FramesOK'
  <2>1. \A d \in Conns : \A n \in 1..conn[d].done : n \in 1..MaxFrames
    BY ConnFacts, Constants
  <2>2. ledger = "ok" => \A d \in Conns : \A n \in 1..conn[d].done : fate'[d][n] # {}
    BY <1>3, <2>1 DEF StopOK, FramesOK
  <2>. QED  BY <1>1, <2>2 DEF StopOK, FramesOK, dirVars
<1>6. RemovedOK' /\ CleanMeansDone'
  BY <1>1 DEF RemovedOK, CleanMeansDone, dirVars
<1>. QED  BY <1>2, <1>4, <1>5, <1>6 DEF IInv, StopOK

LEMMA DestroyInv == ASSUME IInv, Destroy PROVE IInv'
<1>. USE Past, Constants DEF lifeVars, fileVars, startVars, historyVars
<1>1. /\ phase = "reporting" /\ phase' = "removing" /\ missed
      /\ UNCHANGED <<gen, pid, pidOf, socket, row, key, todo, claim, foreign, exit, torn,
                     recycled, ledger, fate, drain, missed>>
      /\ removing' = Artifacts /\ conn' = Destroyed
  BY DEF Destroy, StopOK, FramesOK
<1>2. LifeTypes' /\ LifeOK'
  BY <1>1 DEF DirOK, LifeTypes, LifeOK, Phases
<1>3. FileTypes' /\ FilesOK' /\ ReclaimIsExact'
  BY <1>1 DEF DirOK, FileTypes, FilesOK, ReclaimIsExact, Listening
<1>4. PidsOK'
  BY <1>1 DEF DirOK, PidsOK, Former
<1>5. SocketOK'
  BY <1>1 DEF DirOK, SocketOK
<1>6. FrameTypes' /\ FramesOK'
  BY <1>1, DestroyedFacts DEF StopOK, FrameTypes, FramesOK
<1>7. RemovedOK' /\ CleanMeansDone'
  BY <1>1 DEF RemovedOK, CleanMeansDone
<1>. QED  BY <1>2, <1>3, <1>4, <1>5, <1>6, <1>7 DEF IInv, DirOK, StopOK

\* A file that is still the daemon's goes; one that is not was not its own.
LEMMA RemoveInv == ASSUME IInv, NEW a \in Artifacts, Remove(a) PROVE IInv'
<1>. USE Past, Constants DEF Remove, lifeVars, startVars, frameVars, historyVars
<1>0. /\ row \in [Pids -> 0..gen \cup {Other}] /\ key \in [Pids -> 0..gen]
      /\ foreign \subseteq Pids
  BY DEF DirOK, FileTypes
<1>1. /\ socket' \in {socket, Nobody} /\ (a = "socket" => socket' # gen)
      /\ row' \in [Pids -> 0..gen \cup {Other}] /\ (a = "row" => row'[pid] # gen)
      /\ key' \in [Pids -> 0..gen] /\ (a = "key" => key'[pid] # gen)
      /\ \A q \in Pids : row'[q] \in {row[q], Nobody} /\ key'[q] \in {key[q], Nobody}
  BY <1>0
<1>2. UNCHANGED <<phase, gen, pid, pidOf, todo, claim, foreign, exit, torn, recycled,
                  ledger, conn, fate, drain, missed>>
      /\ phase = "removing" /\ removing' = removing \ {a}
  OBVIOUS
<1>. HIDE DEF Remove
<1>3. LifeTypes' /\ LifeOK'
  BY <1>2 DEF DirOK, LifeTypes, LifeOK
<1>4. FileTypes' /\ FilesOK' /\ ReclaimIsExact'
  BY <1>1, <1>2 DEF DirOK, FileTypes, FilesOK, ReclaimIsExact, Listening
<1>5. PidsOK'
  BY <1>2 DEF DirOK, PidsOK, Former
<1>6. SocketOK'
  BY <1>1, <1>2 DEF DirOK, SocketOK
<1>7. FrameTypes' /\ FramesOK'
  BY <1>2 DEF StopOK, FrameTypes, FramesOK
<1>8. RemovedOK' /\ CleanMeansDone'
  <2>1. ~missed =>
          /\ "socket" \notin removing => socket # gen
          /\ "row" \notin removing => row[pid] # gen
          /\ "key" \notin removing => key[pid] # gen
    BY <1>2 DEF StopOK, RemovedOK
  <2>2. RemovedOK'
    BY <1>1, <1>2, <2>1 DEF RemovedOK
  <2>. QED  BY <1>2, <2>2 DEF CleanMeansDone
<1>. QED  BY <1>3, <1>4, <1>5, <1>6, <1>7, <1>8 DEF IInv, DirOK, StopOK

LEMMA RemoveFailsInv == ASSUME IInv, NEW a \in Artifacts, RemoveFails(a) PROVE IInv'
<1>. USE Past DEF RemoveFails, lifeVars, fileVars, startVars, frameVars, historyVars
<1>1. DirOK'
  BY DirSame DEF dirVars
<1>2. FrameTypes' /\ FramesOK'
  BY DEF StopOK, FrameTypes, FramesOK
<1>3. RemovedOK' /\ CleanMeansDone'
  BY DEF RemovedOK, CleanMeansDone
<1>. QED  BY <1>1, <1>2, <1>3 DEF IInv, StopOK
-----------------------------------------------------------------------------
LEMMA StutterInv == ASSUME IInv, UNCHANGED vars PROVE IInv'
<1>. USE Past DEF vars, lifeVars, fileVars, startVars, frameVars, closeVars, historyVars
<1>1. DirOK'
  BY DirSame DEF dirVars
<1>2. FrameTypes' /\ FramesOK'
  BY DEF StopOK, FrameTypes, FramesOK
<1>3. RemovedOK' /\ CleanMeansDone'
  BY DEF StopOK, RemovedOK, CleanMeansDone
<1>. QED  BY <1>1, <1>2, <1>3 DEF IInv, StopOK

LEMMA NextInv == IInv /\ [Next]_vars => IInv'
<1>. SUFFICES ASSUME IInv, [Next]_vars PROVE IInv'
  OBVIOUS
<1>1. ASSUME NEW p \in Pids, Start(p) \/ SkipRow(p) \/ ClaimRow(p) PROVE IInv'
  BY <1>1, StartInv, SkipRowInv, ClaimRowInv
<1>2. ASSUME NEW p \in Pids, ForeignStart(p) \/ ForeignRow(p) \/ ForeignEnd(p) PROVE IInv'
  BY <1>2, ForeignInv
<1>3. ASSUME NEW c \in Conns, ConnStep(c) \/ Connect(c) \/ SendFrame(c) \/ HangUp(c) PROVE IInv'
  BY <1>3, StageInv, SendFrameInv, ReadFrameInv, RefusalInv, HandleFrameInv DEF ConnStep
<1>4. ASSUME NEW how \in {"poisoned", "stuck"}, LedgerFails(how) PROVE IInv'
  BY <1>4, LedgerFailsInv
<1>5. CASE StartStep
  BY <1>5, ReclaimInv, EndsInv, ListenInv, PublishKeyInv, PublishRowInv DEF StartStep
<1>6. CASE Sigterm \/ BeginClose \/ Kill
  BY <1>6, SigtermInv, BeginCloseInv, EndsInv
<1>7. CASE CloseStep
  <2>1. ASSUME NEW c \in Conns, NEW i \in 1..MaxFrames, ReportStranded(c, i) PROVE IInv'
    BY <2>1, ReportInv
  <2>2. ASSUME NEW a \in Artifacts, Remove(a) \/ RemoveFails(a) PROVE IInv'
    BY <2>2, RemoveInv, RemoveFailsInv
  <2>3. CASE Look \/ Judge \/ DrainQuiet \/ DrainBound \/ Destroy \/ Leave
    BY <2>3, PollInv, DrainedInv, DestroyInv, EndsInv
  <2>. QED  BY <1>7, <2>1, <2>2, <2>3 DEF CloseStep
<1>8. CASE UNCHANGED vars
  BY <1>8, StutterInv
<1>. QED  BY <1>1, <1>2, <1>3, <1>4, <1>5, <1>6, <1>7, <1>8 DEF Next

LEMMA Invariance == Spec => []IInv
BY InitInv, NextInv, PTL DEF Spec
-----------------------------------------------------------------------------
\* Every variable of the daemon, its files and its frames keeps its type.
THEOREM TypeCorrect == Spec => []TypeOK
<1>1. IInv => TypeOK
  <2>. SUFFICES ASSUME IInv PROVE TypeOK
    OBVIOUS
  <2>1. /\ phase \in Phases /\ gen \in 0..MaxStarts /\ pid \in Pids \cup {Nobody}
        /\ todo \subseteq Pids /\ exit \in Reasons /\ claim.at \in 0..4
    <3>1. claim \in Claims
      BY DEF IInv, DirOK, LifeTypes
    <3>2. claim.at \in 0..4
      BY <3>1, Constants DEF Claims
    <3>. QED  BY <3>2 DEF IInv, DirOK, LifeTypes
  <2>2. /\ socket \in 0..MaxStarts /\ key \in [Pids -> 0..MaxStarts] /\ row \in [Pids -> 0..Other]
        /\ foreign \subseteq Pids /\ recycled \subseteq Lives /\ torn \subseteq Lives
    <3>1. 0..gen \subseteq 0..MaxStarts /\ 0..gen \cup {Other} \subseteq 0..Other
          /\ 1..gen \subseteq Lives
      BY <2>1, Constants
    <3>2. FileTypes
      BY DEF IInv, DirOK
    <3>. QED  BY <3>1, <3>2 DEF FileTypes
  <2>3. /\ ledger \in {"ok", "poisoned", "stuck"} /\ removing \subseteq Artifacts
        /\ missed \in BOOLEAN
        /\ drain.quiet \in 0..2 /\ drain.stage \in {"none", "sleep", "settle"}
    BY DEF IInv, StopOK, FrameTypes, Drains
  <2>4. ASSUME NEW c \in Conns
        PROVE  /\ conn[c].stage \in {"none", "backlog", "open", "gone"}
               /\ conn[c].done <= conn[c].read /\ conn[c].read <= conn[c].sent
               /\ \A i \in 1..MaxFrames : fate[c][i] \subseteq {"recorded", "refused", "named"}
    <3>1. fate[c] \in Fates
      BY DEF IInv, StopOK, FrameTypes
    <3>. QED  BY <3>1, ConnFacts DEF Fates
  <2>. QED  BY <2>1, <2>2, <2>3, <2>4 DEF TypeOK
<1>. QED  BY <1>1, Invariance, PTL

\* A stop that says it was clean left no file of its own behind and no accepted
\* frame without a row, however frames, polls, the bound and a ledger that
\* fails were ordered.
THEOREM CleanStopsAreDone == Spec => []CleanMeansDone
<1>1. IInv => CleanMeansDone
  BY DEF IInv, StopOK
<1>. QED  BY <1>1, Invariance, PTL

\* Whichever of the daemons died where, and whoever took their pids, a reclaim
\* leaves a serving daemon its socket and its key, and a start is refused only
\* for a socket that has lost its row or whose pid was taken.
THEOREM ReclaimsAreExact == Spec => []ReclaimIsExact
<1>1. IInv => ReclaimIsExact
  BY DEF IInv, DirOK
<1>. QED  BY <1>1, Invariance, PTL
=============================================================================
