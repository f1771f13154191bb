---------------------------- MODULE TgLoggerdProofs ----------------------------
(***************************************************************************)
(* Proofs about the pipeline of TgLoggerd, for every number of file        *)
(* workers, every queue size and every number of entities and updates, and *)
(* about the handlers of EventLoop that feed it, for every set of users,   *)
(* chats, messages and files, every reply graph and every cap.             *)
(***************************************************************************)
EXTENDS TgLoggerd, HandlerPromises, SequenceTheorems, TLAPS

-----------------------------------------------------------------------------
(* Where jobs are *)

Elems(s) == {s[i] : i \in 1 .. Len(s)}

\* Whatever of A is in s comes after something of B.
Precedes(s, A, B) ==
    \A i \in 1 .. Len(s) : s[i] \in A => \E k \in 1 .. i - 1 : s[k] \in B

Upserts == [kind : {"upsert"}, e : Entities, n : Nums]
UpsertsOf(e) == {j \in SerialJobs : j.kind = "upsert" /\ j.e = e}
LinksOf(e) == {j \in SerialJobs : j.kind = "link" /\ j.e = e}
FilesOf(e) == {j \in FileJobs : j.e = e}

\* What serial_ has run or is running, what it has ever accepted, and what files_
\* has ever accepted (and NoJob, for an idle worker).
sRan == {sRunning[SerialWorker]} \cup Elems(sDone)
sSeen == Elems(sPending) \cup sRan
fSeen == Elems(fPending) \cup {fRunning[w] : w \in FileWorkers} \cup Elems(fDone)

-----------------------------------------------------------------------------
(* The inductive invariant *)

\* Every update emits at most one upsert, one file and one download of an entity,
\* and the loop itself posts no links.
Bounds == /\ out \in Seq(FileJobs \cup Upserts)
          /\ \A e \in Entities : /\ upserts[e] <= received /\ files[e] <= received
                                 /\ awaiting[e] <= received

\* What start() has done to the pools, and what follows from a pool's stop.
Control ==
    /\ lpc # "loop" => out = <<>>
    /\ fOpen <=> lpc \in {"loop", "close_files"}
    /\ fStopped <=> lpc \in {"close_serial", "join_serial", "returned"}
    /\ sOpen <=> lpc \in {"loop", "close_files", "join_files", "close_serial"}
    /\ sStopped <=> lpc = "returned"
    /\ fStopped => fPending = <<>> /\ Files!Idle
    /\ sStopped => sPending = <<>> /\ Serial!Idle
    /\ \A w \in FileWorkers : stored[w] => fRunning[w] # NoJob

\* What the loop has emitted is still in its hands or has been accepted.
Kept ==
    \A e \in Entities :
        /\ \A n \in 1 .. upserts[e] : Job("upsert", e, n) \in Elems(out) \cup sSeen
        /\ \A n \in 1 .. files[e] : Job("file", e, n) \in Elems(out) \cup fSeen

\* An upsert of e is ahead of the files and links of e at every station of the way:
\* in the loop's hands, in files_, in the queue of serial_ and at its worker.
InOrder(e) ==
    /\ sRunning[SerialWorker] \in LinksOf(e) => Elems(sDone) \cap UpsertsOf(e) # {}
    /\ sRan \cap UpsertsOf(e) = {} => Precedes(sPending, LinksOf(e), UpsertsOf(e))
    /\ fSeen \cap FilesOf(e) # {} => sSeen \cap UpsertsOf(e) # {}
    /\ sSeen \cap UpsertsOf(e) = {} => Precedes(out, FilesOf(e), UpsertsOf(e))
    /\ awaiting[e] > 0 => upserts[e] > 0

Order == \A e \in Entities : InOrder(e)

Inv == TypeOK /\ Bounds /\ Control /\ Kept /\ Order

-----------------------------------------------------------------------------
(* Sequences *)

\* Append adds one element.
LEMMA AppendElems ==
    ASSUME NEW S, NEW s \in Seq(S), NEW x \in S
    PROVE  /\ Append(s, x) \in Seq(S)
           /\ Elems(Append(s, x)) = Elems(s) \cup {x}
  <1>1. /\ Append(s, x) \in Seq(S) /\ Len(Append(s, x)) = Len(s) + 1 /\ Len(s) \in Nat
        /\ \A i \in 1 .. Len(s) : Append(s, x)[i] = s[i]
        /\ Append(s, x)[Len(s) + 1] = x
    BY AppendProperties
  <1>2. \A i \in 1 .. Len(s) + 1 : i \in 1 .. Len(s) \/ i = Len(s) + 1
    BY <1>1
  <1>3. \A i \in 1 .. Len(s) : i \in 1 .. Len(s) + 1
    BY <1>1
  <1>4. Len(s) + 1 \in 1 .. Len(s) + 1
    BY <1>1
  <1>5. ASSUME NEW y \in Elems(Append(s, x)) PROVE y \in Elems(s) \cup {x}
    BY <1>1, <1>2 DEF Elems
  <1>6. ASSUME NEW y \in Elems(s) PROVE y \in Elems(Append(s, x))
    BY <1>1, <1>3 DEF Elems
  <1>7. x \in Elems(Append(s, x))
    BY <1>1, <1>4 DEF Elems
  <1> QED
    BY <1>1, <1>5, <1>6, <1>7

\* Tail drops the head and nothing else.
LEMMA TailElems ==
    ASSUME NEW S, NEW s \in Seq(S), s # <<>>
    PROVE  /\ Head(s) \in S /\ Tail(s) \in Seq(S)
           /\ Elems(s) = Elems(Tail(s)) \cup {Head(s)}
  <1>1. /\ Head(s) = s[1] /\ Head(s) \in S /\ Tail(s) \in Seq(S) /\ Len(Tail(s)) = Len(s) - 1
        /\ \A i \in 1 .. Len(Tail(s)) : Tail(s)[i] = s[i + 1]
        /\ Len(s) \in Nat /\ Len(s) >= 1
    BY HeadTailProperties, EmptySeq
  <1>2. ASSUME NEW y \in Elems(s) PROVE y \in Elems(Tail(s)) \cup {Head(s)}
    <2>1. PICK i \in 1 .. Len(s) : s[i] = y
      BY DEF Elems
    <2>2. CASE i = 1
      BY <1>1, <2>1, <2>2
    <2>3. CASE i # 1
      <3>1. i - 1 \in 1 .. Len(Tail(s)) /\ (i - 1) + 1 = i
        BY <1>1, <2>3
      <3>2. Tail(s)[i - 1] = y
        BY <1>1, <2>1, <3>1
      <3> QED
        BY <3>1, <3>2 DEF Elems
    <2> QED
      BY <2>2, <2>3
  <1>3. ASSUME NEW y \in Elems(Tail(s)) PROVE y \in Elems(s)
    <2>1. PICK i \in 1 .. Len(Tail(s)) : Tail(s)[i] = y
      BY DEF Elems
    <2>2. i + 1 \in 1 .. Len(s) /\ s[i + 1] = y
      BY <1>1, <2>1
    <2> QED
      BY <2>2 DEF Elems
  <1>4. Head(s) \in Elems(s)
    <2>1. 1 \in 1 .. Len(s)
      BY <1>1
    <2> QED
      BY <1>1, <2>1 DEF Elems
  <1> QED
    BY <1>1, <1>2, <1>3, <1>4

\* An element of A may join behind one of B.
LEMMA AppendPrecedes ==
    ASSUME NEW S, NEW s \in Seq(S), NEW x \in S, NEW A, NEW B, Precedes(s, A, B),
           x \in A => Elems(s) \cap B # {}
    PROVE  Precedes(Append(s, x), A, B)
  <1> DEFINE t == Append(s, x)
  <1>1. /\ Len(t) = Len(s) + 1 /\ Len(s) \in Nat
        /\ \A i \in 1 .. Len(s) : t[i] = s[i]
        /\ t[Len(s) + 1] = x
    BY AppendProperties
  <1> HIDE DEF t
  <1>2. ASSUME NEW i \in 1 .. Len(t), t[i] \in A PROVE \E k \in 1 .. i - 1 : t[k] \in B
    <2>1. CASE i \in 1 .. Len(s)
      <3>1. PICK k \in 1 .. i - 1 : s[k] \in B
        BY <1>1, <1>2, <2>1 DEF Precedes
      <3>2. k \in 1 .. Len(s)
        BY <1>1, <2>1
      <3> QED
        BY <1>1, <3>1, <3>2
    <2>2. CASE i = Len(s) + 1
      <3>1. PICK k \in 1 .. Len(s) : s[k] \in B
        BY <1>1, <1>2, <2>2 DEF Elems
      <3>2. k \in 1 .. i - 1
        BY <1>1, <2>2
      <3> QED
        BY <1>1, <3>1, <3>2
    <2> QED
      BY <1>1, <2>1, <2>2
  <1> QED
    BY <1>2 DEF Precedes, t

\* The head is never of A, and if it is not of B either it may go.
LEMMA TailPrecedes ==
    ASSUME NEW S, NEW s \in Seq(S), s # <<>>, NEW A, NEW B, Precedes(s, A, B)
    PROVE  /\ Head(s) \notin A
           /\ Head(s) \notin B => Precedes(Tail(s), A, B)
  <1>1. /\ Head(s) = s[1] /\ Len(Tail(s)) = Len(s) - 1
        /\ \A i \in 1 .. Len(Tail(s)) : Tail(s)[i] = s[i + 1]
        /\ Len(s) \in Nat /\ Len(s) >= 1
    BY HeadTailProperties, EmptySeq
  <1>2. Head(s) \notin A
    BY <1>1 DEF Precedes
  <1>3. ASSUME Head(s) \notin B, NEW i \in 1 .. Len(Tail(s)), Tail(s)[i] \in A
        PROVE  \E k \in 1 .. i - 1 : Tail(s)[k] \in B
    <2>1. i + 1 \in 1 .. Len(s) /\ s[i + 1] \in A
      BY <1>1, <1>3
    <2>2. PICK k \in 1 .. i + 1 - 1 : s[k] \in B
      BY <2>1 DEF Precedes
    <2>3. k # 1
      BY <1>1, <1>3, <2>2
    <2>4. k - 1 \in 1 .. i - 1 /\ k - 1 \in 1 .. Len(Tail(s)) /\ (k - 1) + 1 = k
      BY <1>1, <2>2, <2>3
    <2>5. Tail(s)[k - 1] = s[k]
      BY <1>1, <2>4
    <2> QED
      BY <2>2, <2>4, <2>5
  <1> QED
    BY <1>2, <1>3 DEF Precedes

-----------------------------------------------------------------------------
(* The steps of the pools *)

\* serial_ accepts a job.
LEMMA SerialAccept ==
    ASSUME Serial!TypeOK, NEW j \in SerialJobs, Serial!Accept(j)
    PROVE  /\ Serial!TypeOK' /\ sOpen
           /\ sPending' = Append(sPending, j)
           /\ sRan' = sRan /\ sSeen' = sSeen \cup {j}
           /\ UNCHANGED <<sRunning, sDone, sOpen, sStopped>>
  <1>1. sPending' = Append(sPending, j) /\ UNCHANGED <<sRunning, sDone, sOpen, sStopped>> /\ sOpen
    BY DEF Serial!Accept
  <1>2. sPending \in Seq(SerialJobs)
    BY DEF Serial!TypeOK
  <1>3. sPending' \in Seq(SerialJobs) /\ Elems(sPending') = Elems(sPending) \cup {j}
    BY <1>1, <1>2, AppendElems
  <1>4. sRan' = sRan
    BY <1>1 DEF sRan, Elems
  <1>5. sSeen' = sSeen \cup {j}
    <2>1. sSeen' = Elems(sPending') \cup sRan'
      BY DEF sSeen, Elems
    <2> QED
      BY <1>3, <1>4, <2>1 DEF sSeen
  <1> QED
    BY <1>1, <1>3, <1>4, <1>5 DEF Serial!TypeOK

\* The worker of serial_ takes the oldest job.
LEMMA SerialStart ==
    ASSUME Serial!TypeOK, Serial!Start(SerialWorker)
    PROVE  /\ Serial!TypeOK' /\ sPending # <<>> /\ sPending' = Tail(sPending)
           /\ sRunning[SerialWorker] = NoJob /\ sRunning'[SerialWorker] = Head(sPending)
           /\ Head(sPending) \in SerialJobs
           /\ sRan' = {Head(sPending)} \cup Elems(sDone)
           /\ sSeen = sSeen' \cup {NoJob}
           /\ UNCHANGED <<sDone, sOpen, sStopped>>
  <1>1. /\ sRunning[SerialWorker] = NoJob /\ sPending # <<>>
        /\ sRunning' = [sRunning EXCEPT ![SerialWorker] = Head(sPending)]
        /\ sPending' = Tail(sPending)
        /\ UNCHANGED <<sDone, sOpen, sStopped>>
    BY DEF Serial!Start
  <1>2. sPending \in Seq(SerialJobs) /\ sRunning \in [{SerialWorker} -> SerialJobs \cup {NoJob}]
    BY DEF Serial!TypeOK
  <1>3. /\ Head(sPending) \in SerialJobs /\ sPending' \in Seq(SerialJobs)
        /\ Elems(sPending) = Elems(sPending') \cup {Head(sPending)}
    BY <1>1, <1>2, TailElems
  <1>4. sRunning' \in [{SerialWorker} -> SerialJobs \cup {NoJob}]
        /\ sRunning'[SerialWorker] = Head(sPending)
    BY <1>1, <1>2, <1>3
  <1>5. sRan' = {Head(sPending)} \cup Elems(sDone)
    BY <1>1, <1>4 DEF sRan, Elems
  <1>6. sSeen' = Elems(sPending') \cup sRan'
    BY DEF sSeen, Elems
  <1>7. sSeen = Elems(sPending) \cup {NoJob} \cup Elems(sDone)
    BY <1>1 DEF sSeen, sRan
  <1>8. sSeen = sSeen' \cup {NoJob}
    BY <1>3, <1>5, <1>6, <1>7
  <1> QED
    BY <1>1, <1>3, <1>4, <1>5, <1>8 DEF Serial!TypeOK

\* The worker of serial_ has finished its job.
LEMMA SerialFinish ==
    ASSUME Serial!TypeOK, Serial!Finish(SerialWorker)
    PROVE  /\ Serial!TypeOK' /\ sRunning[SerialWorker] \in SerialJobs
           /\ sRunning'[SerialWorker] = NoJob
           /\ Elems(sDone) \subseteq Elems(sDone)'
           /\ sRan' = sRan \cup {NoJob} /\ sSeen' = sSeen \cup {NoJob}
           /\ UNCHANGED <<sPending, sOpen, sStopped>>
  <1>1. /\ sRunning[SerialWorker] # NoJob
        /\ sRunning' = [sRunning EXCEPT ![SerialWorker] = NoJob]
        /\ sDone' = Append(sDone, sRunning[SerialWorker])
        /\ UNCHANGED <<sPending, sOpen, sStopped>>
    BY DEF Serial!Finish
  <1>2. sDone \in Seq(SerialJobs) /\ sRunning \in [{SerialWorker} -> SerialJobs \cup {NoJob}]
    BY DEF Serial!TypeOK
  <1>3. sRunning[SerialWorker] \in SerialJobs
    BY <1>1, <1>2
  <1>4. /\ sDone' \in Seq(SerialJobs)
        /\ Elems(sDone') = Elems(sDone) \cup {sRunning[SerialWorker]}
    BY <1>1, <1>2, <1>3, AppendElems
  <1>5. sRunning' \in [{SerialWorker} -> SerialJobs \cup {NoJob}]
        /\ sRunning'[SerialWorker] = NoJob
    BY <1>1, <1>2
  <1>6. Elems(sDone)' = Elems(sDone') /\ Elems(sPending)' = Elems(sPending)
    BY <1>1 DEF Elems
  <1>7. sRan' = sRan \cup {NoJob}
    BY <1>4, <1>5, <1>6 DEF sRan
  <1>8. sSeen' = sSeen \cup {NoJob}
    BY <1>6, <1>7 DEF sSeen
  <1> QED
    BY <1>1, <1>3, <1>4, <1>5, <1>6, <1>7, <1>8 DEF Serial!TypeOK

\* files_ accepts a job.
LEMMA FilesAccept ==
    ASSUME Files!TypeOK, NEW j \in FileJobs, Files!Accept(j)
    PROVE  /\ Files!TypeOK' /\ fOpen
           /\ fSeen' = fSeen \cup {j}
           /\ UNCHANGED <<fRunning, fDone, fOpen, fStopped>>
  <1>1. fPending' = Append(fPending, j) /\ UNCHANGED <<fRunning, fDone, fOpen, fStopped>> /\ fOpen
    BY DEF Files!Accept
  <1>2. fPending \in Seq(FileJobs)
    BY DEF Files!TypeOK
  <1>3. fPending' \in Seq(FileJobs) /\ Elems(fPending') = Elems(fPending) \cup {j}
    BY <1>1, <1>2, AppendElems
  <1>4. fSeen' = Elems(fPending') \cup {fRunning[w] : w \in FileWorkers} \cup Elems(fDone)
    BY <1>1 DEF fSeen, Elems
  <1>5. fSeen' = fSeen \cup {j}
    BY <1>3, <1>4 DEF fSeen
  <1> QED
    BY <1>1, <1>3, <1>5 DEF Files!TypeOK

\* A worker of files_ takes the oldest job.
LEMMA FilesStart ==
    ASSUME Files!TypeOK, NEW w \in FileWorkers, Files!Start(w)
    PROVE  /\ Files!TypeOK' /\ fPending # <<>> /\ fRunning[w] = NoJob /\ fRunning'[w] \in FileJobs
           /\ \A v \in FileWorkers : v # w => fRunning'[v] = fRunning[v]
           /\ fSeen \subseteq fSeen' \cup {NoJob} /\ fSeen' \subseteq fSeen
           /\ UNCHANGED <<fDone, fOpen, fStopped>>
  <1>1. /\ fRunning[w] = NoJob /\ fPending # <<>>
        /\ fRunning' = [fRunning EXCEPT ![w] = Head(fPending)]
        /\ fPending' = Tail(fPending)
        /\ UNCHANGED <<fDone, fOpen, fStopped>>
    BY DEF Files!Start
  <1>2. fPending \in Seq(FileJobs) /\ fRunning \in [FileWorkers -> FileJobs \cup {NoJob}]
    BY DEF Files!TypeOK
  <1>3. /\ Head(fPending) \in FileJobs /\ fPending' \in Seq(FileJobs)
        /\ Elems(fPending) = Elems(fPending') \cup {Head(fPending)}
    BY <1>1, <1>2, TailElems
  <1>4. /\ fRunning' \in [FileWorkers -> FileJobs \cup {NoJob}]
        /\ fRunning'[w] = Head(fPending)
        /\ \A v \in FileWorkers : v # w => fRunning'[v] = fRunning[v]
    BY <1>1, <1>2, <1>3
  <1>5. fSeen' = Elems(fPending') \cup {fRunning'[v] : v \in FileWorkers} \cup Elems(fDone)
    BY <1>1 DEF fSeen, Elems
  <1>6. fSeen \subseteq fSeen' \cup {NoJob}
    BY <1>1, <1>3, <1>4, <1>5 DEF fSeen
  <1>7. fSeen' \subseteq fSeen
    BY <1>3, <1>4, <1>5 DEF fSeen
  <1> QED
    BY <1>1, <1>3, <1>4, <1>6, <1>7 DEF Files!TypeOK

\* A worker of files_ has finished its job.
LEMMA FilesFinish ==
    ASSUME Files!TypeOK, NEW w \in FileWorkers, Files!Finish(w)
    PROVE  /\ Files!TypeOK' /\ fRunning[w] \in FileJobs /\ fRunning'[w] = NoJob
           /\ \A v \in FileWorkers : v # w => fRunning'[v] = fRunning[v]
           /\ fSeen \subseteq fSeen' /\ fSeen' \subseteq fSeen \cup {NoJob}
           /\ UNCHANGED <<fPending, fOpen, fStopped>>
  <1>1. /\ fRunning[w] # NoJob
        /\ fRunning' = [fRunning EXCEPT ![w] = NoJob]
        /\ fDone' = Append(fDone, fRunning[w])
        /\ UNCHANGED <<fPending, fOpen, fStopped>>
    BY DEF Files!Finish
  <1>2. fDone \in Seq(FileJobs) /\ fRunning \in [FileWorkers -> FileJobs \cup {NoJob}]
    BY DEF Files!TypeOK
  <1>3. fRunning[w] \in FileJobs
    BY <1>1, <1>2
  <1>4. fDone' \in Seq(FileJobs) /\ Elems(fDone') = Elems(fDone) \cup {fRunning[w]}
    BY <1>1, <1>2, <1>3, AppendElems
  <1>5. /\ fRunning' \in [FileWorkers -> FileJobs \cup {NoJob}] /\ fRunning'[w] = NoJob
        /\ \A v \in FileWorkers : v # w => fRunning'[v] = fRunning[v]
    BY <1>1, <1>2
  <1>6. fSeen' = Elems(fPending) \cup {fRunning'[v] : v \in FileWorkers} \cup Elems(fDone')
    BY <1>1 DEF fSeen, Elems
  <1>7. fSeen \subseteq fSeen'
    BY <1>4, <1>5, <1>6 DEF fSeen
  <1>8. fSeen' \subseteq fSeen \cup {NoJob}
    BY <1>4, <1>5, <1>6 DEF fSeen
  <1> QED
    BY <1>1, <1>3, <1>4, <1>5, <1>7, <1>8 DEF Files!TypeOK

-----------------------------------------------------------------------------
(* Frames: steps that leave most of the pipeline alone *)

\* Jobs and the kinds of them.
LEMMA JobFacts ==
    ASSUME NEW e \in Entities, NEW n \in Nums
    PROVE  /\ Job("upsert", e, n) \in Upserts /\ Job("upsert", e, n) \in UpsertsOf(e)
           /\ Job("file", e, n) \in FileJobs /\ Job("file", e, n) \in FilesOf(e)
           /\ Job("link", e, n) \in SerialJobs /\ Job("link", e, n) \in LinksOf(e)
  BY DEF Job, Upserts, UpsertsOf, FileJobs, FilesOf, SerialJobs, LinksOf

\* The kinds are disjoint and a job is of one entity.
LEMMA KindFacts ==
    /\ Upserts \subseteq SerialJobs
    /\ NoJob \notin FileJobs /\ NoJob \notin SerialJobs
    /\ \A j \in FileJobs : j.kind = "file" /\ \A e \in Entities : j \notin UpsertsOf(e)
    /\ \A j \in Upserts : /\ j.kind = "upsert"
                          /\ \A e \in Entities : j \notin LinksOf(e) /\ j \notin FilesOf(e)
    /\ \A j \in SerialJobs : \A e \in Entities : ~(j \in UpsertsOf(e) /\ j \in LinksOf(e))
    /\ \A e, d \in Entities : e # d => /\ FilesOf(e) \cap FilesOf(d) = {}
                                       /\ LinksOf(e) \cap LinksOf(d) = {}
    /\ \A e \in Entities : UpsertsOf(e) \subseteq SerialJobs /\ LinksOf(e) \subseteq SerialJobs
                            /\ FilesOf(e) \subseteq FileJobs
  BY NoJobAssumption DEF Upserts, SerialJobs, FileJobs, UpsertsOf, LinksOf, FilesOf

\* The jobs that Kept speaks of are jobs.
LEMMA EmittedJobs ==
    ASSUME Inv, NEW e \in Entities
    PROVE  /\ \A n \in 1 .. upserts[e] : n \in Nums /\ Job("upsert", e, n) \in Upserts
           /\ \A n \in 1 .. files[e] : n \in Nums /\ Job("file", e, n) \in FileJobs
  <1>1. upserts[e] \in 0 .. MaxUpdates /\ files[e] \in 0 .. MaxUpdates
    BY DEF Inv, TypeOK
  <1>2. \A n \in 1 .. upserts[e] : n \in Nums
    BY <1>1, MaxUpdatesAssumption DEF Nums
  <1>3. \A n \in 1 .. files[e] : n \in Nums
    BY <1>1, MaxUpdatesAssumption DEF Nums
  <1> QED
    BY <1>2, <1>3, JobFacts

\* Nothing is emitted, no upsert and no file is lost.
LEMMA MoreKept ==
    ASSUME Inv, UNCHANGED <<upserts, files>>,
           \A j \in Upserts : j \in Elems(out) \cup sSeen => j \in Elems(out)' \cup sSeen',
           \A j \in FileJobs : j \in Elems(out) \cup fSeen => j \in Elems(out)' \cup fSeen'
    PROVE  Kept'
  <1>1. ASSUME NEW e \in Entities
        PROVE  /\ \A n \in 1 .. upserts'[e] : Job("upsert", e, n) \in Elems(out)' \cup sSeen'
               /\ \A n \in 1 .. files'[e] : Job("file", e, n) \in Elems(out)' \cup fSeen'
    <2>1. /\ \A n \in 1 .. upserts[e] : Job("upsert", e, n) \in Upserts
          /\ \A n \in 1 .. files[e] : Job("file", e, n) \in FileJobs
      BY EmittedJobs
    <2>2. /\ \A n \in 1 .. upserts[e] : Job("upsert", e, n) \in Elems(out) \cup sSeen
          /\ \A n \in 1 .. files[e] : Job("file", e, n) \in Elems(out) \cup fSeen
      BY DEF Inv, Kept
    <2> QED
      BY <2>1, <2>2
  <1> QED
    BY <1>1 DEF Kept, Job

\* The pools lose nothing, and the loop keeps its hands still.
LEMMA KeptFrame ==
    ASSUME Inv, UNCHANGED <<out, upserts, files>>,
           sSeen \subseteq sSeen' \cup {NoJob}, fSeen \subseteq fSeen' \cup {NoJob}
    PROVE  Kept'
  <1>1. Elems(out)' = Elems(out)
    BY DEF Elems
  <1>2. NoJob \notin Upserts /\ NoJob \notin FileJobs
    BY KindFacts
  <1>3. /\ \A j \in Upserts : j \in Elems(out) \cup sSeen => j \in Elems(out)' \cup sSeen'
        /\ \A j \in FileJobs : j \in Elems(out) \cup fSeen => j \in Elems(out)' \cup fSeen'
    BY <1>1, <1>2
  <1> QED
    BY <1>3, MoreKept

\* files_ takes a step of its own.
LEMMA OrderFrame ==
    ASSUME Inv, UNCHANGED <<out, upserts, awaiting, sPending, sRunning, sDone>>,
           fSeen' \subseteq fSeen \cup {NoJob}
    PROVE  Order' /\ sSeen' = sSeen
  <1>1. sRan' = sRan /\ sSeen' = sSeen /\ Elems(sDone)' = Elems(sDone)
    BY DEF sRan, sSeen, Elems
  <1>2. ASSUME NEW e \in Entities PROVE InOrder(e)'
    <2>1. InOrder(e)
      BY DEF Inv, Order
    <2>2. fSeen' \cap FilesOf(e) # {} => fSeen \cap FilesOf(e) # {}
      BY KindFacts
    <2> QED
      BY <1>1, <2>1, <2>2 DEF InOrder, Precedes, LinksOf, UpsertsOf, FilesOf
  <1> QED
    BY <1>1, <1>2 DEF Order

\* The loop neither receives nor emits.
LEMMA BoundsFrame ==
    ASSUME Inv, UNCHANGED <<out, received, upserts, files, awaiting>>
    PROVE  Bounds'
  BY DEF Inv, Bounds, Upserts

-----------------------------------------------------------------------------
(* What an update makes the loop emit *)

\* A row that has been emitted has been posted once the handler is done.
LEMMA Announced ==
    ASSUME Inv, NEW e \in Entities, out = <<>>, upserts[e] > 0
    PROVE  sSeen \cap UpsertsOf(e) # {}
  <1>1. upserts[e] \in 0 .. MaxUpdates
    BY DEF Inv, TypeOK
  <1>2. 1 \in 1 .. upserts[e]
    BY <1>1
  <1>3. Job("upsert", e, 1) \in Elems(out) \cup sSeen
    BY <1>2 DEF Inv, Kept
  <1>4. Elems(out) = {}
    BY DEF Elems
  <1>5. Job("upsert", e, 1) \in UpsertsOf(e)
    BY <1>2, EmittedJobs, JobFacts
  <1> QED
    BY <1>3, <1>4, <1>5

\* An update: the counters of e become u, f and a, and out holds what has been counted.
Emission(e, u, f, a, s) ==
    /\ ReceiveUpdate
    /\ UNCHANGED <<fVars, sVars, lpc, stored, stop, rows, link>>
    /\ u \in {upserts[e], upserts[e] + 1} /\ upserts' = [upserts EXCEPT ![e] = u]
    /\ f \in {files[e], files[e] + 1} /\ files' = [files EXCEPT ![e] = f]
    /\ a \in Nat /\ a <= awaiting[e] + 1 /\ awaiting' = [awaiting EXCEPT ![e] = a]
    /\ a > 0 => u > 0
    /\ s \in Seq(FileJobs \cup Upserts) /\ out' = s
    /\ u # upserts[e] => UpsertOf(e) \in Elems(s)
    /\ f # files[e] => FileOf(e) \in Elems(s)
    /\ Elems(s) \subseteq {UpsertOf(e), FileOf(e)}
    /\ sSeen \cap UpsertsOf(e) = {} => Precedes(s, FilesOf(e), UpsertsOf(e))

\* Whatever an update emits goes to the loop's hands, the row before the file.
LEMMA EmitStep ==
    ASSUME Inv, NEW e \in Entities, NEW u, NEW f, NEW a, NEW s, Emission(e, u, f, a, s)
    PROVE  Inv'
  <1> USE DEF Emission
  <1>1. /\ lpc = "loop" /\ out = <<>> /\ received < MaxUpdates /\ received' = received + 1
    BY DEF ReceiveUpdate
  <1>2. /\ received \in 0 .. MaxUpdates /\ MaxUpdates \in Nat
        /\ upserts \in [Entities -> 0 .. MaxUpdates] /\ files \in [Entities -> 0 .. MaxUpdates]
        /\ awaiting \in [Entities -> 0 .. MaxUpdates]
    BY MaxUpdatesAssumption DEF Inv, TypeOK
  <1>3. \A d \in Entities : upserts[d] <= received /\ files[d] <= received /\ awaiting[d] <= received
    BY DEF Inv, Bounds
  <1>4. u \in 0 .. received' /\ f \in 0 .. received' /\ a \in 0 .. received'
        /\ received' \in 0 .. MaxUpdates
    BY <1>1, <1>2, <1>3
  <1>5. /\ upserts' \in [Entities -> 0 .. MaxUpdates] /\ files' \in [Entities -> 0 .. MaxUpdates]
        /\ awaiting' \in [Entities -> 0 .. MaxUpdates]
        /\ upserts'[e] = u /\ files'[e] = f /\ awaiting'[e] = a
        /\ \A d \in Entities : d # e => /\ upserts'[d] = upserts[d] /\ files'[d] = files[d]
                                        /\ awaiting'[d] = awaiting[d]
    BY <1>2, <1>4
  <1>6. TypeOK'
    <2>1. s \in Seq(FileJobs \cup SerialJobs)
      BY KindFacts
    <2>2. Files!TypeOK' /\ Serial!TypeOK'
      BY DEF Inv, TypeOK, Files!TypeOK, Serial!TypeOK, fVars, sVars
    <2> QED
      BY <1>4, <1>5, <2>1, <2>2 DEF Inv, TypeOK
  <1>7. Bounds'
    <2>1. \A d \in Entities : /\ upserts'[d] <= received' /\ files'[d] <= received'
                              /\ awaiting'[d] <= received'
      BY <1>1, <1>2, <1>3, <1>4, <1>5
    <2> QED
      BY <2>1 DEF Bounds, Upserts
  <1>8. Control'
    BY <1>1 DEF Inv, Control, fVars, sVars, Files!Idle, Serial!Idle
  <1>9. sSeen' = sSeen /\ fSeen' = fSeen /\ sRan' = sRan /\ Elems(sDone)' = Elems(sDone)
    BY DEF sSeen, fSeen, sRan, Elems, fVars, sVars
  <1>10. Elems(out)' = Elems(s) /\ Elems(out) = {}
    BY <1>1 DEF Elems
  <1>11. Kept'
    <2>1. ASSUME NEW d \in Entities, NEW n \in 1 .. upserts'[d]
          PROVE  Job("upsert", d, n) \in Elems(s) \cup sSeen
      <3>1. CASE n \in 1 .. upserts[d]
        BY <1>10, <3>1 DEF Inv, Kept
      <3>2. CASE n \notin 1 .. upserts[d]
        <4>1. d = e /\ n = upserts[e] + 1 /\ u # upserts[e]
          BY <1>2, <1>5, <3>2
        <4> QED
          BY <4>1 DEF UpsertOf
      <3> QED
        BY <3>1, <3>2
    <2>2. ASSUME NEW d \in Entities, NEW n \in 1 .. files'[d]
          PROVE  Job("file", d, n) \in Elems(s) \cup fSeen
      <3>1. CASE n \in 1 .. files[d]
        BY <1>10, <3>1 DEF Inv, Kept
      <3>2. CASE n \notin 1 .. files[d]
        <4>1. d = e /\ n = files[e] + 1 /\ f # files[e]
          BY <1>2, <1>5, <3>2
        <4> QED
          BY <4>1 DEF FileOf
      <3> QED
        BY <3>1, <3>2
    <2> QED
      BY <1>9, <1>10, <2>1, <2>2 DEF Kept, Job
  <1>12. ASSUME NEW d \in Entities PROVE InOrder(d)'
    <2>1. InOrder(d)
      BY DEF Inv, Order
    <2>2. sSeen \cap UpsertsOf(d) = {} => Precedes(s, FilesOf(d), UpsertsOf(d))
      <3>1. CASE d = e
        BY <3>1
      <3>2. CASE d # e
        <4>1. UpsertOf(e) \notin FilesOf(d) /\ FileOf(e) \notin FilesOf(d)
          BY <3>2 DEF UpsertOf, FileOf, Job, FilesOf, FileJobs
        <4>2. \A i \in 1 .. Len(s) : s[i] \notin FilesOf(d)
          BY <4>1 DEF Elems
        <4> QED
          BY <4>2 DEF Precedes
      <3> QED
        BY <3>1, <3>2
    <2>3. awaiting'[d] > 0 => upserts'[d] > 0
      BY <1>5, <2>1 DEF InOrder
    <2>4. sRunning' = sRunning /\ sPending' = sPending
      BY DEF sVars
    <2> QED
      BY <1>9, <2>1, <2>2, <2>3, <2>4 DEF InOrder, Precedes, LinksOf, UpsertsOf, FilesOf
  <1> QED
    BY <1>6, <1>7, <1>8, <1>11, <1>12 DEF Inv, Order

\* The four things that an update leaves in the hands of the handler.
LEMMA OutForms ==
    ASSUME Inv, NEW e \in Entities, received < MaxUpdates
    PROVE  LET U == UpsertOf(e)
               F == FileOf(e)
           IN  /\ \A s \in {<<>>, <<U>>, <<F>>, <<U, F>>} : s \in Seq(FileJobs \cup Upserts)
               /\ Elems(<<>>) = {} /\ Elems(<<U>>) = {U} /\ Elems(<<F>>) = {F}
               /\ Elems(<<U, F>>) = {U, F}
               /\ \A s \in {<<>>, <<U>>, <<U, F>>} : Precedes(s, FilesOf(e), UpsertsOf(e))
  <1> DEFINE U == UpsertOf(e)
             F == FileOf(e)
  <1>1. upserts[e] + 1 \in Nums /\ files[e] + 1 \in Nums
    <2>1. /\ upserts[e] \in 0 .. MaxUpdates /\ files[e] \in 0 .. MaxUpdates
          /\ upserts[e] <= received /\ files[e] <= received /\ received \in 0 .. MaxUpdates
      BY DEF Inv, TypeOK, Bounds
    <2> QED
      BY <2>1, MaxUpdatesAssumption DEF Nums
  <1>2. U \in Upserts /\ U \in UpsertsOf(e) /\ F \in FileJobs
    BY <1>1, JobFacts DEF UpsertOf, FileOf
  <1>3. U \notin FilesOf(e)
    BY <1>2, KindFacts
  <1> HIDE DEF U, F
  <1>4. \A s \in {<<>>, <<U>>, <<F>>, <<U, F>>} : s \in Seq(FileJobs \cup Upserts)
    <2> DEFINE J == FileJobs \cup Upserts
    <2>1. U \in J /\ F \in J
      BY <1>2
    <2> HIDE DEF J
    <2>2. <<>> \in Seq(J) /\ <<U>> \in Seq(J) /\ <<F>> \in Seq(J) /\ <<U, F>> \in Seq(J)
      BY <2>1
    <2> QED
      BY <2>2 DEF J
  <1>5. Elems(<<>>) = {} /\ Elems(<<U>>) = {U} /\ Elems(<<F>>) = {F}
    <2>1. 1 .. 0 = {} /\ 1 .. 1 = {1}
      OBVIOUS
    <2>2. ASSUME NEW x PROVE Elems(<<x>>) = {x}
      <3>1. Len(<<x>>) = 1 /\ <<x>>[1] = x
        OBVIOUS
      <3> QED
        BY <2>1, <3>1, Zenon DEF Elems
    <2>3. Len(<<>>) = 0
      OBVIOUS
    <2>4. Elems(<<>>) = {}
      BY <2>1, <2>3, Zenon DEF Elems
    <2> QED
      BY <2>2, <2>4
  <1>6. Elems(<<U, F>>) = {U, F}
    <2>1. 1 .. 2 = {1, 2} /\ Len(<<U, F>>) = 2 /\ <<U, F>>[1] = U /\ <<U, F>>[2] = F
      OBVIOUS
    <2> QED
      BY <2>1, Zenon DEF Elems
  <1>7. Precedes(<<>>, FilesOf(e), UpsertsOf(e)) /\ Precedes(<<U>>, FilesOf(e), UpsertsOf(e))
    BY <1>3 DEF Precedes
  <1>8. Precedes(<<U, F>>, FilesOf(e), UpsertsOf(e))
    <2>1. ASSUME NEW i \in 1 .. 2, <<U, F>>[i] \in FilesOf(e)
          PROVE  \E k \in 1 .. i - 1 : <<U, F>>[k] \in UpsertsOf(e)
      <3>1. i = 2
        BY <1>3, <2>1
      <3>2. 1 \in 1 .. i - 1 /\ <<U, F>>[1] = U
        BY <3>1
      <3> QED
        BY <1>2, <3>2
    <2>2. Len(<<U, F>>) = 2
      OBVIOUS
    <2> QED
      BY <2>1, <2>2 DEF Precedes
  <1> QED
    BY <1>4, <1>5, <1>6, <1>7, <1>8 DEF U, F

\* One lemma for the three updates.
LEMMA UpdateStep ==
    ASSUME Inv, NEW e \in Entities, OnEntity(e) \/ OnGroupPhoto(e) \/ OnFile(e)
    PROVE  Inv'
  <1> DEFINE U == UpsertOf(e)
             F == FileOf(e)
  <1>1. ReceiveUpdate /\ UNCHANGED <<fVars, sVars, lpc, stored, stop, rows, link>>
    BY DEF OnEntity, OnGroupPhoto, OnFile
  <1>2. out = <<>> /\ received < MaxUpdates
    BY <1>1 DEF ReceiveUpdate
  <1>3. /\ <<>> \in Seq(FileJobs \cup Upserts) /\ <<U>> \in Seq(FileJobs \cup Upserts)
        /\ <<F>> \in Seq(FileJobs \cup Upserts) /\ <<U, F>> \in Seq(FileJobs \cup Upserts)
        /\ Elems(<<>>) = {} /\ Elems(<<U>>) = {U} /\ Elems(<<F>>) = {F}
        /\ Elems(<<U, F>>) = {U, F}
        /\ Precedes(<<>>, FilesOf(e), UpsertsOf(e))
        /\ Precedes(<<U>>, FilesOf(e), UpsertsOf(e))
        /\ Precedes(<<U, F>>, FilesOf(e), UpsertsOf(e))
    BY <1>2, OutForms
  <1>4. /\ upserts \in [Entities -> 0 .. MaxUpdates] /\ files \in [Entities -> 0 .. MaxUpdates]
        /\ awaiting \in [Entities -> 0 .. MaxUpdates]
    BY DEF Inv, TypeOK
  <1>5. /\ upserts[e] \in Nat /\ files[e] \in Nat /\ awaiting[e] \in Nat
        /\ awaiting[e] > 0 => upserts[e] > 0
    BY <1>4, MaxUpdatesAssumption DEF Inv, Order, InOrder
  <1>6. /\ [upserts EXCEPT ![e] = upserts[e]] = upserts /\ [files EXCEPT ![e] = files[e]] = files
        /\ [awaiting EXCEPT ![e] = awaiting[e]] = awaiting
    BY <1>4
  <1>7. upserts[e] > 0 => sSeen \cap UpsertsOf(e) # {}
    BY <1>2, Announced
  <1> HIDE DEF U, F
  <1>8. CASE OnEntity(e)
    <2>1. upserts' = [upserts EXCEPT ![e] = upserts[e] + 1]
      BY <1>8 DEF OnEntity
    <2>2. CASE out' = <<U>> /\ UNCHANGED <<files, awaiting>>
      <3>1. Emission(e, upserts[e] + 1, files[e], awaiting[e], <<U>>)
        BY <1>1, <1>3, <1>5, <1>6, <2>1, <2>2 DEF Emission, U, F
      <3> QED
        BY <3>1, EmitStep
    <2>3. CASE out' = <<U, F>> /\ EmitFile(e)
      <3>1. files' = [files EXCEPT ![e] = files[e] + 1] /\ awaiting' = awaiting
        BY <2>3 DEF EmitFile
      <3>2. Emission(e, upserts[e] + 1, files[e] + 1, awaiting[e], <<U, F>>)
        BY <1>1, <1>3, <1>5, <1>6, <2>1, <2>3, <3>1 DEF Emission, U, F
      <3> QED
        BY <3>2, EmitStep
    <2>4. CASE out' = <<U>> /\ RequestDownload(e)
      <3>1. awaiting' = [awaiting EXCEPT ![e] = awaiting[e] + 1] /\ files' = files
        BY <2>4 DEF RequestDownload
      <3>2. awaiting[e] + 1 \in Nat /\ upserts[e] + 1 > 0
        BY <1>5
      <3>3. Emission(e, upserts[e] + 1, files[e], awaiting[e] + 1, <<U>>)
        BY <1>1, <1>3, <1>5, <1>6, <2>1, <2>4, <3>1, <3>2 DEF Emission, U, F
      <3> QED
        BY <3>3, EmitStep
    <2> QED
      BY <1>8, <2>2, <2>3, <2>4 DEF OnEntity, U, F
  <1>9. CASE OnGroupPhoto(e)
    <2>1. upserts' = upserts /\ upserts[e] > 0
      BY <1>9 DEF OnGroupPhoto
    <2>2. CASE out' = <<F>> /\ EmitFile(e)
      <3>1. files' = [files EXCEPT ![e] = files[e] + 1] /\ awaiting' = awaiting
        BY <2>2 DEF EmitFile
      <3>2. Emission(e, upserts[e], files[e] + 1, awaiting[e], <<F>>)
        BY <1>1, <1>3, <1>5, <1>6, <1>7, <2>1, <2>2, <3>1 DEF Emission, U, F
      <3> QED
        BY <3>2, EmitStep
    <2>3. CASE out' = <<>> /\ RequestDownload(e)
      <3>1. awaiting' = [awaiting EXCEPT ![e] = awaiting[e] + 1] /\ files' = files
        BY <2>3 DEF RequestDownload
      <3>2. awaiting[e] + 1 \in Nat
        BY <1>5
      <3>3. Emission(e, upserts[e], files[e], awaiting[e] + 1, <<>>)
        BY <1>1, <1>3, <1>5, <1>6, <2>1, <2>3, <3>1, <3>2 DEF Emission, U, F
      <3> QED
        BY <3>3, EmitStep
    <2> QED
      BY <1>9, <2>2, <2>3 DEF OnGroupPhoto, F
  <1>10. CASE OnFile(e)
    <2>1. /\ upserts' = upserts /\ awaiting[e] > 0 /\ out' = <<F>>
          /\ awaiting' = [awaiting EXCEPT ![e] = awaiting[e] - 1]
          /\ files' = [files EXCEPT ![e] = files[e] + 1]
      BY <1>10 DEF OnFile, F
    <2>2. awaiting[e] - 1 \in Nat /\ awaiting[e] - 1 <= awaiting[e] + 1 /\ upserts[e] > 0
      BY <1>5, <2>1
    <2>3. Emission(e, upserts[e], files[e] + 1, awaiting[e] - 1, <<F>>)
      BY <1>1, <1>3, <1>5, <1>6, <1>7, <2>1, <2>2 DEF Emission, U, F
    <2> QED
      BY <2>3, EmitStep
  <1> QED
    BY <1>8, <1>9, <1>10

-----------------------------------------------------------------------------
(* The loop posts and shuts down *)

\* The handler posts its next job: it reaches the pool before it leaves the loop.
LEMMA PostNextStep ==
    ASSUME Inv, PostNext
    PROVE  Inv'
  <1> DEFINE h == Head(out)
  <1>1. out # <<>> /\ out' = Tail(out) /\ out \in Seq(FileJobs \cup Upserts)
    BY DEF PostNext, Inv, Bounds
  <1>2. /\ h \in FileJobs \cup Upserts /\ Tail(out) \in Seq(FileJobs \cup Upserts)
        /\ Elems(out) = Elems(Tail(out)) \cup {h}
    BY <1>1, TailElems
  <1>3. UNCHANGED <<lpc, received, upserts, files, awaiting, stored, stop, rows, link>>
    BY DEF PostNext
  <1>4. Files!TypeOK /\ Serial!TypeOK /\ lpc = "loop"
    BY <1>1 DEF Inv, TypeOK, Control
  <1>5. Tail(out) \in Seq(FileJobs \cup SerialJobs)
    BY <1>2, KindFacts
  <1>6. Bounds'
    BY <1>1, <1>2, <1>3 DEF Inv, Bounds, Upserts
  <1>7. Elems(out)' = Elems(Tail(out))
    BY <1>1 DEF Elems
  <1> HIDE DEF h
  <1>8. ASSUME h.kind = "file" PROVE Inv'
    <2>1. h \in FileJobs
      BY <1>2, <1>8, KindFacts
    <2>2. Files!Accept(h) /\ UNCHANGED sVars
      BY <1>8 DEF PostNext, h
    <2>3. /\ Files!TypeOK' /\ fSeen' = fSeen \cup {h}
          /\ UNCHANGED <<fRunning, fDone, fOpen, fStopped>>
      BY <1>4, <2>1, <2>2, FilesAccept
    <2>4. /\ sSeen' = sSeen /\ sRan' = sRan /\ Elems(sDone)' = Elems(sDone)
          /\ sRunning' = sRunning /\ sPending' = sPending
      BY <2>2 DEF sSeen, sRan, Elems, sVars
    <2>5. TypeOK'
      BY <1>1, <1>3, <1>5, <2>2, <2>3 DEF Inv, TypeOK, Serial!TypeOK, sVars
    <2>6. Control'
      BY <1>3, <1>4, <2>2, <2>3 DEF Inv, Control, sVars, Serial!Idle, Files!Idle
    <2>7. Kept'
      <3>1. h \notin Upserts
        BY <2>1, KindFacts DEF FileJobs, Upserts
      <3>2. /\ \A j \in Upserts : j \in Elems(out) \cup sSeen => j \in Elems(out)' \cup sSeen'
            /\ \A j \in FileJobs : j \in Elems(out) \cup fSeen => j \in Elems(out)' \cup fSeen'
        BY <1>2, <1>7, <2>3, <2>4, <3>1
      <3>3. UNCHANGED <<upserts, files>>
        BY <1>3
      <3> QED
        BY <3>2, <3>3, MoreKept
    <2>8. ASSUME NEW e \in Entities PROVE InOrder(e)'
      <3>1. InOrder(e)
        BY DEF Inv, Order
      <3>2. h \notin UpsertsOf(e)
        BY <2>1, KindFacts
      <3>3. sSeen \cap UpsertsOf(e) = {} =>
                h \notin FilesOf(e) /\ Precedes(Tail(out), FilesOf(e), UpsertsOf(e))
        BY <1>1, <3>1, <3>2, TailPrecedes DEF InOrder, h
      <3>4. fSeen' \cap FilesOf(e) # {} => sSeen \cap UpsertsOf(e) # {}
        BY <2>3, <3>1, <3>3 DEF InOrder
      <3> QED
        BY <1>1, <1>3, <2>4, <3>1, <3>3, <3>4 DEF InOrder, Precedes, LinksOf, UpsertsOf, FilesOf
    <2> QED
      BY <1>6, <2>5, <2>6, <2>7, <2>8 DEF Inv, Order
  <1>9. ASSUME h.kind # "file" PROVE Inv'
    <2>1. h \in Upserts /\ h \in SerialJobs
      BY <1>2, <1>9, KindFacts
    <2>2. Serial!Accept(h) /\ UNCHANGED fVars
      BY <1>9 DEF PostNext, h
    <2>3. /\ Serial!TypeOK' /\ sPending' = Append(sPending, h)
          /\ sRan' = sRan /\ sSeen' = sSeen \cup {h}
          /\ UNCHANGED <<sRunning, sDone, sOpen, sStopped>>
      BY <1>4, <2>1, <2>2, SerialAccept
    <2>4. fSeen' = fSeen /\ Elems(sDone)' = Elems(sDone)
      BY <2>2, <2>3 DEF fSeen, Elems, fVars
    <2>5. TypeOK'
      BY <1>1, <1>3, <1>5, <2>2, <2>3 DEF Inv, TypeOK, Files!TypeOK, fVars
    <2>6. Control'
      BY <1>3, <1>4, <2>2, <2>3 DEF Inv, Control, fVars, Serial!Idle, Files!Idle
    <2>7. Kept'
      <3>1. h \notin FileJobs
        BY <2>1, KindFacts DEF FileJobs, Upserts
      <3>2. /\ \A j \in Upserts : j \in Elems(out) \cup sSeen => j \in Elems(out)' \cup sSeen'
            /\ \A j \in FileJobs : j \in Elems(out) \cup fSeen => j \in Elems(out)' \cup fSeen'
        BY <1>2, <1>7, <2>3, <2>4, <3>1
      <3>3. UNCHANGED <<upserts, files>>
        BY <1>3
      <3> QED
        BY <3>2, <3>3, MoreKept
    <2>8. ASSUME NEW e \in Entities PROVE InOrder(e)'
      <3>1. InOrder(e)
        BY DEF Inv, Order
      <3>2. h \notin LinksOf(e)
        BY <2>1, KindFacts
      <3>3. sPending \in Seq(SerialJobs)
        BY <1>4 DEF Serial!TypeOK
      <3>4. sRan \cap UpsertsOf(e) = {} => Precedes(Append(sPending, h), LinksOf(e), UpsertsOf(e))
        BY <2>1, <3>1, <3>2, <3>3, AppendPrecedes DEF InOrder
      <3>5. sSeen' \cap UpsertsOf(e) = {} =>
                sSeen \cap UpsertsOf(e) = {} /\ h \notin UpsertsOf(e)
        BY <2>3
      <3>6. sSeen' \cap UpsertsOf(e) = {} => Precedes(Tail(out), FilesOf(e), UpsertsOf(e))
        BY <1>1, <3>1, <3>5, TailPrecedes DEF InOrder, h
      <3>7. fSeen' \cap FilesOf(e) # {} => sSeen' \cap UpsertsOf(e) # {}
        BY <2>4, <3>1, <3>5 DEF InOrder
      <3> QED
        BY <1>1, <1>3, <2>3, <2>4, <3>1, <3>4, <3>6, <3>7
           DEF InOrder, Precedes, LinksOf, UpsertsOf, FilesOf
    <2> QED
      BY <1>6, <2>5, <2>6, <2>7, <2>8 DEF Inv, Order
  <1> QED
    BY <1>8, <1>9

\* A signal arrives, or start() goes on to its next statement.
LEMMA ControlStep ==
    ASSUME Inv, Stop \/ LeaveLoop \/ ShutdownFiles \/ ShutdownSerial
    PROVE  Inv'
  <1>1. /\ UNCHANGED <<out, received, upserts, files, awaiting, stored, rows, link>>
        /\ UNCHANGED <<fPending, fRunning, fDone, sPending, sRunning, sDone>>
    BY DEF Stop, LeaveLoop, ShutdownFiles, ShutdownSerial, fVars, sVars, loopVars,
           Files!Close, Files!Stop, Serial!Close, Serial!Stop
  <1>2. fSeen' = fSeen
    BY <1>1 DEF fSeen, Elems
  <1>3. Order' /\ sSeen' = sSeen
    BY <1>1, <1>2, OrderFrame
  <1>4. Kept'
    BY <1>1, <1>2, <1>3, KeptFrame
  <1>5. Bounds'
    BY <1>1, BoundsFrame
  <1>6. /\ fOpen' \in BOOLEAN /\ fStopped' \in BOOLEAN /\ sOpen' \in BOOLEAN
        /\ sStopped' \in BOOLEAN /\ stop' \in BOOLEAN
        /\ lpc' \in {"loop", "close_files", "join_files", "close_serial", "join_serial", "returned"}
    BY DEF Inv, TypeOK, Files!TypeOK, Serial!TypeOK, Stop, LeaveLoop, ShutdownFiles,
           ShutdownSerial, fVars, sVars, loopVars,
           Files!Close, Files!Stop, Serial!Close, Serial!Stop
  <1>7. TypeOK'
    BY <1>1, <1>6 DEF Inv, TypeOK, Files!TypeOK, Serial!TypeOK
  <1>8. Control'
    <2>1. Control
      BY DEF Inv
    <2>2. CASE Stop
      BY <2>1, <2>2 DEF Control, Stop, fVars, sVars, loopVars, Files!Idle, Serial!Idle
    <2>3. CASE LeaveLoop
      BY <2>1, <2>3 DEF Control, LeaveLoop, fVars, sVars, Files!Idle, Serial!Idle
    <2>4. CASE lpc = "close_files" /\ Files!Close /\ lpc' = "join_files" /\ UNCHANGED sVars
      BY <1>1, <2>1, <2>4 DEF Control, Files!Close, sVars, Files!Idle, Serial!Idle
    <2>5. CASE lpc = "join_files" /\ Files!Stop /\ lpc' = "close_serial" /\ UNCHANGED sVars
      BY <1>1, <2>1, <2>5 DEF Control, Files!Stop, sVars, Files!Idle, Serial!Idle
    <2>6. CASE lpc = "close_serial" /\ Serial!Close /\ lpc' = "join_serial" /\ UNCHANGED fVars
      BY <1>1, <2>1, <2>6 DEF Control, Serial!Close, fVars, Files!Idle, Serial!Idle
    <2>7. CASE lpc = "join_serial" /\ Serial!Stop /\ lpc' = "returned" /\ UNCHANGED fVars
      BY <1>1, <2>1, <2>7 DEF Control, Serial!Stop, fVars, Files!Idle, Serial!Idle
    <2> QED
      BY <2>2, <2>3, <2>4, <2>5, <2>6, <2>7 DEF ShutdownFiles, ShutdownSerial
  <1> QED
    BY <1>3, <1>4, <1>5, <1>7, <1>8 DEF Inv

-----------------------------------------------------------------------------
(* A file worker *)

\* A worker that starts a file keeps the invariant; a stopped pool has none.
LEMMA StartFileStep ==
    ASSUME Inv, NEW w \in FileWorkers, StartFile(w)
    PROVE  Inv'
  <1>1. Files!Start(w) /\ UNCHANGED <<sVars, loopVars, stored, stop, rows, link>>
    BY DEF StartFile
  <1>2. Files!TypeOK
    BY DEF Inv, TypeOK
  <1>3. /\ Files!TypeOK' /\ fPending # <<>> /\ fRunning[w] = NoJob /\ fRunning'[w] \in FileJobs
        /\ \A v \in FileWorkers : v # w => fRunning'[v] = fRunning[v]
        /\ fSeen \subseteq fSeen' \cup {NoJob} /\ fSeen' \subseteq fSeen
        /\ UNCHANGED <<fDone, fOpen, fStopped>>
    BY <1>1, <1>2, FilesStart
  <1>4. /\ UNCHANGED <<out, received, upserts, files, awaiting, lpc>>
        /\ UNCHANGED <<sPending, sRunning, sDone, sOpen, sStopped>>
    BY <1>1 DEF loopVars, sVars
  <1>5. Order' /\ sSeen' = sSeen
    BY <1>3, <1>4, OrderFrame
  <1>6. Kept'
    BY <1>3, <1>4, <1>5, KeptFrame
  <1>7. Bounds'
    BY <1>4, BoundsFrame
  <1>8. TypeOK'
    BY <1>1, <1>3, <1>4 DEF Inv, TypeOK, Serial!TypeOK
  <1>9. Control'
    <2>1. Control /\ ~fStopped
      BY <1>3 DEF Inv, Control
    <2>2. \A v \in FileWorkers : stored'[v] => fRunning'[v] # NoJob
      BY <1>1, <1>3, <2>1, KindFacts DEF Control
    <2> QED
      BY <1>3, <1>4, <2>1, <2>2 DEF Control, Serial!Idle
  <1> QED
    BY <1>5, <1>6, <1>7, <1>8, <1>9 DEF Inv

\* storeDownloadedFile has succeeded: the worker still has its job.
LEMMA StoreFileStep ==
    ASSUME Inv, NEW w \in FileWorkers, StoreFile(w)
    PROVE  Inv'
  <1>1. /\ fRunning[w] # NoJob /\ stored' = [stored EXCEPT ![w] = TRUE]
        /\ UNCHANGED <<fVars, sVars, loopVars, stop, rows, link>>
    BY DEF StoreFile
  <1>2. /\ UNCHANGED <<out, received, upserts, files, awaiting, lpc>>
        /\ UNCHANGED <<fPending, fRunning, fDone, fOpen, fStopped>>
        /\ UNCHANGED <<sPending, sRunning, sDone, sOpen, sStopped>>
    BY <1>1 DEF loopVars, fVars, sVars
  <1>3. fSeen' = fSeen
    BY <1>2 DEF fSeen, Elems
  <1>4. Order' /\ sSeen' = sSeen
    BY <1>2, <1>3, OrderFrame
  <1>5. Kept'
    BY <1>2, <1>3, <1>4, KeptFrame
  <1>6. Bounds'
    BY <1>2, BoundsFrame
  <1>7. stored \in [FileWorkers -> BOOLEAN]
    BY DEF Inv, TypeOK
  <1>8. TypeOK'
    BY <1>1, <1>2, <1>7 DEF Inv, TypeOK, Files!TypeOK, Serial!TypeOK
  <1>9. Control'
    <2>1. Control
      BY DEF Inv
    <2>2. \A v \in FileWorkers : stored'[v] => fRunning'[v] # NoJob
      BY <1>1, <1>2, <1>7, <2>1 DEF Control
    <2> QED
      BY <1>2, <2>1, <2>2 DEF Control, Files!Idle, Serial!Idle
  <1> QED
    BY <1>4, <1>5, <1>6, <1>8, <1>9 DEF Inv

\* storeDownloadedFile has failed: the file ends without a link.
LEMMA StoreFileFailsStep ==
    ASSUME Inv, NEW w \in FileWorkers, StoreFileFails(w)
    PROVE  Inv'
  <1>1. ~stored[w] /\ Files!Finish(w) /\ UNCHANGED <<sVars, loopVars, stored, stop, rows, link>>
    BY DEF StoreFileFails
  <1>2. Files!TypeOK
    BY DEF Inv, TypeOK
  <1>3. /\ Files!TypeOK' /\ fRunning[w] \in FileJobs /\ fRunning'[w] = NoJob
        /\ \A v \in FileWorkers : v # w => fRunning'[v] = fRunning[v]
        /\ fSeen \subseteq fSeen' /\ fSeen' \subseteq fSeen \cup {NoJob}
        /\ UNCHANGED <<fPending, fOpen, fStopped>>
    BY <1>1, <1>2, FilesFinish
  <1>4. /\ UNCHANGED <<out, received, upserts, files, awaiting, lpc>>
        /\ UNCHANGED <<sPending, sRunning, sDone, sOpen, sStopped>>
    BY <1>1 DEF loopVars, sVars
  <1>5. Order' /\ sSeen' = sSeen
    BY <1>3, <1>4, OrderFrame
  <1>6. Kept'
    BY <1>3, <1>4, <1>5, KeptFrame
  <1>7. Bounds'
    BY <1>4, BoundsFrame
  <1>8. TypeOK'
    BY <1>1, <1>3, <1>4 DEF Inv, TypeOK, Serial!TypeOK
  <1>9. Control'
    <2>1. Control
      BY DEF Inv
    <2>2. \A v \in FileWorkers : stored'[v] => fRunning'[v] # NoJob
      BY <1>1, <1>3, <2>1 DEF Control
    <2>3. Files!Idle => Files!Idle'
      BY <1>3 DEF Files!Idle
    <2> QED
      BY <1>3, <1>4, <2>1, <2>2, <2>3 DEF Control, Serial!Idle
  <1> QED
    BY <1>5, <1>6, <1>7, <1>8, <1>9 DEF Inv

\* The link joins serial_ behind an upsert of its entity: the file would not have
\* come to files_ before that was posted.
LEMMA PostLinkStep ==
    ASSUME Inv, NEW w \in FileWorkers, PostLink(w)
    PROVE  Inv'
  <1> DEFINE j == LinkOf(w)
             x == fRunning[w].e
  <1>1. /\ stored[w] /\ Files!Finish(w) /\ stored' = [stored EXCEPT ![w] = FALSE]
        /\ UNCHANGED <<loopVars, stop, rows, link>>
        /\ IF sOpen THEN Serial!Accept(j) ELSE UNCHANGED sVars
    BY DEF PostLink
  <1>2. Files!TypeOK /\ Serial!TypeOK /\ stored \in [FileWorkers -> BOOLEAN]
    BY DEF Inv, TypeOK
  <1>3. /\ Files!TypeOK' /\ fRunning[w] \in FileJobs /\ fRunning'[w] = NoJob
        /\ \A v \in FileWorkers : v # w => fRunning'[v] = fRunning[v]
        /\ fSeen \subseteq fSeen' /\ fSeen' \subseteq fSeen \cup {NoJob}
        /\ UNCHANGED <<fPending, fOpen, fStopped>>
    BY <1>1, <1>2, FilesFinish
  <1>4. sOpen
    <2>1. ~Files!Idle
      BY <1>3, KindFacts DEF Files!Idle
    <2> QED
      BY <2>1 DEF Inv, Control, TypeOK
  <1>5. x \in Entities /\ fRunning[w].n \in Nums /\ fRunning[w] \in FilesOf(x)
    BY <1>3 DEF FileJobs, FilesOf
  <1>6. j \in SerialJobs /\ j \in LinksOf(x)
    BY <1>5, JobFacts DEF LinkOf
  <1>7. sSeen \cap UpsertsOf(x) # {}
    <2>1. fSeen \cap FilesOf(x) # {}
      BY <1>5 DEF fSeen
    <2> QED
      BY <1>5, <2>1 DEF Inv, Order, InOrder
  <1> HIDE DEF j, x
  <1>8. Serial!Accept(j)
    BY <1>1, <1>4
  <1>9. /\ Serial!TypeOK' /\ sPending' = Append(sPending, j)
        /\ sRan' = sRan /\ sSeen' = sSeen \cup {j}
        /\ UNCHANGED <<sRunning, sDone, sOpen, sStopped>>
    BY <1>2, <1>6, <1>8, SerialAccept
  <1>10. UNCHANGED <<out, received, upserts, files, awaiting, lpc>>
    BY <1>1 DEF loopVars
  <1>11. Kept'
    BY <1>3, <1>9, <1>10, KeptFrame
  <1>12. Bounds'
    BY <1>10, BoundsFrame
  <1>13. TypeOK'
    <2>1. stored' \in [FileWorkers -> BOOLEAN]
      BY <1>1, <1>2
    <2> QED
      BY <1>1, <1>3, <1>9, <1>10, <2>1 DEF Inv, TypeOK
  <1>14. Control'
    <2>1. Control
      BY DEF Inv
    <2>2. \A v \in FileWorkers : stored'[v] => fRunning'[v] # NoJob
      BY <1>1, <1>2, <1>3, <2>1 DEF Control
    <2>3. Files!Idle => Files!Idle'
      BY <1>3 DEF Files!Idle
    <2>4. ~sStopped
      BY <1>4, <2>1 DEF Control
    <2> QED
      BY <1>3, <1>9, <1>10, <2>1, <2>2, <2>3, <2>4 DEF Control
  <1>15. ASSUME NEW e \in Entities PROVE InOrder(e)'
    <2>1. InOrder(e)
      BY DEF Inv, Order
    <2>2. sPending \in Seq(SerialJobs)
      BY <1>2 DEF Serial!TypeOK
    <2>3. j \in LinksOf(e) => e = x
      BY <1>5, <1>6, KindFacts
    <2>4. sRan \cap UpsertsOf(e) = {} => Precedes(Append(sPending, j), LinksOf(e), UpsertsOf(e))
      <3>1. ASSUME sRan \cap UpsertsOf(e) = {}, j \in LinksOf(e)
            PROVE  Elems(sPending) \cap UpsertsOf(e) # {}
        BY <1>7, <2>3, <3>1 DEF sSeen
      <3> QED
        BY <1>6, <2>1, <2>2, <3>1, AppendPrecedes DEF InOrder
    <2>5. fSeen' \cap FilesOf(e) # {} => fSeen \cap FilesOf(e) # {}
      BY <1>3, KindFacts
    <2>6. sSeen \subseteq sSeen'
      BY <1>9
    <2>7. Elems(sDone)' = Elems(sDone)
      BY <1>9 DEF Elems
    <2>8. fSeen' \cap FilesOf(e) # {} => sSeen' \cap UpsertsOf(e) # {}
      BY <2>1, <2>5, <2>6 DEF InOrder
    <2>9. sSeen' \cap UpsertsOf(e) = {} => Precedes(out, FilesOf(e), UpsertsOf(e))
      BY <2>1, <2>6 DEF InOrder
    <2> QED
      BY <1>9, <1>10, <2>1, <2>4, <2>7, <2>8, <2>9
         DEF InOrder, Precedes, LinksOf, UpsertsOf, FilesOf
  <1> QED
    BY <1>11, <1>12, <1>13, <1>14, <1>15 DEF Inv, Order

-----------------------------------------------------------------------------
(* The worker of serial_ *)

\* It takes the oldest job, so a link only when no upsert is pending before it.
LEMMA StartSerialStep ==
    ASSUME Inv, StartSerial
    PROVE  Inv'
  <1> DEFINE h == Head(sPending)
  <1>1. Serial!Start(SerialWorker) /\ UNCHANGED <<fVars, loopVars, stored, stop, rows, link>>
    BY DEF StartSerial
  <1>2. Serial!TypeOK
    BY DEF Inv, TypeOK
  <1>3. /\ Serial!TypeOK' /\ sPending # <<>> /\ sPending' = Tail(sPending)
        /\ sRunning[SerialWorker] = NoJob /\ sRunning'[SerialWorker] = h
        /\ h \in SerialJobs
        /\ sRan' = {h} \cup Elems(sDone)
        /\ sSeen = sSeen' \cup {NoJob}
        /\ UNCHANGED <<sDone, sOpen, sStopped>>
    BY <1>1, <1>2, SerialStart
  <1>4. /\ UNCHANGED <<out, received, upserts, files, awaiting, lpc>>
        /\ UNCHANGED <<fPending, fRunning, fDone, fOpen, fStopped>>
    BY <1>1 DEF loopVars, fVars
  <1>5. fSeen' = fSeen /\ Elems(sDone)' = Elems(sDone)
    BY <1>3, <1>4 DEF fSeen, Elems
  <1>6. Kept'
    BY <1>3, <1>4, <1>5, KeptFrame
  <1>7. Bounds'
    BY <1>4, BoundsFrame
  <1>8. TypeOK'
    BY <1>1, <1>3, <1>4 DEF Inv, TypeOK, Files!TypeOK
  <1>9. Control'
    <2>1. Control /\ ~sStopped
      BY <1>3 DEF Inv, Control
    <2> QED
      BY <1>1, <1>3, <1>4, <2>1 DEF Control, Files!Idle
  <1>10. ASSUME NEW e \in Entities PROVE InOrder(e)'
    <2>1. InOrder(e)
      BY DEF Inv, Order
    <2>2. sPending \in Seq(SerialJobs)
      BY <1>2 DEF Serial!TypeOK
    <2>3. sSeen' \cap UpsertsOf(e) = sSeen \cap UpsertsOf(e) /\ NoJob \notin UpsertsOf(e)
      BY <1>3, KindFacts
    <2>4. sRan \cap UpsertsOf(e) = Elems(sDone) \cap UpsertsOf(e)
      BY <1>3, <2>3 DEF sRan
    <2>5. Elems(sDone) \cap UpsertsOf(e) = {} =>
              /\ h \notin LinksOf(e)
              /\ h \notin UpsertsOf(e) => Precedes(Tail(sPending), LinksOf(e), UpsertsOf(e))
      BY <1>3, <2>1, <2>2, <2>4, TailPrecedes DEF InOrder
    <2>6. sRan' \cap UpsertsOf(e) = {} => Precedes(Tail(sPending), LinksOf(e), UpsertsOf(e))
      BY <1>3, <2>5
    <2> HIDE DEF h
    <2> QED
      BY <1>3, <1>4, <1>5, <2>1, <2>3, <2>5, <2>6
         DEF InOrder, Precedes, LinksOf, UpsertsOf, FilesOf
  <1> QED
    BY <1>6, <1>7, <1>8, <1>9, <1>10 DEF Inv, Order

\* A statement has succeeded or failed: either way the job is done.
LEMMA FinishSerialStep ==
    ASSUME Inv, RunSerial \/ RunSerialFails
    PROVE  Inv'
  <1> DEFINE job == sRunning[SerialWorker]
  <1>1. Serial!Finish(SerialWorker) /\ UNCHANGED <<fVars, loopVars, stored, stop>>
    BY DEF RunSerial, RunSerialFails
  <1>2. Serial!TypeOK /\ rows \subseteq Entities /\ link \in [Entities -> 0 .. MaxUpdates]
    BY DEF Inv, TypeOK
  <1>3. /\ Serial!TypeOK' /\ job \in SerialJobs
        /\ sRunning'[SerialWorker] = NoJob
        /\ Elems(sDone) \subseteq Elems(sDone)'
        /\ sRan' = sRan \cup {NoJob} /\ sSeen' = sSeen \cup {NoJob}
        /\ UNCHANGED <<sPending, sOpen, sStopped>>
    BY <1>1, <1>2, SerialFinish
  <1>4. /\ UNCHANGED <<out, received, upserts, files, awaiting, lpc>>
        /\ UNCHANGED <<fPending, fRunning, fDone, fOpen, fStopped>>
    BY <1>1 DEF loopVars, fVars
  <1>5. fSeen' = fSeen
    BY <1>4 DEF fSeen, Elems
  <1>6. Kept'
    BY <1>3, <1>4, <1>5, KeptFrame
  <1>7. Bounds'
    BY <1>4, BoundsFrame
  <1>8. TypeOK'
    <2>1. job.e \in Entities /\ job.n \in 0 .. MaxUpdates
      BY <1>3, MaxUpdatesAssumption DEF SerialJobs, Nums
    <2>2. rows' \subseteq Entities /\ link' \in [Entities -> 0 .. MaxUpdates]
      BY <1>2, <2>1 DEF RunSerial, RunSerialFails
    <2> QED
      BY <1>1, <1>3, <1>4, <2>2 DEF Inv, TypeOK, Files!TypeOK
  <1>9. Control'
    <2>1. Control
      BY DEF Inv
    <2>2. Serial!Idle => Serial!Idle'
      BY <1>3 DEF Serial!Idle
    <2> QED
      BY <1>1, <1>3, <1>4, <2>1, <2>2 DEF Control, Files!Idle
  <1>10. ASSUME NEW e \in Entities PROVE InOrder(e)'
    <2>1. InOrder(e)
      BY DEF Inv, Order
    <2>2. /\ NoJob \notin LinksOf(e)
          /\ sRan' \cap UpsertsOf(e) = sRan \cap UpsertsOf(e)
          /\ sSeen' \cap UpsertsOf(e) = sSeen \cap UpsertsOf(e)
      BY <1>3, KindFacts
    <2> QED
      BY <1>3, <1>4, <1>5, <2>1, <2>2 DEF InOrder, Precedes, LinksOf, UpsertsOf, FilesOf
  <1> QED
    BY <1>6, <1>7, <1>8, <1>9, <1>10 DEF Inv, Order

-----------------------------------------------------------------------------

\* A stuttering step keeps the invariant.
LEMMA StutterStep ==
    ASSUME Inv, UNCHANGED vars
    PROVE  Inv'
  <1>1. /\ UNCHANGED <<out, received, upserts, files, awaiting, lpc>>
        /\ UNCHANGED <<fPending, fRunning, fDone, fOpen, fStopped>>
        /\ UNCHANGED <<sPending, sRunning, sDone, sOpen, sStopped>>
        /\ UNCHANGED <<stored, stop, rows, link>>
    BY DEF vars, fVars, sVars, loopVars
  <1>2. fSeen' = fSeen
    BY <1>1 DEF fSeen, Elems
  <1>3. Order' /\ sSeen' = sSeen
    BY <1>1, <1>2, OrderFrame
  <1>4. Kept'
    BY <1>1, <1>2, <1>3, KeptFrame
  <1>5. Bounds'
    BY <1>1, BoundsFrame
  <1>6. TypeOK'
    BY <1>1 DEF Inv, TypeOK, Files!TypeOK, Serial!TypeOK
  <1>7. Control'
    BY <1>1 DEF Inv, Control, Files!Idle, Serial!Idle
  <1> QED
    BY <1>3, <1>4, <1>5, <1>6, <1>7 DEF Inv

\* Open and empty pools satisfy the invariant.
LEMMA InitInv == Init => Inv
  <1> SUFFICES ASSUME Init PROVE Inv
    OBVIOUS
  <1>1. /\ fPending = <<>> /\ fRunning = [w \in FileWorkers |-> NoJob] /\ fDone = <<>>
        /\ fOpen = TRUE /\ fStopped = FALSE
        /\ sPending = <<>> /\ sRunning = [w \in {SerialWorker} |-> NoJob] /\ sDone = <<>>
        /\ sOpen = TRUE /\ sStopped = FALSE
        /\ lpc = "loop" /\ out = <<>> /\ received = 0
        /\ upserts = [e \in Entities |-> 0] /\ files = [e \in Entities |-> 0]
        /\ awaiting = [e \in Entities |-> 0] /\ stored = [w \in FileWorkers |-> FALSE]
        /\ stop = FALSE /\ rows = {} /\ link = [e \in Entities |-> 0]
    BY DEF Init, Files!Init, Serial!Init
  <1>2. TypeOK
    <2>1. 0 \in 0 .. MaxUpdates
      BY MaxUpdatesAssumption
    <2>2. /\ fPending \in Seq(FileJobs) /\ fDone \in Seq(FileJobs)
          /\ sPending \in Seq(SerialJobs) /\ sDone \in Seq(SerialJobs)
          /\ out \in Seq(FileJobs \cup SerialJobs)
      BY <1>1
    <2>3. fOpen \in BOOLEAN /\ fStopped \in BOOLEAN /\ sOpen \in BOOLEAN /\ sStopped \in BOOLEAN
          /\ stop \in BOOLEAN
      BY <1>1
    <2>4. Files!TypeOK
      BY <1>1, <2>2, <2>3 DEF Files!TypeOK
    <2>5. Serial!TypeOK
      BY <1>1, <2>2, <2>3 DEF Serial!TypeOK
    <2>6. stored \in [FileWorkers -> BOOLEAN]
      BY <1>1
    <2> QED
      BY <1>1, <2>1, <2>2, <2>3, <2>4, <2>5, <2>6 DEF TypeOK
  <1>3. Bounds
    BY <1>1 DEF Bounds
  <1>4. Control
    BY <1>1 DEF Control
  <1>5. Kept
    BY <1>1 DEF Kept
  <1>6. Order
    <2>1. Elems(fPending) = {} /\ Elems(fDone) = {} /\ Elems(sPending) = {} /\ Elems(sDone) = {}
      BY <1>1 DEF Elems
    <2>2. sRunning[SerialWorker] = NoJob /\ sRan = {NoJob} /\ sSeen = {NoJob}
      BY <1>1, <2>1 DEF sRan, sSeen
    <2>3. fSeen \subseteq {NoJob}
      BY <1>1, <2>1 DEF fSeen
    <2> QED
      BY <1>1, <2>2, <2>3, KindFacts DEF Order, InOrder, Precedes
  <1> QED
    BY <1>2, <1>3, <1>4, <1>5, <1>6 DEF Inv

\* Every step preserves the invariant.
LEMMA NextStep == Inv /\ [Next]_vars => Inv'
  <1> SUFFICES ASSUME Inv, [Next]_vars PROVE Inv'
    OBVIOUS
  <1>1. ASSUME NEW w \in FileWorkers, FileStep(w) PROVE Inv'
    BY <1>1, StartFileStep, StoreFileStep, StoreFileFailsStep, PostLinkStep DEF FileStep
  <1>2. ASSUME LoopStep \/ Stop PROVE Inv'
    BY <1>2, PostNextStep, ControlStep DEF LoopStep
  <1>3. ASSUME SerialStep PROVE Inv'
    BY <1>3, StartSerialStep, FinishSerialStep DEF SerialStep
  <1>4. ASSUME Terminated \/ UNCHANGED vars PROVE Inv'
    BY <1>4, StutterStep DEF Terminated
  <1> QED
    BY <1>1, <1>2, <1>3, <1>4, UpdateStep DEF Next

-----------------------------------------------------------------------------
(* Theorems *)

\* The loop, files_ and serial_ satisfy the inductive invariant in every state that
\* start() and the workers can reach.
THEOREM Invariance == Spec => []Inv
  BY InitInv, NextStep, PTL DEF Spec

\* The pools, the loop and the database keep their types; in particular no counter
\* runs ahead of the updates received.
THEOREM TypeCorrect == Spec => []TypeOK
  <1>1. Inv => TypeOK
    BY DEF Inv
  <1> QED
    BY <1>1, Invariance, PTL

\* onProfilePhoto, onGroupPhoto and onMessageFile update a row that an earlier job of
\* serial_ was to write, with any number of file workers and any queue size.
THEOREM LinkAfterRow == Spec => []RowBeforeLink
  <1>1. ASSUME Inv PROVE RowBeforeLink
    <2> DEFINE job == sRunning[SerialWorker]
    <2> SUFFICES ASSUME job # NoJob, job.kind = "link"
                 PROVE  \E i \in 1 .. Len(sDone) : sDone[i].kind = "upsert" /\ sDone[i].e = job.e
      BY DEF RowBeforeLink
    <2>1. job \in SerialJobs
      BY <1>1 DEF Inv, TypeOK, Serial!TypeOK
    <2>2. job.e \in Entities /\ job \in LinksOf(job.e)
      BY <2>1 DEF SerialJobs, LinksOf
    <2>3. Elems(sDone) \cap UpsertsOf(job.e) # {}
      BY <1>1, <2>2 DEF Inv, Order, InOrder
    <2> QED
      BY <2>3 DEF Elems, UpsertsOf
  <1> QED
    BY <1>1, Invariance, PTL

\* start() shuts files_ down before serial_, so no worker of files_ ever has its
\* link refused.
THEOREM LinksAccepted == Spec => []LinkIsAccepted
  <1>1. ASSUME Inv PROVE LinkIsAccepted
    <2>1. ASSUME NEW w \in FileWorkers, stored[w] PROVE sOpen
      <3>1. ~Files!Idle
        BY <1>1, <2>1 DEF Inv, Control, Files!Idle
      <3> QED
        BY <1>1, <3>1 DEF Inv, Control, TypeOK
    <2> QED
      BY <2>1 DEF LinkIsAccepted
  <1> QED
    BY <1>1, Invariance, PTL

\* The drain of start() finishes every upsert and every file that the handlers posted.
THEOREM DrainComplete == Spec => []DrainedOnReturn
  <1>1. ASSUME Inv PROVE DrainedOnReturn
    <2> SUFFICES ASSUME lpc = "returned"
                 PROVE  /\ fPending = <<>> /\ Files!Idle /\ sPending = <<>> /\ Serial!Idle
                        /\ \A e \in Entities :
                              /\ \A n \in 1 .. upserts[e] :
                                    \E i \in 1 .. Len(sDone) : sDone[i] = Job("upsert", e, n)
                              /\ \A n \in 1 .. files[e] :
                                    \E i \in 1 .. Len(fDone) : fDone[i] = Job("file", e, n)
      BY DEF DrainedOnReturn
    <2>1. out = <<>> /\ fPending = <<>> /\ Files!Idle /\ sPending = <<>> /\ Serial!Idle
      BY <1>1 DEF Inv, Control
    <2>2. Elems(out) = {} /\ Elems(fPending) = {} /\ Elems(sPending) = {}
      BY <2>1 DEF Elems
    <2>3. sSeen \subseteq {NoJob} \cup Elems(sDone)
      BY <2>1, <2>2 DEF sSeen, sRan, Serial!Idle
    <2>4. fSeen \subseteq {NoJob} \cup Elems(fDone)
      BY <2>1, <2>2 DEF fSeen, Files!Idle
    <2>5. ASSUME NEW e \in Entities, NEW n \in 1 .. upserts[e]
          PROVE  Job("upsert", e, n) \in Elems(sDone)
      <3>1. Job("upsert", e, n) \in Elems(out) \cup sSeen
        BY <1>1 DEF Inv, Kept
      <3>2. Job("upsert", e, n) # NoJob
        BY <1>1, EmittedJobs, KindFacts
      <3> QED
        BY <2>2, <2>3, <3>1, <3>2
    <2>6. ASSUME NEW e \in Entities, NEW n \in 1 .. files[e]
          PROVE  Job("file", e, n) \in Elems(fDone)
      <3>1. Job("file", e, n) \in Elems(out) \cup fSeen
        BY <1>1 DEF Inv, Kept
      <3>2. Job("file", e, n) # NoJob
        BY <1>1, EmittedJobs, KindFacts
      <3> QED
        BY <2>2, <2>4, <3>1, <3>2
    <2> QED
      BY <2>1, <2>5, <2>6 DEF Elems
  <1> QED
    BY <1>1, Invariance, PTL

-----------------------------------------------------------------------------
(* The pools as the loop and the workers use them *)

\* Every step of the daemon is a step of files_ or leaves files_ alone: the handlers
\* post only files to it, and a worker ends the job it has started.
LEMMA FilesStep == Inv /\ [Next]_vars => [Files!Next]_(Files!vars)
  <1> SUFFICES ASSUME Inv, [Next]_vars, ~UNCHANGED fVars PROVE Files!Next
    BY DEF fVars, Files!vars
  <1>1. ASSUME PostNext PROVE Files!Next
    <2>1. out \in Seq(FileJobs \cup Upserts) /\ out # <<>>
      BY <1>1 DEF PostNext, Inv, Bounds
    <2>2. Head(out) \in FileJobs \cup Upserts
      BY <2>1, HeadTailProperties
    <2>3. Head(out).kind = "file" /\ Files!Accept(Head(out))
      BY <1>1 DEF PostNext
    <2>4. Head(out) \in FileJobs
      BY <2>2, <2>3 DEF Upserts
    <2> QED
      BY <2>3, <2>4 DEF Files!Next
  <1>2. ASSUME ShutdownFiles PROVE Files!Next
    BY <1>2 DEF ShutdownFiles, Files!Next
  <1>3. ASSUME NEW w \in FileWorkers, FileStep(w) PROVE Files!Next
    BY <1>3 DEF FileStep, StartFile, StoreFile, StoreFileFails, PostLink, Files!Next
  <1>4. ASSUME NEW e \in Entities, OnEntity(e) \/ OnGroupPhoto(e) \/ OnFile(e) PROVE FALSE
    BY <1>4 DEF OnEntity, OnGroupPhoto, OnFile
  <1>5. ~(Stop \/ LeaveLoop \/ ShutdownSerial \/ SerialStep \/ Terminated \/ UNCHANGED vars)
    BY DEF Stop, LeaveLoop, ShutdownSerial, SerialStep, StartSerial, RunSerial,
           RunSerialFails, Terminated, vars
  <1> QED
    BY <1>1, <1>2, <1>3, <1>4, <1>5 DEF Next, LoopStep

\* Every step of the daemon is a step of serial_ or leaves serial_ alone, whether the
\* loop posts an upsert to it or a worker of files_ a link.
LEMMA SerialStepped == Inv /\ [Next]_vars => [Serial!Next]_(Serial!vars)
  <1> SUFFICES ASSUME Inv, [Next]_vars, ~UNCHANGED sVars PROVE Serial!Next
    BY DEF sVars, Serial!vars
  <1>1. ASSUME PostNext PROVE Serial!Next
    <2>1. out \in Seq(FileJobs \cup Upserts) /\ out # <<>>
      BY <1>1 DEF PostNext, Inv, Bounds
    <2>2. Head(out) \in FileJobs \cup Upserts
      BY <2>1, HeadTailProperties
    <2>3. Head(out).kind # "file" /\ Serial!Accept(Head(out))
      BY <1>1 DEF PostNext
    <2>4. Head(out) \in SerialJobs
      BY <2>2, <2>3 DEF FileJobs, Upserts, SerialJobs
    <2> QED
      BY <2>3, <2>4 DEF Serial!Next
  <1>2. ASSUME ShutdownSerial PROVE Serial!Next
    BY <1>2 DEF ShutdownSerial, Serial!Next
  <1>3. ASSUME NEW w \in FileWorkers, PostLink(w) PROVE Serial!Next
    <2>1. Serial!Accept(LinkOf(w)) /\ stored[w]
      BY <1>3 DEF PostLink
    <2>2. fRunning[w] \in FileJobs
      BY <2>1 DEF Inv, Control, TypeOK, Files!TypeOK
    <2>3. LinkOf(w) \in SerialJobs
      BY <2>2 DEF LinkOf, Job, FileJobs, SerialJobs
    <2> QED
      BY <2>1, <2>3 DEF Serial!Next
  <1>4. ASSUME SerialStep PROVE Serial!Next
    BY <1>4 DEF SerialStep, StartSerial, RunSerial, RunSerialFails, Serial!Next
  <1>5. ASSUME NEW e \in Entities, OnEntity(e) \/ OnGroupPhoto(e) \/ OnFile(e) PROVE FALSE
    BY <1>5 DEF OnEntity, OnGroupPhoto, OnFile
  <1>6. ASSUME NEW w \in FileWorkers, StartFile(w) \/ StoreFile(w) \/ StoreFileFails(w)
        PROVE  FALSE
    BY <1>6 DEF StartFile, StoreFile, StoreFileFails
  <1>7. ~(Stop \/ LeaveLoop \/ ShutdownFiles \/ Terminated \/ UNCHANGED vars)
    BY DEF Stop, LeaveLoop, ShutdownFiles, Terminated, vars
  <1> QED
    BY <1>1, <1>2, <1>3, <1>4, <1>5, <1>6, <1>7 DEF Next, LoopStep, FileStep

\* The composition uses each pool within what Executor allows, although the loop and
\* the workers of files_ post to serial_ at the same time and one step of a worker
\* moves both pools: hence what ThreadPool guarantees of an executor holds of files_
\* and of serial_.
THEOREM PoolsAreExecutors == Spec => Files!Spec /\ Serial!Spec
  <1>1. Init => Files!Init /\ Serial!Init
    BY DEF Init
  <1> QED
    BY <1>1, FilesStep, SerialStepped, Invariance, PTL DEF Spec, Files!Spec, Serial!Spec

-----------------------------------------------------------------------------
(* The order of links, with one file worker *)

\* The numbers of the jobs of A that are in X.
Numbers(X, A) == {j.n : j \in X \cap A}

\* Whatever of A is in s has ascending numbers.
Ascends(s, A) ==
    \A i, k \in 1 .. Len(s) : i < k /\ s[i] \in A /\ s[k] \in A => s[i].n < s[k].n

\* Where the files of e are on their way, from its row back to the loop: linked, at
\* the worker of serial_, in its queue, at worker w of files_, in its queue, in the
\* hands of the handler.
Stations(e, w) ==
    [k \in 1 .. 6 |->
        CASE k = 1 -> {link[e]}
          [] k = 2 -> Numbers({sRunning[SerialWorker]}, LinksOf(e))
          [] k = 3 -> Numbers(Elems(sPending), LinksOf(e))
          [] k = 4 -> Numbers({fRunning[w]}, FilesOf(e))
          [] k = 5 -> Numbers(Elems(fPending), FilesOf(e))
          [] k = 6 -> Numbers(Elems(out), FilesOf(e))]

\* What is at an earlier station has the greater number.
Ordered(S) == \A j, k \in 1 .. 6 : j < k => \A x \in S[j], y \in S[k] : x < y
Bounded(S, m) == \A k \in 1 .. 6 : \A x \in S[k] : x \in Nat /\ x <= m

InTurn(e, w) ==
    /\ Ordered(Stations(e, w)) /\ Bounded(Stations(e, w), files[e])
    /\ Ascends(sPending, LinksOf(e))
    /\ Ascends(fPending, FilesOf(e))
    /\ Ascends(out, FilesOf(e))

\* The stations one by one, before and after a step.
LEMMA StationFacts ==
    ASSUME NEW e \in Entities, NEW w
    PROVE  /\ Stations(e, w)[1] = {link[e]}
           /\ Stations(e, w)[2] = Numbers({sRunning[SerialWorker]}, LinksOf(e))
           /\ Stations(e, w)[3] = Numbers(Elems(sPending), LinksOf(e))
           /\ Stations(e, w)[4] = Numbers({fRunning[w]}, FilesOf(e))
           /\ Stations(e, w)[5] = Numbers(Elems(fPending), FilesOf(e))
           /\ Stations(e, w)[6] = Numbers(Elems(out), FilesOf(e))
           /\ Stations(e, w)'[1] = {link'[e]}
           /\ Stations(e, w)'[2] = Numbers({sRunning'[SerialWorker]}, LinksOf(e))
           /\ Stations(e, w)'[3] = Numbers(Elems(sPending'), LinksOf(e))
           /\ Stations(e, w)'[4] = Numbers({fRunning'[w]}, FilesOf(e))
           /\ Stations(e, w)'[5] = Numbers(Elems(fPending'), FilesOf(e))
           /\ Stations(e, w)'[6] = Numbers(Elems(out'), FilesOf(e))
  BY DEF Stations, Numbers, Elems, LinksOf, FilesOf

\* A number that is the least of its station may move on to the next.
LEMMA MoveOn ==
    ASSUME NEW S, NEW T, NEW m, NEW k \in 1 .. 5, NEW n \in S[k + 1],
           Ordered(S), Bounded(S, m),
           T[k] \subseteq S[k] \cup {n},
           \A j \in 1 .. 6 : j # k => T[j] \subseteq S[j],
           \A y \in T[k + 1] : n < y
    PROVE  Ordered(T) /\ Bounded(T, m)
  <1>1. k + 1 \in 1 .. 6 /\ k \in 1 .. 6
    OBVIOUS
  <1>2. Bounded(T, m)
    BY <1>1 DEF Bounded
  <1>3. ASSUME NEW i \in 1 .. 6, NEW j \in 1 .. 6, i < j, NEW x \in T[i], NEW y \in T[j]
        PROVE  x < y
    <2>1. CASE i = k /\ x = n
      <3>1. CASE j = k + 1
        BY <2>1, <3>1
      <3>2. CASE j # k + 1
        <4>1. k + 1 < j /\ y \in S[j]
          BY <1>3, <2>1, <3>2
        <4> QED
          BY <1>1, <2>1, <4>1 DEF Ordered
      <3> QED
        BY <3>1, <3>2
    <2>2. CASE j = k /\ y = n
      <3>1. i < k + 1 /\ x \in S[i]
        BY <1>3, <2>2
      <3> QED
        BY <1>1, <2>2, <3>1 DEF Ordered
    <2>3. CASE ~(i = k /\ x = n) /\ ~(j = k /\ y = n)
      <3>1. x \in S[i] /\ y \in S[j]
        BY <2>3
      <3> QED
        BY <1>3, <3>1 DEF Ordered
    <2> QED
      BY <2>1, <2>2, <2>3
  <1> QED
    BY <1>2, <1>3 DEF Ordered

\* A number may leave, and a greater bound is a bound.
LEMMA DropOut ==
    ASSUME NEW S, NEW T, NEW m \in Nat, NEW b \in Nat, m <= b, Ordered(S), Bounded(S, m),
           \A j \in 1 .. 6 : T[j] \subseteq S[j]
    PROVE  Ordered(T) /\ Bounded(T, b)
  BY DEF Ordered, Bounded

\* A new file has the greatest number.
LEMMA Emerge ==
    ASSUME NEW S, NEW T, NEW m \in Nat, Ordered(S), Bounded(S, m),
           T[6] \subseteq {m + 1}, \A j \in 1 .. 5 : T[j] \subseteq S[j]
    PROVE  Ordered(T) /\ Bounded(T, m + 1)
  <1>1. ASSUME NEW j \in 1 .. 5, NEW x \in T[j] PROVE x \in S[j] /\ x \in Nat /\ x <= m
    <2>1. x \in S[j] /\ j \in 1 .. 6
      OBVIOUS
    <2> QED
      BY <2>1 DEF Bounded
  <1>2. \A j \in 1 .. 6 : j \in 1 .. 5 \/ j = 6
    OBVIOUS
  <1>3. Bounded(T, m + 1)
    BY <1>1, <1>2 DEF Bounded
  <1>4. ASSUME NEW i \in 1 .. 6, NEW j \in 1 .. 6, i < j, NEW x \in T[i], NEW y \in T[j]
        PROVE  x < y
    <2>1. i \in 1 .. 5
      BY <1>4
    <2>2. CASE j = 6
      BY <1>1, <2>1, <2>2
    <2>3. CASE j \in 1 .. 5
      <3>1. x \in S[i] /\ y \in S[j]
        BY <2>1, <2>3
      <3> QED
        BY <1>4, <3>1 DEF Ordered
    <2> QED
      BY <1>2, <2>2, <2>3
  <1> QED
    BY <1>3, <1>4 DEF Ordered

\* A greater number may join at the end of a queue.
LEMMA AppendAscends ==
    ASSUME NEW S, NEW s \in Seq(S), NEW x \in S, NEW A, Ascends(s, A),
           x \in A => \A y \in Numbers(Elems(s), A) : y < x.n
    PROVE  Ascends(Append(s, x), A)
  <1> DEFINE t == Append(s, x)
  <1>1. /\ Len(t) = Len(s) + 1 /\ Len(s) \in Nat
        /\ \A i \in 1 .. Len(s) : t[i] = s[i]
        /\ t[Len(s) + 1] = x
    BY AppendProperties
  <1> HIDE DEF t
  <1>2. ASSUME NEW i \in 1 .. Len(t), NEW k \in 1 .. Len(t), i < k, t[i] \in A, t[k] \in A
        PROVE  t[i].n < t[k].n
    <2>1. i \in 1 .. Len(s) /\ t[i] = s[i]
      BY <1>1, <1>2
    <2>2. CASE k \in 1 .. Len(s)
      BY <1>1, <1>2, <2>1, <2>2 DEF Ascends
    <2>3. CASE k = Len(s) + 1
      <3>1. s[i] \in Elems(s) \cap A
        BY <1>2, <2>1 DEF Elems
      <3>2. s[i].n \in Numbers(Elems(s), A)
        BY <3>1 DEF Numbers
      <3> QED
        BY <1>1, <1>2, <2>1, <2>3, <3>2
    <2> QED
      BY <1>1, <2>2, <2>3
  <1> QED
    BY <1>2 DEF Ascends, t

\* The head of a queue has the least number, and the rest ascends.
LEMMA TailAscends ==
    ASSUME NEW S, NEW s \in Seq(S), s # <<>>, NEW A, Ascends(s, A)
    PROVE  /\ Ascends(Tail(s), A)
           /\ Head(s) \in A => \A y \in Numbers(Elems(Tail(s)), A) : Head(s).n < y
  <1>1. /\ Head(s) = s[1] /\ Len(Tail(s)) = Len(s) - 1
        /\ \A i \in 1 .. Len(Tail(s)) : Tail(s)[i] = s[i + 1]
        /\ Len(s) \in Nat /\ Len(s) >= 1
    BY HeadTailProperties, EmptySeq
  <1>2. \A i \in 1 .. Len(Tail(s)) : i + 1 \in 1 .. Len(s) /\ 1 < i + 1
    BY <1>1
  <1>3. ASSUME NEW i \in 1 .. Len(Tail(s)), NEW k \in 1 .. Len(Tail(s)), i < k,
               Tail(s)[i] \in A, Tail(s)[k] \in A
        PROVE  Tail(s)[i].n < Tail(s)[k].n
    <2>1. i + 1 < k + 1
      BY <1>1, <1>3
    <2> QED
      BY <1>1, <1>2, <1>3, <2>1 DEF Ascends
  <1>4. ASSUME Head(s) \in A, NEW y \in Numbers(Elems(Tail(s)), A) PROVE Head(s).n < y
    <2>1. PICK j \in Elems(Tail(s)) \cap A : y = j.n
      BY DEF Numbers
    <2>2. PICK i \in 1 .. Len(Tail(s)) : Tail(s)[i] = j
      BY <2>1 DEF Elems
    <2>3. s[i + 1] = j /\ 1 \in 1 .. Len(s)
      BY <1>1, <2>2
    <2> QED
      BY <1>1, <1>2, <1>4, <2>1, <2>3 DEF Ascends
  <1> QED
    BY <1>3, <1>4 DEF Ascends

\* How the numbers at a station change when a job joins.
LEMMA NumbersJoin ==
    ASSUME NEW A, NEW X, NEW x
    PROVE  /\ x \notin A => Numbers(X \cup {x}, A) = Numbers(X, A)
           /\ x \in A => Numbers(X \cup {x}, A) = Numbers(X, A) \cup {x.n}
  BY Zenon DEF Numbers

\* The numbers of no job, and of a worker's.
LEMMA NumbersOne ==
    ASSUME NEW A, NEW x
    PROVE  /\ Numbers({}, A) = {}
           /\ x \notin A => Numbers({x}, A) = {}
           /\ x \in A => Numbers({x}, A) = {x.n}
  BY Zenon DEF Numbers

\* An update may emit a file, which becomes the newest of its entity.
LEMMA UpdateTurn ==
    ASSUME Inv, NEW w \in FileWorkers, NEW e \in Entities, InTurn(e, w),
           NEW d \in Entities, OnEntity(d) \/ OnGroupPhoto(d) \/ OnFile(d)
    PROVE  InTurn(e, w)'
  <1> DEFINE U == UpsertOf(d)
             F == FileOf(d)
  <1>1. /\ out = <<>> /\ received < MaxUpdates
        /\ UNCHANGED <<fPending, fRunning, sPending, sRunning, link>>
    BY DEF OnEntity, OnGroupPhoto, OnFile, ReceiveUpdate, fVars, sVars
  <1>2. \/ out' \in {<<>>, <<U>>} /\ files' = files
        \/ out' \in {<<F>>, <<U, F>>} /\ files' = [files EXCEPT ![d] = @ + 1]
    BY DEF OnEntity, OnGroupPhoto, OnFile, EmitFile, RequestDownload
  <1>3. files \in [Entities -> 0 .. MaxUpdates] /\ files[e] \in Nat
    BY MaxUpdatesAssumption DEF Inv, TypeOK
  <1>4. upserts[d] + 1 \in Nums /\ files[d] + 1 \in Nums
    <2>1. /\ upserts[d] \in 0 .. MaxUpdates /\ files[d] \in 0 .. MaxUpdates
          /\ upserts[d] <= received /\ files[d] <= received /\ received \in 0 .. MaxUpdates
      BY DEF Inv, TypeOK, Bounds
    <2> QED
      BY <1>1, <2>1, MaxUpdatesAssumption DEF Nums
  <1>5. U \in Upserts /\ F \in FilesOf(d) /\ F.n = files[d] + 1
    BY <1>4, JobFacts DEF UpsertOf, FileOf, Job
  <1>6. U \notin FilesOf(e) /\ (d # e => F \notin FilesOf(e))
    BY <1>5, KindFacts
  <1>7. /\ Elems(<<>>) = {} /\ Elems(<<U>>) = {U} /\ Elems(<<F>>) = {F}
        /\ Elems(<<U, F>>) = {U} \cup {F}
    BY <1>1, OutForms
  <1> HIDE DEF U, F
  <1>8. Ascends(out', FilesOf(e))
    <2>1. ASSUME NEW x, x \in {U, F} PROVE Ascends(<<x>>, FilesOf(e))
      BY DEF Ascends
    <2>2. Ascends(<<U, F>>, FilesOf(e))
      <3>1. ASSUME NEW i \in 1 .. 2, NEW k \in 1 .. 2, i < k,
                   <<U, F>>[i] \in FilesOf(e)
            PROVE  FALSE
        <4>1. i = 1
          BY <3>1
        <4>2. <<U, F>>[1] = U
          OBVIOUS
        <4> QED
          BY <1>6, <3>1, <4>1, <4>2
      <3>2. Len(<<U, F>>) = 2
        OBVIOUS
      <3> QED
        BY <3>1, <3>2 DEF Ascends
    <2>3. Ascends(<<>>, FilesOf(e))
      BY DEF Ascends
    <2> QED
      BY <1>2, <2>1, <2>2, <2>3
  <1> DEFINE S == Stations(e, w)
             T == Stations(e, w)'
  <1>9. /\ S[1] = {link[e]} /\ T[1] = {link'[e]}
        /\ S[2] = Numbers({sRunning[SerialWorker]}, LinksOf(e))
        /\ T[2] = Numbers({sRunning'[SerialWorker]}, LinksOf(e))
        /\ S[3] = Numbers(Elems(sPending), LinksOf(e))
        /\ T[3] = Numbers(Elems(sPending'), LinksOf(e))
        /\ S[4] = Numbers({fRunning[w]}, FilesOf(e))
        /\ T[4] = Numbers({fRunning'[w]}, FilesOf(e))
        /\ S[5] = Numbers(Elems(fPending), FilesOf(e))
        /\ T[5] = Numbers(Elems(fPending'), FilesOf(e))
        /\ S[6] = Numbers(Elems(out), FilesOf(e))
        /\ T[6] = Numbers(Elems(out'), FilesOf(e))
    BY StationFacts
  <1> HIDE DEF S, T
  <1>10. /\ Numbers({}, FilesOf(e)) = {} /\ Numbers({U}, FilesOf(e)) = {}
         /\ F \notin FilesOf(e) => Numbers({F}, FilesOf(e)) = {}
         /\ F \in FilesOf(e) => Numbers({F}, FilesOf(e)) = {F.n}
         /\ Numbers({U} \cup {F}, FilesOf(e)) \subseteq Numbers({F}, FilesOf(e))
    BY <1>6, NumbersOne DEF Numbers
  <1>11. /\ T[1] = S[1] /\ T[2] = S[2] /\ T[3] = S[3] /\ T[4] = S[4] /\ T[5] = S[5]
        /\ S[6] = {} /\ T[6] = Numbers(Elems(out'), FilesOf(e))
    BY <1>1, <1>7, <1>9, <1>10
  <1>12. Ordered(S) /\ Bounded(S, files[e])
    BY DEF InTurn, S
  <1>13. \A j \in 1 .. 5 : T[j] \subseteq S[j]
    BY <1>11
  <1>14. Ordered(T) /\ Bounded(T, files'[e])
    <2>1. CASE T[6] = {}
      <3>1. \A j \in 1 .. 6 : T[j] \subseteq S[j]
        BY <1>11, <2>1
      <3>2. files[e] <= files'[e] /\ files'[e] \in Nat
        BY <1>2, <1>3
      <3> QED
        BY <1>3, <1>12, <3>1, <3>2, DropOut
    <2>2. CASE T[6] # {}
      <3>1. out' \in {<<F>>, <<U, F>>} /\ d = e
        BY <1>2, <1>6, <1>7, <1>11, <1>10, <2>2
      <3>2. T[6] \subseteq {files[e] + 1}
        <4>1. Numbers({F}, FilesOf(e)) = {F.n} /\ F.n = files[e] + 1
          BY <1>5, <1>10, <3>1
        <4>2. Elems(out') = {F} \/ Elems(out') = {U} \cup {F}
          BY <1>7, <3>1
        <4> QED
          BY <1>11, <1>10, <4>1, <4>2
      <3>3. out' \notin {<<>>, <<U>>}
        BY <1>7, <1>11, <1>10, <2>2
      <3>4. files' = [files EXCEPT ![d] = @ + 1]
        BY <1>2, <3>3
      <3>5. files'[e] = files[e] + 1
        BY <1>3, <3>1, <3>4
      <3>6. Ordered(T) /\ Bounded(T, files[e] + 1)
        BY <1>3, <1>12, <1>13, <3>2, Emerge
      <3> QED
        BY <3>5, <3>6
    <2> QED
      BY <2>1, <2>2
  <1> QED
    BY <1>1, <1>8, <1>14 DEF InTurn, T, Ascends, FilesOf, LinksOf

\* The handler's next post goes to the end of its queue.
LEMMA PostNextTurn ==
    ASSUME Inv, NEW w \in FileWorkers, NEW e \in Entities, InTurn(e, w), PostNext
    PROVE  InTurn(e, w)'
  <1> DEFINE h == Head(out)
             S == Stations(e, w)
             T == Stations(e, w)'
  <1>1. out # <<>> /\ out' = Tail(out) /\ out \in Seq(FileJobs \cup Upserts)
    BY DEF PostNext, Inv, Bounds
  <1>2. h \in FileJobs \cup Upserts /\ Elems(out) = Elems(Tail(out)) \cup {h}
    BY <1>1, TailElems
  <1>3. UNCHANGED <<link, files>> /\ files[e] \in Nat
    BY MaxUpdatesAssumption DEF PostNext, Inv, TypeOK
  <1>4. /\ Ascends(Tail(out), FilesOf(e))
        /\ h \in FilesOf(e) => \A y \in Numbers(Elems(Tail(out)), FilesOf(e)) : h.n < y
    BY <1>1, TailAscends DEF InTurn
  <1>5. fPending \in Seq(FileJobs) /\ sPending \in Seq(SerialJobs)
    BY DEF Inv, TypeOK, Files!TypeOK, Serial!TypeOK
  <1>6. /\ S[1] = {link[e]} /\ T[1] = {link'[e]}
        /\ S[2] = Numbers({sRunning[SerialWorker]}, LinksOf(e))
        /\ T[2] = Numbers({sRunning'[SerialWorker]}, LinksOf(e))
        /\ S[3] = Numbers(Elems(sPending), LinksOf(e))
        /\ T[3] = Numbers(Elems(sPending'), LinksOf(e))
        /\ S[4] = Numbers({fRunning[w]}, FilesOf(e))
        /\ T[4] = Numbers({fRunning'[w]}, FilesOf(e))
        /\ S[5] = Numbers(Elems(fPending), FilesOf(e))
        /\ T[5] = Numbers(Elems(fPending'), FilesOf(e))
        /\ S[6] = Numbers(Elems(out), FilesOf(e))
        /\ T[6] = Numbers(Elems(out'), FilesOf(e))
    BY StationFacts
  <1>7. /\ Ordered(S) /\ Bounded(S, files[e])
        /\ Ascends(fPending, FilesOf(e)) /\ Ascends(sPending, LinksOf(e))
    BY DEF InTurn
  <1> HIDE DEF h, S, T
  <1>8. T[6] \subseteq S[6] /\ T[1] = S[1] /\ (h \in FilesOf(e) => h.n \in S[6])
    BY <1>1, <1>2, <1>3, <1>6 DEF Numbers
  <1>9. ASSUME h.kind = "file" PROVE InTurn(e, w)'
    <2>1. h \in FileJobs
      BY <1>2, <1>9, KindFacts
    <2>2. /\ fPending' = Append(fPending, h)
          /\ UNCHANGED <<fRunning, sPending, sRunning>>
      BY <1>9 DEF PostNext, h, Files!Accept, sVars
    <2>3. Elems(fPending') = Elems(fPending) \cup {h}
      BY <1>5, <2>1, <2>2, AppendElems
    <2>4. T[2] = S[2] /\ T[3] = S[3] /\ T[4] = S[4]
      BY <2>2, <1>6
    <2>5. /\ h \notin FilesOf(e) => T[5] = S[5]
          /\ h \in FilesOf(e) => T[5] = S[5] \cup {h.n}
      BY <1>6, <2>3, NumbersJoin
    <2>6. h \in FilesOf(e) => \A y \in T[6] : h.n < y
      BY <1>1, <1>4, <1>6
    <2>7. h \in FilesOf(e) => \A y \in Numbers(Elems(fPending), FilesOf(e)) : y < h.n
      BY <1>7, <1>8, <1>6 DEF Ordered
    <2>8. Ascends(fPending', FilesOf(e))
      BY <1>5, <1>7, <2>1, <2>2, <2>7, AppendAscends
    <2>9. Ordered(T) /\ Bounded(T, files[e])
      <3>1. CASE h \in FilesOf(e)
        <4>1. h.n \in S[5 + 1] /\ (\A y \in T[5 + 1] : h.n < y)
          BY <1>8, <2>6, <3>1
        <4>2. /\ T[5] \subseteq S[5] \cup {h.n}
              /\ \A j \in 1 .. 6 : j # 5 => T[j] \subseteq S[j]
          BY <1>8, <2>4, <2>5, <3>1
        <4>3. 5 \in 1 .. 5
          OBVIOUS
        <4> QED
          BY <1>7, <4>1, <4>2, <4>3, MoveOn
      <3>2. CASE h \notin FilesOf(e)
        <4>1. \A j \in 1 .. 6 : T[j] \subseteq S[j]
          BY <1>8, <2>4, <2>5, <3>2
        <4> QED
          BY <1>3, <1>7, <4>1, DropOut
      <3> QED
        BY <3>1, <3>2
    <2> QED
      BY <1>1, <1>3, <1>4, <1>7, <2>2, <2>8, <2>9 DEF InTurn, T, Ascends, FilesOf, LinksOf
  <1>10. ASSUME h.kind # "file" PROVE InTurn(e, w)'
    <2>1. h \in SerialJobs /\ h \notin LinksOf(e)
      BY <1>2, <1>10, KindFacts
    <2>2. /\ sPending' = Append(sPending, h)
          /\ UNCHANGED <<fPending, fRunning, sRunning>>
      BY <1>10 DEF PostNext, h, Serial!Accept, fVars
    <2>3. Elems(sPending') = Elems(sPending) \cup {h}
      BY <1>5, <2>1, <2>2, AppendElems
    <2>4. T[2] = S[2] /\ T[3] = S[3] /\ T[4] = S[4] /\ T[5] = S[5]
      BY <1>6, <2>1, <2>2, <2>3, NumbersJoin
    <2>5. Ascends(sPending', LinksOf(e))
      BY <1>5, <1>7, <2>1, <2>2, AppendAscends
    <2>6. \A j \in 1 .. 6 : T[j] \subseteq S[j]
      BY <1>8, <2>4
    <2>7. Ordered(T) /\ Bounded(T, files[e])
      BY <1>3, <1>7, <2>6, DropOut
    <2> QED
      BY <1>1, <1>3, <1>4, <1>7, <2>2, <2>5, <2>7 DEF InTurn, T, Ascends, FilesOf, LinksOf
  <1> QED
    BY <1>9, <1>10

\* The only worker of files_ takes the oldest file.
LEMMA StartFileTurn ==
    ASSUME Inv, NEW w \in FileWorkers, NEW e \in Entities, InTurn(e, w), StartFile(w)
    PROVE  InTurn(e, w)'
  <1> DEFINE h == Head(fPending)
             S == Stations(e, w)
             T == Stations(e, w)'
  <1>1. /\ fPending # <<>> /\ fPending' = Tail(fPending)
        /\ fRunning' = [fRunning EXCEPT ![w] = h] /\ fRunning[w] = NoJob
        /\ UNCHANGED <<sPending, sRunning, out, files, link>>
    BY DEF StartFile, Files!Start, sVars, loopVars
  <1>2. /\ fPending \in Seq(FileJobs) /\ files[e] \in Nat
        /\ fRunning \in [FileWorkers -> FileJobs \cup {NoJob}]
    BY MaxUpdatesAssumption DEF Inv, TypeOK, Files!TypeOK
  <1>3. fRunning'[w] = h /\ Elems(fPending) = Elems(Tail(fPending)) \cup {h}
    BY <1>1, <1>2, TailElems
  <1>4. /\ Ascends(Tail(fPending), FilesOf(e))
        /\ h \in FilesOf(e) => \A y \in Numbers(Elems(Tail(fPending)), FilesOf(e)) : h.n < y
    BY <1>1, <1>2, TailAscends DEF InTurn
  <1>5. Ordered(S) /\ Bounded(S, files[e])
    BY DEF InTurn
  <1>6. /\ T[1] = S[1] /\ T[2] = S[2] /\ T[3] = S[3] /\ T[6] = S[6]
        /\ T[4] = Numbers({h}, FilesOf(e))
        /\ S[5] = Numbers(Elems(Tail(fPending)) \cup {h}, FilesOf(e))
        /\ T[5] = Numbers(Elems(Tail(fPending)), FilesOf(e))
    BY <1>1, <1>3, StationFacts
  <1> HIDE DEF S, T, h
  <1>7. Ordered(T) /\ Bounded(T, files[e])
    <2>1. CASE h \in FilesOf(e)
      <3>1. T[4] = {h.n} /\ S[5] = T[5] \cup {h.n}
        BY <1>6, <2>1, NumbersJoin, NumbersOne
      <3>2. h.n \in S[4 + 1] /\ (\A y \in T[4 + 1] : h.n < y) /\ 4 \in 1 .. 5
        BY <1>4, <1>6, <2>1, <3>1
      <3>3. T[4] \subseteq S[4] \cup {h.n} /\ (\A j \in 1 .. 6 : j # 4 => T[j] \subseteq S[j])
        BY <1>6, <3>1
      <3> QED
        BY <1>5, <3>2, <3>3, MoveOn
    <2>2. CASE h \notin FilesOf(e)
      <3>1. T[4] = {} /\ S[5] = T[5]
        BY <1>6, <2>2, NumbersJoin, NumbersOne
      <3>2. \A j \in 1 .. 6 : T[j] \subseteq S[j]
        BY <1>6, <3>1
      <3> QED
        BY <1>2, <1>5, <3>2, DropOut
    <2> QED
      BY <2>1, <2>2
  <1> QED
    BY <1>1, <1>4, <1>7 DEF InTurn, T, Ascends, FilesOf, LinksOf

\* The worker gives its file up, or posts the link to the end of serial_.
LEMMA EndFileTurn ==
    ASSUME Inv, NEW w \in FileWorkers, NEW e \in Entities, InTurn(e, w),
           StoreFileFails(w) \/ PostLink(w)
    PROVE  InTurn(e, w)'
  <1> DEFINE f == fRunning[w]
             h == LinkOf(w)
             S == Stations(e, w)
             T == Stations(e, w)'
  <1>1. /\ f # NoJob /\ fRunning' = [fRunning EXCEPT ![w] = NoJob]
        /\ UNCHANGED <<fPending, sRunning, out, files, link>>
    BY DEF StoreFileFails, PostLink, Files!Finish, Serial!Accept, sVars, loopVars
  <1>2. sPending' = sPending \/ sPending' = Append(sPending, h)
    BY DEF StoreFileFails, PostLink, Serial!Accept, sVars
  <1>3. /\ sPending \in Seq(SerialJobs) /\ files[e] \in Nat
        /\ fRunning \in [FileWorkers -> FileJobs \cup {NoJob}]
    BY MaxUpdatesAssumption DEF Inv, TypeOK, Files!TypeOK, Serial!TypeOK
  <1>4. f \in FileJobs /\ fRunning'[w] = NoJob
    BY <1>1, <1>3
  <1>5. /\ h \in SerialJobs /\ h.n = f.n
        /\ h \in LinksOf(e) => f \in FilesOf(e)
    BY <1>4 DEF LinkOf, Job, FileJobs, SerialJobs, LinksOf, FilesOf
  <1>6. Ordered(S) /\ Bounded(S, files[e]) /\ Ascends(sPending, LinksOf(e))
    BY DEF InTurn
  <1>7. /\ T[1] = S[1] /\ T[2] = S[2] /\ T[5] = S[5] /\ T[6] = S[6]
        /\ S[4] = Numbers({f}, FilesOf(e)) /\ T[4] = Numbers({NoJob}, FilesOf(e))
        /\ S[3] = Numbers(Elems(sPending), LinksOf(e))
        /\ T[3] = Numbers(Elems(sPending'), LinksOf(e))
    <2>1. /\ S[4] = Numbers({f}, FilesOf(e)) /\ T[4] = Numbers({fRunning'[w]}, FilesOf(e))
          /\ S[3] = Numbers(Elems(sPending), LinksOf(e))
          /\ T[3] = Numbers(Elems(sPending'), LinksOf(e))
      BY StationFacts
    <2>2. /\ S[1] = {link[e]}
          /\ T[1] = {link'[e]}
          /\ S[2] = Numbers({sRunning[SerialWorker]}, LinksOf(e))
          /\ T[2] = Numbers({sRunning'[SerialWorker]}, LinksOf(e))
          /\ S[5] = Numbers(Elems(fPending), FilesOf(e))
          /\ T[5] = Numbers(Elems(fPending'), FilesOf(e))
          /\ S[6] = Numbers(Elems(out), FilesOf(e))
          /\ T[6] = Numbers(Elems(out'), FilesOf(e))
      BY StationFacts
    <2> HIDE DEF S, T, f
    <2>3. T[1] = S[1] /\ T[2] = S[2] /\ T[5] = S[5] /\ T[6] = S[6]
      BY <1>1, <2>2
    <2> QED
      BY <1>4, <2>1, <2>3
  <1>8. T[4] = {}
    <2>1. NoJob \notin FilesOf(e)
      BY KindFacts
    <2> QED
      BY <1>7, <2>1, NumbersOne
  <1> HIDE DEF S, T, f, h
  <1>9. ASSUME sPending' = Append(sPending, h), h \in LinksOf(e)
        PROVE  Ordered(T) /\ Bounded(T, files[e]) /\ Ascends(sPending', LinksOf(e))
    <2>1. S[4] = {h.n}
      BY <1>5, <1>7, <1>9, NumbersOne
    <2>2. Elems(sPending') = Elems(sPending) \cup {h}
      BY <1>3, <1>5, <1>9, AppendElems
    <2>3. T[3] = S[3] \cup {h.n}
      BY <1>7, <1>9, <2>2, NumbersJoin
    <2>4. h.n \in S[3 + 1] /\ (\A y \in T[3 + 1] : h.n < y) /\ 3 \in 1 .. 5
      BY <1>8, <2>1
    <2>5. T[3] \subseteq S[3] \cup {h.n} /\ (\A j \in 1 .. 6 : j # 3 => T[j] \subseteq S[j])
      BY <1>7, <1>8, <2>3
    <2>6. Ordered(T) /\ Bounded(T, files[e])
      BY <1>6, <2>4, <2>5, MoveOn
    <2>7. \A y \in Numbers(Elems(sPending), LinksOf(e)) : y < h.n
      BY <1>6, <1>7, <2>1 DEF Ordered
    <2>8. Ascends(sPending', LinksOf(e))
      BY <1>3, <1>5, <1>6, <1>9, <2>7, AppendAscends
    <2> QED
      BY <2>6, <2>8
  <1>10. ASSUME ~(sPending' = Append(sPending, h) /\ h \in LinksOf(e))
         PROVE  Ordered(T) /\ Bounded(T, files[e]) /\ Ascends(sPending', LinksOf(e))
    <2>1. T[3] = S[3] /\ Ascends(sPending', LinksOf(e))
      <3>1. CASE sPending' = sPending
        BY <1>6, <1>7, <3>1
      <3>2. CASE sPending' = Append(sPending, h) /\ h \notin LinksOf(e)
        <4>1. Elems(sPending') = Elems(sPending) \cup {h}
          BY <1>3, <1>5, <3>2, AppendElems
        <4>2. T[3] = S[3]
          BY <1>7, <3>2, <4>1, NumbersJoin
        <4>3. Ascends(sPending', LinksOf(e))
          BY <1>3, <1>5, <1>6, <3>2, AppendAscends
        <4> QED
          BY <4>2, <4>3
      <3> QED
        BY <1>2, <1>10, <3>1, <3>2
    <2>2. \A j \in 1 .. 6 : T[j] \subseteq S[j]
      BY <1>7, <1>8, <2>1
    <2> QED
      BY <1>3, <1>6, <2>1, <2>2, DropOut
  <1> QED
    BY <1>1, <1>9, <1>10 DEF InTurn, T, Ascends, FilesOf, LinksOf

\* The worker of serial_ takes the oldest job.
LEMMA StartSerialTurn ==
    ASSUME Inv, NEW w \in FileWorkers, NEW e \in Entities, InTurn(e, w), StartSerial
    PROVE  InTurn(e, w)'
  <1> DEFINE h == Head(sPending)
             S == Stations(e, w)
             T == Stations(e, w)'
  <1>1. /\ Serial!Start(SerialWorker)
        /\ UNCHANGED <<fPending, fRunning, out, files, link>>
    BY DEF StartSerial, fVars, loopVars
  <1>2. Serial!TypeOK /\ sPending \in Seq(SerialJobs) /\ files[e] \in Nat
    BY MaxUpdatesAssumption DEF Inv, TypeOK, Serial!TypeOK
  <1>3. sPending # <<>> /\ sPending' = Tail(sPending) /\ sRunning'[SerialWorker] = h
    BY <1>1, <1>2, SerialStart
  <1>4. Elems(sPending) = Elems(Tail(sPending)) \cup {h}
    BY <1>2, <1>3, TailElems
  <1>5. /\ Ascends(Tail(sPending), LinksOf(e))
        /\ h \in LinksOf(e) => \A y \in Numbers(Elems(Tail(sPending)), LinksOf(e)) : h.n < y
    BY <1>2, <1>3, TailAscends DEF InTurn
  <1>6. Ordered(S) /\ Bounded(S, files[e])
    BY DEF InTurn
  <1>7. /\ T[1] = S[1] /\ T[4] = S[4] /\ T[5] = S[5] /\ T[6] = S[6]
        /\ T[2] = Numbers({h}, LinksOf(e))
        /\ S[3] = Numbers(Elems(Tail(sPending)) \cup {h}, LinksOf(e))
        /\ T[3] = Numbers(Elems(Tail(sPending)), LinksOf(e))
    BY <1>1, <1>3, <1>4, StationFacts
  <1> HIDE DEF S, T, h
  <1>8. Ordered(T) /\ Bounded(T, files[e])
    <2>1. CASE h \in LinksOf(e)
      <3>1. T[2] = {h.n} /\ S[3] = T[3] \cup {h.n}
        BY <1>7, <2>1, NumbersJoin, NumbersOne
      <3>2. h.n \in S[2 + 1] /\ (\A y \in T[2 + 1] : h.n < y) /\ 2 \in 1 .. 5
        BY <1>5, <1>7, <2>1, <3>1
      <3>3. T[2] \subseteq S[2] \cup {h.n} /\ (\A j \in 1 .. 6 : j # 2 => T[j] \subseteq S[j])
        BY <1>7, <3>1
      <3> QED
        BY <1>6, <3>2, <3>3, MoveOn
    <2>2. CASE h \notin LinksOf(e)
      <3>1. T[2] = {} /\ S[3] = T[3]
        BY <1>7, <2>2, NumbersJoin, NumbersOne
      <3>2. \A j \in 1 .. 6 : T[j] \subseteq S[j]
        BY <1>7, <3>1
      <3> QED
        BY <1>2, <1>6, <3>2, DropOut
    <2> QED
      BY <2>1, <2>2
  <1> QED
    BY <1>1, <1>3, <1>5, <1>8 DEF InTurn, T, Ascends, FilesOf, LinksOf

\* serial_ ends its job: a link that succeeds replaces an older one.
LEMMA EndSerialTurn ==
    ASSUME Inv, NEW w \in FileWorkers, NEW e \in Entities, InTurn(e, w),
           RunSerial \/ RunSerialFails
    PROVE  InTurn(e, w)' /\ link[e] <= link'[e]
  <1> DEFINE job == sRunning[SerialWorker]
             S == Stations(e, w)
             T == Stations(e, w)'
  <1>1. /\ Serial!Finish(SerialWorker)
        /\ UNCHANGED <<fPending, fRunning, out, files>>
    BY DEF RunSerial, RunSerialFails, fVars, loopVars
  <1>2. Serial!TypeOK /\ files[e] \in Nat /\ link \in [Entities -> 0 .. MaxUpdates]
    BY MaxUpdatesAssumption DEF Inv, TypeOK
  <1>3. job \in SerialJobs /\ sRunning'[SerialWorker] = NoJob /\ sPending' = sPending
    BY <1>1, <1>2, SerialFinish
  <1>4. Ordered(S) /\ Bounded(S, files[e])
    BY DEF InTurn
  <1>5. /\ T[3] = S[3] /\ T[4] = S[4] /\ T[5] = S[5] /\ T[6] = S[6]
        /\ S[1] = {link[e]} /\ T[1] = {link'[e]}
        /\ S[2] = Numbers({job}, LinksOf(e)) /\ T[2] = Numbers({NoJob}, LinksOf(e))
    <2>1. /\ S[1] = {link[e]}
          /\ T[1] = {link'[e]}
          /\ S[2] = Numbers({sRunning[SerialWorker]}, LinksOf(e))
          /\ T[2] = Numbers({sRunning'[SerialWorker]}, LinksOf(e))
          /\ S[3] = Numbers(Elems(sPending), LinksOf(e))
          /\ T[3] = Numbers(Elems(sPending'), LinksOf(e))
          /\ S[4] = Numbers({fRunning[w]}, FilesOf(e))
          /\ T[4] = Numbers({fRunning'[w]}, FilesOf(e))
          /\ S[5] = Numbers(Elems(fPending), FilesOf(e))
          /\ T[5] = Numbers(Elems(fPending'), FilesOf(e))
          /\ S[6] = Numbers(Elems(out), FilesOf(e))
          /\ T[6] = Numbers(Elems(out'), FilesOf(e))
      BY StationFacts
    <2> HIDE DEF S, T
    <2> QED
      BY <1>1, <1>3, <2>1
  <1>6. T[2] = {}
    <2>1. NoJob \notin LinksOf(e)
      BY KindFacts
    <2> QED
      BY <1>5, <2>1, NumbersOne
  <1>7. link'[e] = link[e] \/ (job \in LinksOf(e) /\ link'[e] = job.n)
    <2>1. CASE UNCHANGED link
      BY <2>1
    <2>2. CASE job.kind = "link" /\ link' = [link EXCEPT ![job.e] = job.n]
      BY <1>2, <1>3, <2>2 DEF LinksOf
    <2> QED
      BY <2>1, <2>2 DEF RunSerial, RunSerialFails
  <1> HIDE DEF S, T, job
  <1>8. link[e] \in Nat
    BY <1>2, MaxUpdatesAssumption
  <1>9. Ordered(T) /\ Bounded(T, files[e]) /\ link[e] <= link'[e]
    <2>1. CASE link'[e] = link[e]
      <3>1. \A j \in 1 .. 6 : T[j] \subseteq S[j]
        BY <1>5, <1>6, <2>1
      <3> QED
        BY <1>2, <1>4, <1>8, <2>1, <3>1, DropOut
    <2>2. CASE job \in LinksOf(e) /\ link'[e] = job.n
      <3>1. S[2] = {job.n}
        BY <1>5, <2>2, NumbersOne
      <3>2. job.n \in S[1 + 1] /\ (\A y \in T[1 + 1] : job.n < y) /\ 1 \in 1 .. 5
        BY <1>6, <3>1
      <3>3. T[1] \subseteq S[1] \cup {job.n} /\ (\A j \in 1 .. 6 : j # 1 => T[j] \subseteq S[j])
        BY <1>5, <1>6, <2>2
      <3>4. link[e] < job.n /\ job.n \in Nat
        BY <1>4, <1>5, <3>1 DEF Ordered, Bounded
      <3>5. Ordered(T) /\ Bounded(T, files[e])
        BY <1>4, <3>2, <3>3, MoveOn
      <3> QED
        BY <1>8, <2>2, <3>4, <3>5
    <2> QED
      BY <1>7, <2>1, <2>2
  <1> QED
    BY <1>1, <1>3, <1>9 DEF InTurn, T, Ascends, FilesOf, LinksOf

\* Everything else moves no job and no link.
LEMMA OtherTurn ==
    ASSUME Inv, NEW w \in FileWorkers, NEW e \in Entities, InTurn(e, w),
           UNCHANGED <<fPending, fRunning, sPending, sRunning, out, files, link>>
    PROVE  InTurn(e, w)'
  BY DEF InTurn, Stations, Numbers, Elems, Ordered, Bounded, Ascends, FilesOf, LinksOf

\* Each step of the daemon keeps the files of an entity in turn, and no step but a
\* link that succeeds touches a link.
LEMMA TurnStep ==
    ASSUME Inv, NEW w \in FileWorkers, FileWorkers = {w}, NEW e \in Entities, InTurn(e, w),
           [Next]_vars
    PROVE  InTurn(e, w)' /\ link[e] <= link'[e]
  <1>1. link[e] <= link[e]
    BY MaxUpdatesAssumption DEF Inv, TypeOK
  <1>2. ASSUME NEW d \in Entities, OnEntity(d) \/ OnGroupPhoto(d) \/ OnFile(d)
        PROVE  InTurn(e, w)' /\ link' = link
    BY <1>2, UpdateTurn DEF OnEntity, OnGroupPhoto, OnFile
  <1>3. ASSUME PostNext PROVE InTurn(e, w)' /\ link' = link
    BY <1>3, PostNextTurn DEF PostNext
  <1>4. ASSUME Stop \/ LeaveLoop \/ ShutdownFiles \/ ShutdownSerial \/ Terminated
                 \/ UNCHANGED vars
        PROVE  InTurn(e, w)' /\ link' = link
    <2>1. UNCHANGED <<fPending, fRunning, sPending, sRunning, out, files, link>>
      BY <1>4 DEF Stop, LeaveLoop, ShutdownFiles, ShutdownSerial, Terminated, vars,
                  fVars, sVars, loopVars, Files!Close, Files!Stop, Serial!Close, Serial!Stop
    <2> QED
      BY <2>1, OtherTurn
  <1>5. ASSUME FileStep(w) PROVE InTurn(e, w)' /\ link' = link
    <2>1. CASE StoreFile(w)
      <3>1. UNCHANGED <<fPending, fRunning, sPending, sRunning, out, files, link>>
        BY <2>1 DEF StoreFile, fVars, sVars, loopVars
      <3> QED
        BY <3>1, OtherTurn
    <2>2. CASE StartFile(w)
      BY <2>2, StartFileTurn DEF StartFile
    <2>3. CASE StoreFileFails(w) \/ PostLink(w)
      BY <2>3, EndFileTurn DEF StoreFileFails, PostLink
    <2> QED
      BY <1>5, <2>1, <2>2, <2>3 DEF FileStep
  <1>6. ASSUME StartSerial PROVE InTurn(e, w)' /\ link' = link
    BY <1>6, StartSerialTurn DEF StartSerial
  <1>7. ASSUME RunSerial \/ RunSerialFails PROVE InTurn(e, w)' /\ link[e] <= link'[e]
    BY <1>7, EndSerialTurn
  <1>8. ASSUME NEW v \in FileWorkers, FileStep(v) PROVE FileStep(w)
    BY <1>8
  <1> QED
    BY <1>1, <1>2, <1>3, <1>4, <1>5, <1>6, <1>7, <1>8 DEF Next, LoopStep, SerialStep

\* No link of an entity is replaced by an older file's.
LinksAscend == \A e \in Entities : link[e] <= link'[e]

\* With one file thread (TG_FILE_THREADS = 1) the links of a row are made in the order
\* in which its files were handed over, so that a row never goes back to an older file:
\* what two file workers break (see onProfilePhoto, onGroupPhoto and onMessageFile).
THEOREM OneWorkerKeepsOrder ==
    ASSUME NEW w \in FileWorkers, FileWorkers = {w}
    PROVE  Spec => [][LinksAscend]_vars
  <1> DEFINE Turns == \A e \in Entities : InTurn(e, w)
  <1>1. Init => Turns
    <2> SUFFICES ASSUME Init, NEW e \in Entities PROVE InTurn(e, w)
      OBVIOUS
    <2>1. /\ link[e] = 0 /\ files[e] = 0 /\ out = <<>> /\ fPending = <<>> /\ sPending = <<>>
          /\ sRunning[SerialWorker] = NoJob /\ fRunning[w] = NoJob
      BY DEF Init, Files!Init, Serial!Init
    <2>2. NoJob \notin LinksOf(e) /\ NoJob \notin FilesOf(e)
      BY KindFacts
    <2>3. Elems(<<>>) = {}
      BY DEF Elems
    <2>4. /\ Numbers({}, LinksOf(e)) = {} /\ Numbers({}, FilesOf(e)) = {}
          /\ Numbers({NoJob}, LinksOf(e)) = {} /\ Numbers({NoJob}, FilesOf(e)) = {}
      BY <2>2, NumbersOne
    <2> DEFINE S == Stations(e, w)
    <2>5. /\ S[1] = {0} /\ S[2] = {} /\ S[3] = {} /\ S[4] = {} /\ S[5] = {} /\ S[6] = {}
      <3>1. /\ S[1] = {link[e]}
            /\ S[2] = Numbers({sRunning[SerialWorker]}, LinksOf(e))
            /\ S[3] = Numbers(Elems(sPending), LinksOf(e))
            /\ S[4] = Numbers({fRunning[w]}, FilesOf(e))
            /\ S[5] = Numbers(Elems(fPending), FilesOf(e))
            /\ S[6] = Numbers(Elems(out), FilesOf(e))
        BY StationFacts
      <3> HIDE DEF S
      <3> QED
        BY <2>1, <2>3, <2>4, <3>1
    <2> HIDE DEF S
    <2>6. Ordered(S) /\ Bounded(S, 0)
      BY <2>5 DEF Ordered, Bounded
    <2>7. /\ Ascends(<<>>, LinksOf(e)) /\ Ascends(<<>>, FilesOf(e))
      BY DEF Ascends
    <2> QED
      BY <2>1, <2>6, <2>7 DEF InTurn, S
  <1>2. Inv /\ Turns /\ [Next]_vars => Turns' /\ [LinksAscend]_vars
    BY TurnStep DEF LinksAscend
  <1> HIDE DEF Turns
  <1> QED
    BY <1>1, <1>2, Invariance, PTL DEF Spec

-----------------------------------------------------------------------------
(* What the handlers post to serial_ (module EventLoop).  The jobs differ  *)
(* from those above, the argument about the queue does not: of two jobs    *)
(* that belong together the second never overtakes the first.              *)

CONSTANTS Chats, Messages, FileIds, None, Shapes, MaxReplyDepth, ReplyDedupCap, MaxThrows

VARIABLES known, asked, resolved, pending, complete, told, serial,
          entityRows, messageRows, linked, served, wanting

Loop == INSTANCE EventLoop WITH rows <- entityRows, stored <- messageRows

Replies == {m \in Loop!Sent : Loop!Replied(m) # None}

\* The jobs and requests that the handlers make: their messages exist, and the
\* message of a link or of a "replied" request is a reply.
PostedJobs == [op : {"upsert"}, id : Loop!Entities]
                \cup [op : {"save"}, id : Loop!Sent, sure : BOOLEAN]
                \cup [op : {"link"}, id : Replies, fetched : BOOLEAN]
MadeRequests == [type : {"user", "chat"}, id : Loop!Entities]
                  \cup [type : {"edited"}, id : Loop!Sent]
                  \cup [type : {"replied"}, id : Replies, depth : 0 .. MaxReplyDepth]

\* The saves of t; the saves that count on a row of e; the links that count on a
\* row of t.
SavesOf(t) == {j \in PostedJobs : j.op = "save" /\ j.id = t}
SavesOn(e) == {j \in PostedJobs : j.op = "save" /\ j.sure /\ e \in Loop!References(j.id)}
LinksTo(t) == {j \in PostedJobs : j.op = "link" /\ j.fetched /\ Loop!Replied(j.id) = t}

\* The entities whose upsert and the messages whose save has run, with or without
\* success.
Tried == entityRows \cup {e \in Loop!Entities : Loop!Upsert(e) \in failed}
Settled == messageRows \cup {j.id : j \in {k \in lost \cup failed : k.op = "save"}}

\* What Telegram has: typed messages, and replies to messages that exist.
World == /\ message \in [Messages -> Loop!Message \cup {None}]
         /\ \A m \in Replies : Loop!Replied(m) \in Loop!Sent
         /\ None \notin Messages /\ MaxReplyDepth \in Nat

\* An upsert of what is cached has run or is in the queue, and ahead of every save
\* and link that counts on a row is the job that writes it.
Queue(s, cache) ==
    /\ s \in Seq(PostedJobs)
    /\ \A e \in cache \ Tried : Loop!Upsert(e) \in Elems(s)
    /\ \A e \in Loop!Entities \ Tried : Precedes(s, SavesOn(e), {Loop!Upsert(e)})
    /\ \A t \in Messages \ Settled : Precedes(s, LinksTo(t), SavesOf(t))

\* A message counts as fetched only once its save is posted.
SavePosted(s, t) == t \notin Settled => Elems(s) \cap SavesOf(t) # {}
Fetched(s, done) == \A t \in done : SavePosted(s, t)

Requests(bag) == Loop!IsABag(bag) /\ DOMAIN bag \subseteq MadeRequests

LoopInv == /\ World /\ Loop!TypeOK /\ Requests(asked)
           /\ Queue(serial, known) /\ Fetched(serial, resolved)
           /\ Loop!KnownIsStored /\ Loop!FetchedIsFound

-----------------------------------------------------------------------------
(* What the handlers post *)

\* The parts of a message of the behaviour.
LEMMA MessageFacts ==
    ASSUME World, NEW m \in Loop!Sent
    PROVE  /\ m \in Messages /\ message[m] \in Loop!Message
           /\ Loop!Replied(m) \in Messages \cup {None}
           /\ Loop!References(m) \subseteq Loop!Entities
  <1>1. m \in Messages /\ message[m] \in Loop!Message
    BY DEF World, Loop!Sent
  <1>2. /\ message[m].chat \in Loop!Entities /\ message[m].sender \in Loop!Entities
        /\ message[m].reply \in Messages \cup {None}
    BY <1>1 DEF Loop!Message
  <1> QED
    BY <1>1, <1>2 DEF Loop!Replied, Loop!References, Loop!Entities

\* What the jobs of PostedJobs are.
LEMMA PostedFacts ==
    /\ \A e \in Loop!Entities : Loop!Upsert(e) \in PostedJobs
    /\ \A e : Loop!Upsert(e).op = "upsert" /\ Loop!Upsert(e).id = e
    /\ \A j \in PostedJobs : j.op = "upsert" => j.id \in Loop!Entities /\ j = Loop!Upsert(j.id)
    /\ \A j \in PostedJobs : j.op = "save" => j.id \in Loop!Sent /\ j.sure \in BOOLEAN
    /\ \A j \in PostedJobs : j.op = "link" => j.id \in Replies /\ j.fetched \in BOOLEAN
    /\ \A j \in PostedJobs : j.op \in {"upsert", "save", "link"}
  BY DEF PostedJobs, Loop!Upsert

\* Appending an upsert.
LEMMA PostUpsert ==
    ASSUME NEW s, Queue(s, known), NEW e \in Loop!Entities
    PROVE  /\ Queue(Append(s, Loop!Upsert(e)), known)
           /\ Elems(Append(s, Loop!Upsert(e))) = Elems(s) \cup {Loop!Upsert(e)}
  <1> DEFINE x == Loop!Upsert(e)
             s2 == Append(s, x)
  <1>1. s \in Seq(PostedJobs) /\ x \in PostedJobs /\ x.op = "upsert"
    BY PostedFacts DEF Queue
  <1>2. s2 \in Seq(PostedJobs) /\ Elems(s2) = Elems(s) \cup {x}
    BY <1>1, AppendElems
  <1>3. ASSUME NEW f \in known \ Tried PROVE Loop!Upsert(f) \in Elems(s2)
    BY <1>2 DEF Queue
  <1>4. ASSUME NEW f \in Loop!Entities \ Tried
        PROVE  Precedes(s2, SavesOn(f), {Loop!Upsert(f)})
    <2>1. x \notin SavesOn(f) /\ Precedes(s, SavesOn(f), {Loop!Upsert(f)})
      BY <1>1 DEF SavesOn, Queue
    <2> QED
      BY <1>1, <2>1, AppendPrecedes
  <1>5. ASSUME NEW t \in Messages \ Settled PROVE Precedes(s2, LinksTo(t), SavesOf(t))
    <2>1. x \notin LinksTo(t) /\ Precedes(s, LinksTo(t), SavesOf(t))
      BY <1>1 DEF LinksTo, Queue
    <2> QED
      BY <1>1, <2>1, AppendPrecedes
  <1> HIDE DEF x, s2
  <1>6. Queue(s2, known) /\ Elems(s2) = Elems(s) \cup {x}
    BY <1>2, <1>3, <1>4, <1>5 DEF Queue
  <1> QED
    BY <1>6 DEF s2, x

SaveOf(m) == [op |-> "save", id |-> m, sure |-> Loop!References(m) \subseteq known]

\* Appending the save of a message: what it counts on has been posted.
LEMMA PostSave ==
    ASSUME NEW s, Queue(s, known), NEW m \in Loop!Sent
    PROVE  /\ Queue(Append(s, SaveOf(m)), known)
           /\ Elems(Append(s, SaveOf(m))) = Elems(s) \cup {SaveOf(m)}
           /\ SaveOf(m) \in SavesOf(m)
  <1> DEFINE x == SaveOf(m)
             s2 == Append(s, x)
  <1>0. (Loop!References(m) \subseteq known) \in BOOLEAN
    OBVIOUS
  <1>1. /\ s \in Seq(PostedJobs) /\ x \in PostedJobs
        /\ x.op = "save" /\ x.id = m /\ (x.sure => Loop!References(m) \subseteq known)
    BY <1>0 DEF Queue, SaveOf, PostedJobs
  <1>2. s2 \in Seq(PostedJobs) /\ Elems(s2) = Elems(s) \cup {x}
    BY <1>1, AppendElems
  <1> HIDE DEF x
  <1>3. ASSUME NEW f \in known \ Tried PROVE Loop!Upsert(f) \in Elems(s2)
    BY <1>2 DEF Queue
  <1>4. ASSUME NEW f \in Loop!Entities \ Tried
        PROVE  Precedes(s2, SavesOn(f), {Loop!Upsert(f)})
    <2>1. Precedes(s, SavesOn(f), {Loop!Upsert(f)})
      BY DEF Queue
    <2>2. x \in SavesOn(f) => f \in known \ Tried
      BY <1>1 DEF SavesOn
    <2>3. x \in SavesOn(f) => Elems(s) \cap {Loop!Upsert(f)} # {}
      BY <2>2 DEF Queue
    <2> QED
      BY <1>1, <2>1, <2>3, AppendPrecedes
  <1>5. ASSUME NEW t \in Messages \ Settled PROVE Precedes(s2, LinksTo(t), SavesOf(t))
    <2>1. x \notin LinksTo(t) /\ Precedes(s, LinksTo(t), SavesOf(t))
      BY <1>1 DEF LinksTo, Queue
    <2> QED
      BY <1>1, <2>1, AppendPrecedes
  <1> HIDE DEF s2
  <1>6. Queue(s2, known) /\ Elems(s2) = Elems(s) \cup {x}
    BY <1>2, <1>3, <1>4, <1>5 DEF Queue
  <1>7. x \in SavesOf(m)
    BY <1>1 DEF SavesOf
  <1> QED
    BY <1>6, <1>7 DEF s2, x

\* Appending a link, behind the save it counts on.
LEMMA PostReplyLink ==
    ASSUME NEW s, Queue(s, known), NEW m \in Replies, NEW f \in BOOLEAN,
           f => SavePosted(s, Loop!Replied(m))
    PROVE  /\ Queue(Append(s, Loop!LinkOf(m, f)), known)
           /\ Elems(Append(s, Loop!LinkOf(m, f))) = Elems(s) \cup {Loop!LinkOf(m, f)}
  <1> DEFINE x == Loop!LinkOf(m, f)
             s2 == Append(s, x)
  <1>1. /\ s \in Seq(PostedJobs) /\ x \in PostedJobs
        /\ x.op = "link" /\ x.id = m /\ x.fetched = f
    BY DEF Queue, Loop!LinkOf, PostedJobs
  <1>2. s2 \in Seq(PostedJobs) /\ Elems(s2) = Elems(s) \cup {x}
    BY <1>1, AppendElems
  <1> HIDE DEF x
  <1>3. ASSUME NEW e \in known \ Tried PROVE Loop!Upsert(e) \in Elems(s2)
    BY <1>2 DEF Queue
  <1>4. ASSUME NEW e \in Loop!Entities \ Tried
        PROVE  Precedes(s2, SavesOn(e), {Loop!Upsert(e)})
    <2>1. x \notin SavesOn(e) /\ Precedes(s, SavesOn(e), {Loop!Upsert(e)})
      BY <1>1 DEF SavesOn, Queue
    <2> QED
      BY <1>1, <2>1, AppendPrecedes
  <1>5. ASSUME NEW t \in Messages \ Settled PROVE Precedes(s2, LinksTo(t), SavesOf(t))
    <2>1. Precedes(s, LinksTo(t), SavesOf(t))
      BY DEF Queue
    <2>2. x \in LinksTo(t) => Elems(s) \cap SavesOf(t) # {}
      BY <1>1 DEF LinksTo, SavePosted
    <2> QED
      BY <1>1, <2>1, <2>2, AppendPrecedes
  <1> HIDE DEF s2
  <1>6. Queue(s2, known) /\ Elems(s2) = Elems(s) \cup {x}
    BY <1>2, <1>3, <1>4, <1>5 DEF Queue
  <1> QED
    BY <1>6 DEF s2, x

\* What is posted stays posted.
LEMMA StillPosted ==
    ASSUME NEW s, NEW s2, Elems(s) \subseteq Elems(s2), NEW t, SavePosted(s, t)
    PROVE  SavePosted(s2, t)
  BY DEF SavePosted

\* Appending what Resaved posts.
LEMMA PostResaved ==
    ASSUME NEW s, Queue(s, known), known \subseteq Loop!Entities, NEW e
    PROVE  /\ Loop!Resaved(e) \in Seq(PostedJobs)
           /\ Queue(s \o Loop!Resaved(e), known)
           /\ Elems(s) \subseteq Elems(s \o Loop!Resaved(e))
  <1>1. s \in Seq(PostedJobs)
    BY DEF Queue
  <1>2. CASE e \in known
    <2>1. e \in Loop!Entities /\ Loop!Upsert(e) \in PostedJobs
      BY <1>2, PostedFacts
    <2>2. Loop!Resaved(e) = <<Loop!Upsert(e)>>
      BY <1>2 DEF Loop!Resaved
    <2>3. Append(s, Loop!Upsert(e)) = s \o <<Loop!Upsert(e)>>
      BY <1>1, <2>1, AppendIsConcat
    <2>4. /\ Queue(Append(s, Loop!Upsert(e)), known)
          /\ Elems(Append(s, Loop!Upsert(e))) = Elems(s) \cup {Loop!Upsert(e)}
      BY <2>1, PostUpsert
    <2>5. <<Loop!Upsert(e)>> \in Seq(PostedJobs)
      BY <2>1
    <2> QED
      BY <2>2, <2>3, <2>4, <2>5
  <1>3. CASE e \notin known
    <2>1. Loop!Resaved(e) = <<>>
      BY <1>3 DEF Loop!Resaved
    <2>2. s \o <<>> = s
      BY <1>1, ConcatEmptySeq
    <2> QED
      BY <2>1, <2>2, EmptySeq
  <1> QED
    BY <1>2, <1>3

\* Handling a message: its save is posted, and a link only behind the save of a
\* message that counts as fetched.
LEMMA PostMessage ==
    ASSUME World, known \subseteq Loop!Entities, NEW s, Queue(s, known),
           NEW m \in Loop!Sent, NEW depth, NEW done,
           Loop!Replied(m) \in done => Loop!Replied(m) = m \/ SavePosted(s, Loop!Replied(m))
    PROVE  /\ Queue(s \o Loop!Posted(m, depth, done), known)
           /\ Elems(s) \subseteq Elems(s \o Loop!Posted(m, depth, done))
           /\ SavePosted(s \o Loop!Posted(m, depth, done), m)
  <1> DEFINE R == Loop!Resaved(message[m].origin)
             T == IF Loop!Replied(m) # None /\ Loop!NoFetch(m, depth, done)
                    THEN <<Loop!LinkOf(m, Loop!Replied(m) \in done)>> ELSE <<>>
             s1 == s \o R
             s2 == s1 \o <<SaveOf(m)>>
  <1>1. Loop!Posted(m, depth, done) = (R \o <<SaveOf(m)>>) \o T
    BY DEF Loop!Posted, SaveOf
  <1>2. R \in Seq(PostedJobs) /\ Queue(s1, known) /\ Elems(s) \subseteq Elems(s1)
    BY PostResaved
  <1>3. s \in Seq(PostedJobs) /\ s1 \in Seq(PostedJobs)
    BY <1>2 DEF Queue
  <1>4. /\ Queue(Append(s1, SaveOf(m)), known) /\ SaveOf(m) \in SavesOf(m)
        /\ Elems(Append(s1, SaveOf(m))) = Elems(s1) \cup {SaveOf(m)}
    <2> HIDE DEF s1
    <2> QED
      BY <1>2, PostSave
  <1>5. SaveOf(m) \in PostedJobs
    BY <1>4 DEF SavesOf
  <1>6. Append(s1, SaveOf(m)) = s2
    <2> HIDE DEF s1
    <2> QED
      BY <1>3, <1>5, AppendIsConcat
  <1>7. /\ Queue(s2, known) /\ Elems(s) \subseteq Elems(s2) /\ SavePosted(s2, m)
        /\ s2 \in Seq(PostedJobs)
    BY <1>2, <1>4, <1>6 DEF SavePosted, Queue
  <1>8. /\ T \in Seq(PostedJobs) /\ Queue(s2 \o T, known)
        /\ Elems(s2) \subseteq Elems(s2 \o T)
    <2> HIDE DEF s2
    <2>1. CASE Loop!Replied(m) # None /\ Loop!NoFetch(m, depth, done)
      <3> DEFINE f == Loop!Replied(m) \in done
      <3>1. m \in Replies /\ f \in BOOLEAN /\ T = <<Loop!LinkOf(m, f)>>
        BY <2>1 DEF Replies
      <3>2. Loop!LinkOf(m, f) \in PostedJobs
        BY <3>1 DEF Loop!LinkOf, PostedJobs
      <3>3. f => SavePosted(s2, Loop!Replied(m))
        BY <1>7, StillPosted
      <3> HIDE DEF f, T
      <3>4. /\ Queue(Append(s2, Loop!LinkOf(m, f)), known)
            /\ Elems(Append(s2, Loop!LinkOf(m, f))) = Elems(s2) \cup {Loop!LinkOf(m, f)}
        BY <1>7, <3>1, <3>3, PostReplyLink
      <3>5. Append(s2, Loop!LinkOf(m, f)) = s2 \o <<Loop!LinkOf(m, f)>>
        BY <1>7, <3>2, AppendIsConcat
      <3>6. <<Loop!LinkOf(m, f)>> \in Seq(PostedJobs)
        BY <3>2
      <3> QED
        BY <3>1, <3>4, <3>5, <3>6
    <2>2. CASE ~(Loop!Replied(m) # None /\ Loop!NoFetch(m, depth, done))
      <3>1. T = <<>>
        BY <2>2
      <3>2. s2 \o <<>> = s2
        BY <1>7, ConcatEmptySeq
      <3> QED
        BY <1>7, <3>1, <3>2, EmptySeq
    <2> QED
      BY <2>1, <2>2
  <1>9. s \o ((R \o <<SaveOf(m)>>) \o T) = s2 \o T
    <2> HIDE DEF R, T
    <2>1. <<SaveOf(m)>> \in Seq(PostedJobs)
      BY <1>5
    <2>2. R \o <<SaveOf(m)>> \in Seq(PostedJobs)
      BY <1>2, <2>1, ConcatProperties
    <2>3. s \o ((R \o <<SaveOf(m)>>) \o T) = (s \o (R \o <<SaveOf(m)>>)) \o T
      BY <1>3, <1>8, <2>2, ConcatAssociative
    <2>4. s \o (R \o <<SaveOf(m)>>) = (s \o R) \o <<SaveOf(m)>>
      BY <1>2, <1>3, <2>1, ConcatAssociative
    <2> QED
      BY <2>3, <2>4
  <1> HIDE DEF R, T, s2
  <1>10. SavePosted(s2 \o T, m)
    BY <1>7, <1>8, StillPosted
  <1> QED
    BY <1>1, <1>7, <1>8, <1>9, <1>10

-----------------------------------------------------------------------------
(* What the handlers ask for *)

\* The union of two bags of requests is one.
LEMMA RequestsUnion ==
    ASSUME NEW A, NEW B, Requests(A), Requests(B)
    PROVE  Requests(Loop!(+)(A, B))
  <1> DEFINE U == Loop!(+)(A, B)
  <1>1. /\ A \in [DOMAIN A -> {n \in Nat : n > 0}]
        /\ B \in [DOMAIN B -> {n \in Nat : n > 0}]
    BY DEF Requests, Loop!IsABag
  <1>2. U = [x \in DOMAIN A \cup DOMAIN B |-> (IF x \in DOMAIN A THEN A[x] ELSE 0)
                                                + (IF x \in DOMAIN B THEN B[x] ELSE 0)]
    BY DEF Loop!(+)
  <1> HIDE DEF U
  <1>3. ASSUME NEW x \in DOMAIN A \cup DOMAIN B PROVE U[x] \in {n \in Nat : n > 0}
    BY <1>1, <1>2
  <1>4. DOMAIN U = DOMAIN A \cup DOMAIN B
    BY <1>2
  <1>5. U \in [DOMAIN U -> {n \in Nat : n > 0}]
    BY <1>2, <1>3, <1>4
  <1> QED
    BY <1>4, <1>5 DEF Requests, Loop!IsABag, U

\* One request, and none.
LEMMA RequestsOne ==
    /\ \A r \in MadeRequests : Requests(Loop!SetToBag({r}))
    /\ Requests(Loop!EmptyBag)
  BY DEF Requests, Loop!IsABag, Loop!SetToBag, Loop!EmptyBag

\* An answer takes its request away.
LEMMA RequestsAnswered ==
    ASSUME Requests(asked), NEW r
    PROVE  Requests(Loop!Answered(r))
  <1> DEFINE A == Loop!Answered(r)
             C == [x \in DOMAIN asked |-> IF x \in DOMAIN Loop!SetToBag({r})
                                            THEN asked[x] - Loop!SetToBag({r})[x]
                                            ELSE asked[x]]
  <1>1. asked \in [DOMAIN asked -> {n \in Nat : n > 0}]
    BY DEF Requests, Loop!IsABag
  <1>2. A = [x \in {d \in DOMAIN C : C[d] > 0} |-> C[x]]
    BY DEF Loop!Answered, Loop!(-)
  <1>3. \A x \in DOMAIN asked : C[x] \in Int
    BY <1>1 DEF Loop!SetToBag
  <1>4. DOMAIN C = DOMAIN asked
    OBVIOUS
  <1> HIDE DEF A, C
  <1>5. DOMAIN A \subseteq DOMAIN asked /\ A \in [DOMAIN A -> {n \in Nat : n > 0}]
    BY <1>2, <1>3, <1>4
  <1> QED
    BY <1>5 DEF Requests, Loop!IsABag, A

\* What an unknown entity is asked for with.
LEMMA AskForRequests ==
    ASSUME NEW e
    PROVE  Requests(Loop!AskFor(e))
  <1>1. CASE e \in Loop!Entities \ known
    <2> DEFINE r == [type |-> IF e \in Users THEN "user" ELSE "chat", id |-> e]
    <2>1. r \in MadeRequests
      BY <1>1 DEF MadeRequests
    <2> QED
      BY <1>1, <2>1, RequestsOne DEF Loop!AskFor
  <1>2. CASE e \notin Loop!Entities \ known
    BY <1>2, RequestsOne DEF Loop!AskFor
  <1> QED
    BY <1>1, <1>2

\* What handling a message asks for; a reply is fetched only above the depth cap.
LEMMA MessageRequests ==
    ASSUME World, NEW m \in Loop!Sent, NEW depth \in Nat, NEW done
    PROVE  Requests(Loop!Requested(m, depth, done))
  <1> DEFINE T == IF Loop!Replied(m) # None /\ ~Loop!NoFetch(m, depth, done)
                    THEN Loop!SetToBag({[type |-> "replied", id |-> m, depth |-> depth]})
                    ELSE Loop!EmptyBag
  <1>1. Requests(T)
    <2>1. CASE Loop!Replied(m) # None /\ ~Loop!NoFetch(m, depth, done)
      <3>1. m \in Replies /\ depth \in 0 .. MaxReplyDepth
        BY <2>1 DEF Replies, Loop!NoFetch, World
      <3>2. [type |-> "replied", id |-> m, depth |-> depth] \in MadeRequests
        BY <3>1 DEF MadeRequests
      <3> QED
        BY <2>1, <3>2, RequestsOne
    <2>2. CASE ~(Loop!Replied(m) # None /\ ~Loop!NoFetch(m, depth, done))
      BY <2>2, RequestsOne
    <2> QED
      BY <2>1, <2>2
  <1>2. Loop!Requested(m, depth, done) = Loop!(+)(Loop!AskFor(message[m].origin), T)
    BY DEF Loop!Requested
  <1> HIDE DEF T
  <1> QED
    BY <1>1, <1>2, AskForRequests, RequestsUnion

-----------------------------------------------------------------------------
(* The steps of the event loop *)

\* Telegram's messages do not change, and with them what is derived from them.
LEMMA SameWorld ==
    ASSUME message' = message
    PROVE  /\ World => World'
           /\ PostedJobs' = PostedJobs /\ MadeRequests' = MadeRequests
           /\ \A e : SavesOn(e)' = SavesOn(e) /\ Loop!Upsert(e)' = Loop!Upsert(e)
           /\ \A t : SavesOf(t)' = SavesOf(t) /\ LinksTo(t)' = LinksTo(t)
           /\ \A m : Loop!Replied(m)' = Loop!Replied(m)
           /\ \A m : Loop!References(m)' = Loop!References(m)
  <1>1. /\ Loop!Sent' = Loop!Sent
        /\ \A m : Loop!Replied(m)' = Loop!Replied(m)
        /\ \A m : Loop!References(m)' = Loop!References(m)
    BY DEF Loop!Sent, Loop!Replied, Loop!References
  <1>2. Replies' = Replies
    BY <1>1 DEF Replies
  <1>3. PostedJobs' = PostedJobs /\ MadeRequests' = MadeRequests
    BY <1>1, <1>2 DEF PostedJobs, MadeRequests, Loop!Entities
  <1>4. ASSUME NEW e PROVE SavesOn(e)' = SavesOn(e) /\ Loop!Upsert(e)' = Loop!Upsert(e)
    BY <1>1, <1>3 DEF SavesOn, Loop!Upsert
  <1>5. ASSUME NEW t PROVE SavesOf(t)' = SavesOf(t) /\ LinksTo(t)' = LinksTo(t)
    BY <1>1, <1>3 DEF SavesOf, LinksTo
  <1>6. World => World'
    BY <1>1, <1>2 DEF World, Loop!Message, Loop!Entities
  <1> QED
    BY <1>1, <1>3, <1>4, <1>5, <1>6

Downloads == /\ pending \in [FileIds -> Messages \cup {None}]
             /\ complete \subseteq FileIds
             /\ served \subseteq Messages
             /\ wanting \subseteq Messages

\* A handler does not touch the database: it preserves the invariant when what it
\* posts and asks for is in order.
LEMMA HandlerStep ==
    ASSUME LoopInv, message' = message, UNCHANGED Loop!tables,
           Queue(serial', known'), Fetched(serial', resolved'), Requests(asked'),
           known' \subseteq Loop!Entities, resolved' \subseteq Messages,
           told' \in [Messages -> Nat], Downloads'
    PROVE  LoopInv'
  <1>1. /\ entityRows' = entityRows /\ messageRows' = messageRows /\ linked' = linked
        /\ failed' = failed /\ lost' = lost /\ dangling' = dangling
    BY DEF Loop!tables
  <1>2. Settled' = Settled /\ Tried' = Tried
    BY <1>1 DEF Settled, Tried, Loop!Upsert, Loop!Entities
  <1>3. World' /\ World
    BY SameWorld DEF LoopInv
  <1>4. Queue(serial, known)'
    BY <1>1, <1>2, SameWorld DEF Queue, Loop!Entities, Elems, Precedes
  <1>5. Fetched(serial, resolved)'
    BY <1>2, SameWorld DEF Fetched, SavePosted, Elems
  <1>6. Requests(asked)'
    BY SameWorld DEF Requests, Loop!IsABag
  <1>7. Loop!KnownIsStored' /\ Loop!FetchedIsFound'
    BY <1>1, SameWorld DEF LoopInv, Loop!KnownIsStored, Loop!FetchedIsFound, Loop!SameTable
  <1>8. PostedJobs \subseteq Loop!Job /\ MadeRequests \subseteq Loop!Request
    BY DEF PostedJobs, MadeRequests, Loop!Job, Loop!Save, Loop!Link, Loop!Request, Replies, Loop!Sent
  <1>9. serial' \in Seq(Loop!Job)
    BY <1>8 DEF Queue
  <1>10. Loop!TypeOK'
    BY <1>1, <1>8, <1>9 DEF LoopInv, Loop!TypeOK, Downloads, Requests, Loop!IsABag, Loop!Entities,
          Loop!Job, Loop!Save, Loop!Lost, Loop!Link, Loop!Request
  <1> QED
    BY <1>3, <1>4, <1>5, <1>6, <1>7, <1>10 DEF LoopInv

\* maybe_download_message_file.
LEMMA DownloadTypes ==
    ASSUME Loop!TypeOK, NEW m \in Messages, Loop!DownloadFile(m) \/ UNCHANGED Loop!downloads
    PROVE  Downloads'
  <1>1. /\ pending \in [FileIds -> Messages \cup {None}] /\ complete \subseteq FileIds
        /\ served \subseteq Messages /\ wanting \subseteq Messages
    BY DEF Loop!TypeOK
  <1> QED
    BY <1>1 DEF Downloads, Loop!DownloadFile, Loop!downloads

\* What the invariant says of a message that counts as fetched.
LEMMA FetchedFacts ==
    ASSUME LoopInv, NEW m \in Loop!Sent
    PROVE  /\ World /\ Loop!TypeOK /\ Queue(serial, known) /\ Requests(asked)
           /\ m \in Messages /\ known \subseteq Loop!Entities
           /\ Loop!Replied(m) \in resolved =>
                 Loop!Replied(m) = m \/ SavePosted(serial, Loop!Replied(m))
  BY MessageFacts DEF LoopInv, Fetched, Loop!TypeOK

\* updateNewMessage, and the answer after updateMessageEdited, handle a message.
LEMMA HandleMessage ==
    ASSUME LoopInv, NEW m \in Loop!Sent,
           serial' = serial \o Loop!Posted(m, 0, resolved)
    PROVE  /\ Queue(serial', known) /\ Fetched(serial', resolved)
           /\ Requests(Loop!Requested(m, 0, resolved))
  <1>1. /\ Queue(serial', known) /\ Elems(serial) \subseteq Elems(serial')
    BY FetchedFacts, PostMessage
  <1>2. Fetched(serial', resolved)
    BY <1>1, StillPosted DEF LoopInv, Fetched
  <1> QED
    BY <1>1, <1>2, FetchedFacts, MessageRequests

\* updateNewMessage.
LEMMA NewMessageStep ==
    ASSUME LoopInv, NEW m \in Loop!Sent, Loop!NewMessage(m)
    PROVE  LoopInv'
  <1>1. /\ serial' = serial \o Loop!Posted(m, 0, resolved)
        /\ asked' = Loop!(+)(asked, Loop!Requested(m, 0, resolved))
        /\ told' = [told EXCEPT ![m] = 1] /\ Loop!DownloadFile(m)
        /\ message' = message /\ known' = known /\ resolved' = resolved
        /\ UNCHANGED Loop!tables
    BY DEF Loop!NewMessage
  <1>2. Queue(serial', known') /\ Fetched(serial', resolved')
    BY <1>1, HandleMessage
  <1>3. Requests(asked')
    BY <1>1, HandleMessage, FetchedFacts, RequestsUnion
  <1>4. /\ known' \subseteq Loop!Entities /\ resolved' \subseteq Messages
        /\ told' \in [Messages -> Nat]
    BY <1>1 DEF LoopInv, Loop!TypeOK
  <1>5. Downloads'
    BY <1>1, FetchedFacts, DownloadTypes
  <1> QED
    BY <1>1, <1>2, <1>3, <1>4, <1>5, HandlerStep

\* updateMessageEdited.
LEMMA MessageEditedStep ==
    ASSUME LoopInv, NEW m \in Loop!Sent, Loop!MessageEdited(m)
    PROVE  LoopInv'
  <1> DEFINE r == [type |-> "edited", id |-> m]
  <1>1. /\ serial' = serial /\ asked' = Loop!(+)(asked, Loop!SetToBag({r}))
        /\ told[m] \in 1 .. message[m].edits /\ told' = [told EXCEPT ![m] = told[m] + 1]
        /\ UNCHANGED Loop!downloads
        /\ message' = message /\ known' = known /\ resolved' = resolved
        /\ UNCHANGED Loop!tables
    BY DEF Loop!MessageEdited
  <1>2. r \in MadeRequests
    BY DEF MadeRequests
  <1> HIDE DEF r
  <1>3. Requests(asked')
    BY <1>1, <1>2, FetchedFacts, RequestsOne, RequestsUnion
  <1>4. told \in [Messages -> Nat] /\ known \subseteq Loop!Entities /\ resolved \subseteq Messages
    BY DEF LoopInv, Loop!TypeOK
  <1>5. told[m] + 1 \in Nat
    BY <1>4, FetchedFacts
  <1>6. told' \in [Messages -> Nat]
    BY <1>1, <1>4, <1>5
  <1>7. Queue(serial', known') /\ Fetched(serial', resolved')
    BY <1>1 DEF LoopInv
  <1>8. Downloads'
    BY <1>1, FetchedFacts, DownloadTypes
  <1> QED
    BY <1>1, <1>3, <1>4, <1>6, <1>7, <1>8, HandlerStep

\* The answer after updateMessageEdited.
LEMMA EditedAnswerStep ==
    ASSUME LoopInv, NEW r \in MadeRequests, Loop!EditedAnswer(r)
    PROVE  LoopInv'
  <1>1. /\ serial' = serial \o Loop!Posted(r.id, 0, resolved)
        /\ asked' = Loop!(+)(Loop!Answered(r), Loop!Requested(r.id, 0, resolved))
        /\ told' = told /\ Loop!DownloadFile(r.id)
        /\ message' = message /\ known' = known /\ resolved' = resolved
        /\ UNCHANGED Loop!tables /\ r.type = "edited"
    BY DEF Loop!EditedAnswer
  <1>2. r.id \in Loop!Sent
    BY <1>1 DEF MadeRequests
  <1>3. Queue(serial', known') /\ Fetched(serial', resolved')
    BY <1>1, <1>2, HandleMessage
  <1>4. Requests(asked')
    BY <1>1, <1>2, HandleMessage, FetchedFacts, RequestsAnswered, RequestsUnion
  <1>5. /\ known' \subseteq Loop!Entities /\ resolved' \subseteq Messages
        /\ told' \in [Messages -> Nat]
    BY <1>1 DEF LoopInv, Loop!TypeOK
  <1>6. Downloads'
    BY <1>1, <1>2, FetchedFacts, DownloadTypes
  <1> QED
    BY <1>1, <1>3, <1>4, <1>5, <1>6, HandlerStep

\* The answer with a replied message: its entities, the message itself, and the link
\* behind its save.
LEMMA RepliedAnswerStep ==
    ASSUME LoopInv, NEW r \in MadeRequests, Loop!RepliedAnswer(r)
    PROVE  LoopInv'
  <1> DEFINE t == Loop!Replied(r.id)
             done == Loop!MarkReplyResolved(t)
             s1 == serial \o Loop!Resaved(message[t].chat)
             s2 == s1 \o Loop!Resaved(message[t].sender)
             s3 == s2 \o Loop!Posted(t, r.depth + 1, done)
             a1 == Loop!(+)(Loop!Answered(r), Loop!AskFor(message[t].chat))
             a2 == Loop!(+)(a1, Loop!AskFor(message[t].sender))
             lnk == Loop!LinkOf(r.id, TRUE)
  <1>1. /\ serial' = s3 \o <<lnk>>
        /\ asked' = Loop!(+)(a2, Loop!Requested(t, r.depth + 1, done))
        /\ resolved' = done /\ told' = told /\ Loop!DownloadFile(t)
        /\ message' = message /\ known' = known
        /\ UNCHANGED Loop!tables /\ r.type = "replied"
    BY DEF Loop!RepliedAnswer
  <1>2. r.id \in Replies /\ r.id \in Loop!Sent /\ r.depth \in 0 .. MaxReplyDepth
    BY <1>1 DEF MadeRequests, Replies
  <1>3. /\ World /\ Loop!TypeOK /\ Queue(serial, known) /\ Requests(asked)
        /\ known \subseteq Loop!Entities /\ Fetched(serial, resolved)
    BY <1>2, FetchedFacts DEF LoopInv
  <1>4. t \in Loop!Sent /\ t \in Messages /\ r.depth + 1 \in Nat
    BY <1>2, <1>3, MessageFacts DEF World
  <1>5. done \subseteq resolved \cup {t} /\ done \subseteq Messages
    BY <1>3, <1>4 DEF Loop!MarkReplyResolved, Loop!TypeOK
  <1> HIDE DEF t, done, lnk
  <1>6. Queue(s1, known) /\ Elems(serial) \subseteq Elems(s1)
    BY <1>3, PostResaved
  <1>7. Queue(s2, known) /\ Elems(serial) \subseteq Elems(s2)
    <2> HIDE DEF s1
    <2> QED
      BY <1>3, <1>6, PostResaved
  <1>8. Loop!Replied(t) \in done => Loop!Replied(t) = t \/ SavePosted(s2, Loop!Replied(t))
    <2> HIDE DEF s2
    <2> QED
      BY <1>3, <1>5, <1>7, StillPosted DEF Fetched
  <1>9. Queue(s3, known) /\ Elems(s2) \subseteq Elems(s3) /\ SavePosted(s3, t)
    <2> HIDE DEF s2
    <2> QED
      BY <1>3, <1>4, <1>7, <1>8, PostMessage
  <1>10. s3 \in Seq(PostedJobs) /\ lnk \in PostedJobs
    BY <1>2, <1>9 DEF Queue, lnk, Loop!LinkOf, PostedJobs
  <1> HIDE DEF s2, s3
  <1>11. Append(s3, lnk) = s3 \o <<lnk>>
    BY <1>10, AppendIsConcat
  <1>12. SavePosted(s3, Loop!Replied(r.id))
    BY <1>9 DEF t
  <1>13. Queue(Append(s3, lnk), known) /\ Elems(Append(s3, lnk)) = Elems(s3) \cup {lnk}
    BY <1>2, <1>9, <1>12, PostReplyLink DEF lnk
  <1>14. Queue(serial', known') /\ Elems(s3) \subseteq Elems(serial')
    BY <1>1, <1>11, <1>13
  <1>15. Fetched(serial', resolved')
    <2>1. SavePosted(serial', t)
      BY <1>9, <1>14, StillPosted
    <2>2. Elems(serial) \subseteq Elems(serial')
      BY <1>7, <1>9, <1>14
    <2>3. ASSUME NEW u \in resolved PROVE SavePosted(serial', u)
      BY <1>3, <2>2, StillPosted DEF Fetched
    <2> QED
      BY <1>1, <1>5, <2>1, <2>3 DEF Fetched
  <1>16. Requests(a2)
    <2>1. Requests(a1)
      BY <1>3, RequestsAnswered, AskForRequests, RequestsUnion
    <2> HIDE DEF a1
    <2> QED
      BY <2>1, AskForRequests, RequestsUnion
  <1> HIDE DEF a2
  <1>17. Requests(asked')
    BY <1>1, <1>3, <1>4, <1>16, MessageRequests, RequestsUnion
  <1>18. /\ known' \subseteq Loop!Entities /\ resolved' \subseteq Messages
         /\ told' \in [Messages -> Nat]
    BY <1>1, <1>3, <1>5 DEF Loop!TypeOK
  <1>19. Downloads'
    BY <1>1, <1>3, <1>4, DownloadTypes
  <1> QED
    BY <1>1, <1>14, <1>15, <1>17, <1>18, <1>19, HandlerStep

\* An entity becomes known behind its upsert.
LEMMA LearnPosts ==
    ASSUME LoopInv, NEW e \in Loop!Entities, Loop!Learn(e)
    PROVE  /\ Queue(serial', known') /\ Fetched(serial', resolved)
           /\ known' \subseteq Loop!Entities
  <1>1. serial' = Append(serial, Loop!Upsert(e)) /\ known' = known \cup {e}
    BY DEF Loop!Learn
  <1>2. Queue(serial, known) /\ Fetched(serial, resolved) /\ known \subseteq Loop!Entities
    BY DEF LoopInv, Loop!TypeOK
  <1>3. Queue(serial', known) /\ Elems(serial') = Elems(serial) \cup {Loop!Upsert(e)}
    BY <1>1, <1>2, PostUpsert
  <1>4. Queue(serial', known')
    BY <1>1, <1>3 DEF Queue
  <1>5. Fetched(serial', resolved)
    BY <1>2, <1>3, StillPosted DEF Fetched
  <1> QED
    BY <1>1, <1>2, <1>4, <1>5

\* updateUser, updateNewChat.
LEMMA UpdateEntityStep ==
    ASSUME LoopInv, NEW e \in Loop!Entities, Loop!UpdateEntity(e)
    PROVE  LoopInv'
  <1>1. /\ Loop!Learn(e) /\ asked' = asked /\ told' = told /\ resolved' = resolved
        /\ message' = message /\ UNCHANGED Loop!downloads /\ UNCHANGED Loop!tables
    BY DEF Loop!UpdateEntity
  <1>2. Queue(serial', known') /\ Fetched(serial', resolved') /\ known' \subseteq Loop!Entities
    BY <1>1, LearnPosts
  <1>3. Requests(asked') /\ resolved' \subseteq Messages /\ told' \in [Messages -> Nat]
    BY <1>1 DEF LoopInv, Loop!TypeOK
  <1>4. Downloads'
    BY <1>1 DEF LoopInv, Loop!TypeOK, Downloads, Loop!downloads
  <1> QED
    BY <1>1, <1>2, <1>3, <1>4, HandlerStep

\* The answers of ensure_user_saved and ensure_chat_saved.
LEMMA EntityAnswerStep ==
    ASSUME LoopInv, NEW r \in MadeRequests, Loop!EntityAnswer(r)
    PROVE  LoopInv'
  <1>1. /\ Loop!Learn(r.id) /\ asked' = Loop!Answered(r) /\ told' = told /\ resolved' = resolved
        /\ message' = message /\ UNCHANGED Loop!downloads /\ UNCHANGED Loop!tables
        /\ r.type \in {"user", "chat"}
    BY DEF Loop!EntityAnswer
  <1>2. r.id \in Loop!Entities
    BY <1>1 DEF MadeRequests
  <1>3. Queue(serial', known') /\ Fetched(serial', resolved') /\ known' \subseteq Loop!Entities
    BY <1>1, <1>2, LearnPosts
  <1>4. Requests(asked')
    BY <1>1, RequestsAnswered DEF LoopInv
  <1>5. resolved' \subseteq Messages /\ told' \in [Messages -> Nat]
    BY <1>1 DEF LoopInv, Loop!TypeOK
  <1>6. Downloads'
    BY <1>1 DEF LoopInv, Loop!TypeOK, Downloads, Loop!downloads
  <1> QED
    BY <1>1, <1>3, <1>4, <1>5, <1>6, HandlerStep

\* An error: a reply is linked without its target.
LEMMA ErrorAnswerStep ==
    ASSUME LoopInv, NEW r \in MadeRequests, Loop!ErrorAnswer(r)
    PROVE  LoopInv'
  <1> DEFINE lnk == Loop!LinkOf(r.id, FALSE)
  <1>1. /\ asked' = Loop!Answered(r) /\ told' = told /\ resolved' = resolved /\ known' = known
        /\ serial' = IF r.type = "replied" THEN Append(serial, lnk) ELSE serial
        /\ message' = message /\ UNCHANGED Loop!downloads /\ UNCHANGED Loop!tables
    BY DEF Loop!ErrorAnswer
  <1>2. Queue(serial, known) /\ Fetched(serial, resolved)
    BY DEF LoopInv
  <1>3. Queue(serial', known) /\ Elems(serial) \subseteq Elems(serial')
    <2>1. CASE r.type = "replied"
      <3>1. r.id \in Replies
        BY <2>1 DEF MadeRequests
      <3>2. Queue(Append(serial, lnk), known) /\ Elems(Append(serial, lnk)) = Elems(serial) \cup {lnk}
        BY <1>2, <3>1, PostReplyLink
      <3> QED
        BY <1>1, <2>1, <3>2
    <2>2. CASE r.type # "replied"
      BY <1>1, <1>2, <2>2
    <2> QED
      BY <2>1, <2>2
  <1>4. Fetched(serial', resolved')
    BY <1>1, <1>2, <1>3, StillPosted DEF Fetched
  <1>5. Requests(asked')
    BY <1>1, RequestsAnswered DEF LoopInv
  <1>6. /\ known' \subseteq Loop!Entities /\ resolved' \subseteq Messages
        /\ told' \in [Messages -> Nat] /\ Queue(serial', known')
    BY <1>1, <1>3 DEF LoopInv, Loop!TypeOK
  <1>7. Downloads'
    BY <1>1 DEF LoopInv, Loop!TypeOK, Downloads, Loop!downloads
  <1> QED
    BY <1>1, <1>4, <1>5, <1>6, <1>7, HandlerStep

\* handle_file_update posts nothing.
LEMMA FileUpdateStep ==
    ASSUME LoopInv, NEW f \in FileIds, Loop!FileUpdate(f)
    PROVE  LoopInv'
  <1>1. /\ asked' = asked /\ told' = told /\ resolved' = resolved /\ known' = known
        /\ serial' = serial /\ message' = message /\ UNCHANGED Loop!tables
        /\ complete' = complete \cup {f} /\ served' = served \cup ({pending[f]} \ {None})
        /\ pending' = [pending EXCEPT ![f] = None] /\ wanting' = wanting
    BY DEF Loop!FileUpdate
  <1>2. /\ pending \in [FileIds -> Messages \cup {None}] /\ complete \subseteq FileIds
        /\ served \subseteq Messages /\ wanting \subseteq Messages
    BY DEF LoopInv, Loop!TypeOK
  <1>3. Downloads'
    BY <1>1, <1>2 DEF Downloads
  <1>4. /\ known' \subseteq Loop!Entities /\ resolved' \subseteq Messages
        /\ told' \in [Messages -> Nat] /\ Queue(serial', known') /\ Fetched(serial', resolved')
        /\ Requests(asked')
    BY <1>1 DEF LoopInv, Loop!TypeOK
  <1> QED
    BY <1>1, <1>3, <1>4, HandlerStep

-----------------------------------------------------------------------------
(* The steps of serial_ *)

\* The queue without its head, when the rows and messages that the head settles are
\* settled.
LEMMA QueueTail ==
    ASSUME LoopInv, serial # <<>>, serial' = Tail(serial),
           message' = message, known' = known, resolved' = resolved,
           Tried \subseteq Tried', Settled \subseteq Settled',
           \A e : e \in Loop!Entities /\ Head(serial) = Loop!Upsert(e) => e \in Tried',
           \A t : Head(serial) \in SavesOf(t) => t \in Settled'
    PROVE  /\ Queue(serial, known)' /\ Fetched(serial, resolved)'
           /\ serial' \in Seq(Loop!Job)
  <1>1. Queue(serial, known) /\ Fetched(serial, resolved) /\ serial \in Seq(PostedJobs)
    BY DEF LoopInv, Queue
  <1>2. serial' \in Seq(PostedJobs) /\ Elems(serial) = Elems(serial') \cup {Head(serial)}
    BY <1>1, TailElems
  <1>3. ASSUME NEW e \in known \ Tried' PROVE Loop!Upsert(e) \in Elems(serial')
    <2>1. e \in Loop!Entities /\ e \notin Tried
      BY DEF LoopInv, Loop!TypeOK
    <2>2. Loop!Upsert(e) \in Elems(serial)
      BY <1>1, <2>1 DEF Queue
    <2> QED
      BY <1>2, <2>1, <2>2
  <1>4. ASSUME NEW e \in Loop!Entities \ Tried'
        PROVE  Precedes(serial', SavesOn(e), {Loop!Upsert(e)})
    <2>1. Precedes(serial, SavesOn(e), {Loop!Upsert(e)}) /\ Head(serial) \notin {Loop!Upsert(e)}
      BY <1>1 DEF Queue
    <2> QED
      BY <1>1, <2>1, TailPrecedes
  <1>5. ASSUME NEW t \in Messages \ Settled' PROVE Precedes(serial', LinksTo(t), SavesOf(t))
    <2>1. Precedes(serial, LinksTo(t), SavesOf(t)) /\ Head(serial) \notin SavesOf(t)
      BY <1>1 DEF Queue
    <2> QED
      BY <1>1, <2>1, TailPrecedes
  <1>6. ASSUME NEW t \in resolved, t \notin Settled' PROVE Elems(serial') \cap SavesOf(t) # {}
    <2>1. Elems(serial) \cap SavesOf(t) # {} /\ Head(serial) \notin SavesOf(t)
      BY <1>1, <1>6 DEF Fetched, SavePosted
    <2> QED
      BY <1>2, <2>1
  <1>7. Queue(serial, known)'
    BY <1>2, <1>3, <1>4, <1>5, SameWorld DEF Queue, Loop!Entities, Elems, Precedes
  <1>8. Fetched(serial, resolved)'
    BY <1>6, SameWorld DEF Fetched, SavePosted, Elems
  <1>9. PostedJobs \subseteq Loop!Job
    BY DEF PostedJobs, Loop!Job, Loop!Save, Loop!Link, Replies, Loop!Sent
  <1> QED
    BY <1>2, <1>7, <1>8, <1>9

\* What a job of serial_ leaves alone.
LEMMA SerialFrame ==
    ASSUME LoopInv, UNCHANGED <<message, known, asked, resolved, told>>,
           UNCHANGED Loop!downloads,
           Queue(serial, known)', Fetched(serial, resolved)', serial' \in Seq(Loop!Job),
           entityRows' \subseteq Loop!Entities, messageRows' \subseteq Messages,
           linked' \subseteq Messages, failed' \subseteq Loop!Job, lost' \subseteq Loop!Lost,
           dangling' \subseteq Loop!Link,
           Loop!KnownIsStored', Loop!FetchedIsFound'
    PROVE  LoopInv'
  <1>1. World' /\ Requests(asked)'
    BY SameWorld DEF LoopInv, Requests, Loop!IsABag
  <1>2. Loop!TypeOK'
    BY DEF LoopInv, Loop!TypeOK, Loop!downloads, Loop!IsABag, Loop!Entities,
          Loop!Job, Loop!Save, Loop!Lost, Loop!Link, Loop!Request
  <1> QED
    BY <1>1, <1>2 DEF LoopInv

\* An upsert writes its row.
LEMMA UpsertEntityStep ==
    ASSUME LoopInv, Loop!RunSerial, Loop!UpsertEntity(Head(serial)), failed' = failed
    PROVE  LoopInv'
  <1> DEFINE j == Head(serial)
  <1>1. /\ serial # <<>> /\ serial' = Tail(serial)
        /\ UNCHANGED <<message, known, asked, resolved, told>> /\ UNCHANGED Loop!downloads
    BY DEF Loop!RunSerial
  <1>2. /\ j.op = "upsert" /\ entityRows' = entityRows \cup {j.id}
        /\ UNCHANGED <<messageRows, linked, lost, dangling>>
    BY DEF Loop!UpsertEntity
  <1>3. j \in PostedJobs
    BY <1>1, TailElems DEF LoopInv, Queue
  <1> HIDE DEF j
  <1>4. j.id \in Loop!Entities
    BY <1>2, <1>3, PostedFacts
  <1>5. \A e : e \in Loop!Entities /\ j = Loop!Upsert(e) => e \in Tried'
    BY <1>2, PostedFacts DEF Tried
  <1>6. \A t : j \in SavesOf(t) => t \in Settled'
    BY <1>2 DEF SavesOf
  <1>7. Settled \subseteq Settled' /\ Tried \subseteq Tried'
    BY <1>2 DEF Settled, Tried, Loop!Upsert, Loop!Entities
  <1>8. /\ Queue(serial, known)' /\ Fetched(serial, resolved)' /\ serial' \in Seq(Loop!Job)
    BY <1>1, <1>5, <1>6, <1>7, QueueTail DEF j
  <1>9. Loop!KnownIsStored' /\ Loop!FetchedIsFound'
    BY <1>1, <1>2, SameWorld
       DEF LoopInv, Loop!KnownIsStored, Loop!FetchedIsFound, Loop!SameTable
  <1>10. /\ entityRows' \subseteq Loop!Entities /\ messageRows' \subseteq Messages
         /\ linked' \subseteq Messages /\ failed' \subseteq Loop!Job
         /\ lost' \subseteq Loop!Lost /\ dangling' \subseteq Loop!Link
    BY <1>2, <1>4 DEF LoopInv, Loop!TypeOK
  <1> QED
    BY <1>1, <1>8, <1>9, <1>10, SerialFrame

\* A save stores its message, or loses one that was not sure of its references or
\* refers to an entity whose upsert threw.
LEMMA SaveMessageStep ==
    ASSUME LoopInv, Loop!RunSerial, Loop!SaveMessage(Head(serial)), failed' = failed
    PROVE  LoopInv'
  <1> DEFINE j == Head(serial)
             missing == Loop!References(j.id) \ entityRows
             x == [op |-> "save", id |-> j.id, sure |-> j.sure, missing |-> missing]
  <1>1. /\ serial # <<>> /\ serial' = Tail(serial)
        /\ UNCHANGED <<message, known, asked, resolved, told>> /\ UNCHANGED Loop!downloads
    BY DEF Loop!RunSerial
  <1>2. /\ j.op = "save" /\ UNCHANGED <<entityRows, linked, dangling>>
        /\ \/ messageRows' = messageRows \cup {j.id} /\ lost' = lost
           \/ lost' = lost \cup {x} /\ messageRows' = messageRows
    BY DEF Loop!SaveMessage
  <1>3. j \in PostedJobs /\ World
    BY <1>1, TailElems DEF LoopInv, Queue
  <1>4. ASSUME NEW e \in Loop!Entities \ Tried PROVE j \notin SavesOn(e)
    <2>1. serial \in Seq(PostedJobs) /\ Precedes(serial, SavesOn(e), {Loop!Upsert(e)})
      BY DEF LoopInv, Queue
    <2> QED
      BY <1>1, <2>1, TailPrecedes
  <1> HIDE DEF j
  <1>5. j.id \in Loop!Sent /\ j.sure \in BOOLEAN
    BY <1>2, <1>3, PostedFacts
  <1>6. j.id \in Messages /\ Loop!References(j.id) \subseteq Loop!Entities
    BY <1>3, <1>5, MessageFacts
  <1>7. ASSUME j.sure, NEW e \in missing PROVE Loop!Upsert(e) \in failed
    <2>1. e \in Loop!Entities /\ j \in SavesOn(e) /\ e \notin entityRows
      BY <1>2, <1>3, <1>6, <1>7 DEF SavesOn
    <2> QED
      BY <1>4, <2>1 DEF Tried
  <1>8. /\ x.op = "save" /\ x.id = j.id /\ x.sure = j.sure /\ x.missing = missing
        /\ x \in Loop!Lost
    BY <1>5, <1>6 DEF Loop!Lost
  <1> HIDE DEF x, missing
  <1>9. Settled' = Settled \cup {j.id} /\ Tried' = Tried
    BY <1>2, <1>8 DEF Settled, Tried, Loop!Upsert, Loop!Entities
  <1>16. \A e : j # Loop!Upsert(e)
    BY <1>2, PostedFacts
  <1>10. \A t : j \in SavesOf(t) => t \in Settled'
    BY <1>9 DEF SavesOf
  <1>11. /\ Queue(serial, known)' /\ Fetched(serial, resolved)' /\ serial' \in Seq(Loop!Job)
    BY <1>1, <1>2, <1>9, <1>10, <1>16, QueueTail DEF j
  <1>12. Loop!KnownIsStored'
    <2>1. \A k \in lost : k.sure => \A e \in k.missing : Loop!Upsert(e) \in failed
      BY DEF LoopInv, Loop!KnownIsStored
    <2>2. \A k \in lost' : k.sure => \A e \in k.missing : Loop!Upsert(e) \in failed'
      BY <1>2, <1>7, <1>8, <2>1
    <2> QED
      BY <2>2 DEF Loop!KnownIsStored, Loop!Upsert
  <1>13. Loop!FetchedIsFound'
    <2>1. lost \subseteq lost' /\ dangling' = dangling
      BY <1>2
    <2> QED
      BY <1>1, <2>1, SameWorld DEF LoopInv, Loop!FetchedIsFound, Loop!SameTable
  <1>15. /\ entityRows' \subseteq Loop!Entities /\ messageRows' \subseteq Messages
         /\ linked' \subseteq Messages /\ failed' \subseteq Loop!Job
         /\ lost' \subseteq Loop!Lost /\ dangling' \subseteq Loop!Link
    BY <1>2, <1>6, <1>8 DEF LoopInv, Loop!TypeOK
  <1> QED
    BY <1>1, <1>11, <1>12, <1>13, <1>15, SerialFrame

\* A link finds the message that counts as fetched in its table, or the save of that
\* message threw or was lost.
LEMMA LinkReplyStep ==
    ASSUME LoopInv, Loop!RunSerial, Loop!LinkReply(Head(serial)), failed' = failed
    PROVE  LoopInv'
  <1> DEFINE j == Head(serial)
  <1>1. /\ serial # <<>> /\ serial' = Tail(serial)
        /\ UNCHANGED <<message, known, asked, resolved, told>> /\ UNCHANGED Loop!downloads
    BY DEF Loop!RunSerial
  <1>2. /\ j.op = "link" /\ UNCHANGED <<entityRows, messageRows, lost>>
        /\ linked' = linked \cup ({j.id} \cap messageRows)
        /\ \/ dangling' = dangling
           \/ /\ ~(Loop!Replied(j.id) \in messageRows /\ Loop!SameTable(j.id, Loop!Replied(j.id)))
              /\ dangling' = dangling \cup {j}
    BY DEF Loop!LinkReply
  <1>3. j \in PostedJobs /\ World
    BY <1>1, TailElems DEF LoopInv, Queue
  <1>4. ASSUME NEW t \in Messages \ Settled PROVE j \notin LinksTo(t)
    <2>1. serial \in Seq(PostedJobs) /\ Precedes(serial, LinksTo(t), SavesOf(t))
      BY DEF LoopInv, Queue
    <2> QED
      BY <1>1, <2>1, TailPrecedes
  <1> HIDE DEF j
  <1>5. j.id \in Replies /\ j.fetched \in BOOLEAN
    BY <1>2, <1>3, PostedFacts
  <1>6. j.id \in Loop!Sent /\ j.id \in Messages /\ Loop!Replied(j.id) \in Messages
    BY <1>3, <1>5, MessageFacts DEF World, Replies
  <1>7. j.fetched => Loop!Replied(j.id) \in Settled
    BY <1>2, <1>3, <1>4, <1>6 DEF LinksTo
  <1>8. \A e : j # Loop!Upsert(e)
    BY <1>2, PostedFacts
  <1>9. \A t : j \in SavesOf(t) => t \in Settled'
    BY <1>2 DEF SavesOf
  <1>10. Settled' = Settled /\ Tried' = Tried
    BY <1>2 DEF Settled, Tried, Loop!Upsert, Loop!Entities
  <1>11. /\ Queue(serial, known)' /\ Fetched(serial, resolved)' /\ serial' \in Seq(Loop!Job)
    BY <1>1, <1>2, <1>8, <1>9, <1>10, QueueTail DEF j
  <1>12. Loop!KnownIsStored'
    BY <1>2 DEF LoopInv, Loop!KnownIsStored, Loop!Upsert
  <1>13. Loop!FetchedIsFound'
    <2> DEFINE Excused(i) == \E k \in lost \cup failed : k.op = "save" /\ k.id = Loop!Replied(i.id)
               Same(i) == Loop!SameTable(i.id, Loop!Replied(i.id))
    <2>1. Loop!Replied(j.id) \notin messageRows /\ j.fetched => Excused(j)
      BY <1>7 DEF Settled
    <2>2. \A i \in dangling : i.fetched /\ Same(i) => Excused(i)
      BY DEF LoopInv, Loop!FetchedIsFound
    <2> HIDE DEF Excused, Same
    <2>3. \A i \in dangling' : i.fetched /\ Same(i) => Excused(i)
      BY <1>2, <2>1, <2>2 DEF Same
    <2> QED
      BY <1>1, <1>2, <2>3, SameWorld DEF Loop!FetchedIsFound, Loop!SameTable, Excused, Same
  <1>14. j \in Loop!Link
    BY <1>2, <1>3, <1>6 DEF PostedJobs, Loop!Link
  <1>15. /\ entityRows' \subseteq Loop!Entities /\ messageRows' \subseteq Messages
         /\ linked' \subseteq Messages /\ failed' \subseteq Loop!Job
         /\ lost' \subseteq Loop!Lost /\ dangling' \subseteq Loop!Link
    BY <1>2, <1>6, <1>14 DEF LoopInv, Loop!TypeOK
  <1> QED
    BY <1>1, <1>11, <1>12, <1>13, <1>15, SerialFrame

\* A job that throws leaves the tables alone; what counted on it is excused.
LEMMA JobThrowsStep ==
    ASSUME LoopInv, Loop!RunSerial, Loop!JobThrows(Head(serial))
    PROVE  LoopInv'
  <1> DEFINE j == Head(serial)
  <1>1. /\ serial # <<>> /\ serial' = Tail(serial)
        /\ UNCHANGED <<message, known, asked, resolved, told>> /\ UNCHANGED Loop!downloads
    BY DEF Loop!RunSerial
  <1>2. /\ failed' = failed \cup {j}
        /\ UNCHANGED <<entityRows, messageRows, linked, lost, dangling>>
    BY DEF Loop!JobThrows
  <1>3. j \in PostedJobs
    BY <1>1, TailElems DEF LoopInv, Queue
  <1> HIDE DEF j
  <1>4. \A e : e \in Loop!Entities /\ j = Loop!Upsert(e) => e \in Tried'
    BY <1>2 DEF Tried, Loop!Upsert, Loop!Entities
  <1>5. \A t : j \in SavesOf(t) => t \in Settled'
    BY <1>2 DEF SavesOf, Settled
  <1>6. Settled \subseteq Settled' /\ Tried \subseteq Tried'
    BY <1>2 DEF Settled, Tried, Loop!Upsert, Loop!Entities
  <1>7. /\ Queue(serial, known)' /\ Fetched(serial, resolved)' /\ serial' \in Seq(Loop!Job)
    BY <1>1, <1>4, <1>5, <1>6, QueueTail DEF j
  <1>8. Loop!KnownIsStored'
    BY <1>2 DEF LoopInv, Loop!KnownIsStored, Loop!Upsert
  <1>9. Loop!FetchedIsFound'
    <2>1. lost \cup failed \subseteq lost' \cup failed' /\ dangling' = dangling
      BY <1>2
    <2> QED
      BY <1>1, <2>1, SameWorld DEF LoopInv, Loop!FetchedIsFound, Loop!SameTable
  <1>10. j \in Loop!Job
    BY <1>3 DEF PostedJobs, Loop!Job, Loop!Save, Loop!Link, Replies, Loop!Sent
  <1>11. /\ entityRows' \subseteq Loop!Entities /\ messageRows' \subseteq Messages
         /\ linked' \subseteq Messages /\ failed' \subseteq Loop!Job
         /\ lost' \subseteq Loop!Lost /\ dangling' \subseteq Loop!Link
    BY <1>2, <1>10 DEF LoopInv, Loop!TypeOK
  <1> QED
    BY <1>1, <1>7, <1>8, <1>9, <1>11, SerialFrame

-----------------------------------------------------------------------------
(* Theorems about the handlers.  An assumption of an instantiated module is *)
(* a hypothesis here; the runs of EventLoop evaluate it.                    *)

\* Nothing is known or posted before the first update.
LEMMA LoopInitInv ==
    ASSUME Loop!EntitiesAssumption, Loop!ShapesAssumption, Loop!RepliesAssumption,
           Loop!BoundsAssumption, Loop!Init
    PROVE  LoopInv
  <1>1. /\ message \in Shapes /\ known = {} /\ asked = Loop!EmptyBag /\ resolved = {}
        /\ pending = [f \in FileIds |-> None] /\ complete = {}
        /\ told = [m \in Messages |-> 0] /\ serial = <<>> /\ entityRows = {}
        /\ messageRows = {} /\ linked = {} /\ served = {} /\ failed = {} /\ lost = {} /\ dangling = {}
        /\ wanting = {}
    BY DEF Loop!Init
  <1>2. message \in [Messages -> Loop!Message \cup {None}]
    BY <1>1 DEF Loop!ShapesAssumption
  <1>3. None \notin Messages /\ MaxReplyDepth \in Nat
    BY DEF Loop!EntitiesAssumption, Loop!BoundsAssumption
  <1>4. ASSUME NEW m \in Replies PROVE Loop!Replied(m) \in Loop!Sent
    <2>1. m \in Messages /\ message[m] # None /\ message[m].reply # None
      BY DEF Replies, Loop!Sent, Loop!Replied
    <2>2. message[m] \in Loop!Message
      BY <1>2, <2>1
    <2>3. message[m].reply \in Messages
      BY <2>1, <2>2 DEF Loop!Message
    <2>4. message[message[m].reply] # None
      BY <1>1, <2>1 DEF Loop!RepliesAssumption
    <2> QED
      BY <2>3, <2>4 DEF Loop!Sent, Loop!Replied
  <1>5. World
    BY <1>2, <1>3, <1>4 DEF World
  <1>6. Requests(asked)
    BY <1>1, RequestsOne
  <1>7. Queue(serial, known) /\ Fetched(serial, resolved)
    <2>1. <<>> \in Seq(PostedJobs) /\ Len(<<>>) = 0
      BY EmptySeq
    <2>2. 1 .. 0 = {}
      OBVIOUS
    <2>3. \A A, B : Precedes(<<>>, A, B)
      BY <2>1, <2>2 DEF Precedes
    <2> QED
      BY <1>1, <2>1, <2>3 DEF Queue, Fetched
  <1>8. Loop!KnownIsStored /\ Loop!FetchedIsFound
    BY <1>1 DEF Loop!KnownIsStored, Loop!FetchedIsFound
  <1>9. DOMAIN asked \subseteq Loop!Request /\ Loop!IsABag(asked)
    BY <1>6 DEF Requests, MadeRequests, Loop!Request, Replies, Loop!Sent
  <1>10. serial \in Seq(Loop!Job)
    BY <1>1, EmptySeq
  <1>11. Loop!TypeOK
    BY <1>1, <1>9, <1>10 DEF Loop!TypeOK
  <1> QED
    BY <1>5, <1>6, <1>7, <1>8, <1>11 DEF LoopInv

\* The entities that updates are about.
LEMMA MentionedFacts ==
    ASSUME World, NEW e \in Loop!Mentioned
    PROVE  e \in Loop!Entities
  <1>1. /\ e # None
        /\ e \in UNION {{message[m].chat, message[m].sender, message[m].origin} :
                        m \in Loop!Sent}
    BY DEF Loop!Mentioned
  <1>2. PICK m \in Loop!Sent : e \in {message[m].chat, message[m].sender, message[m].origin}
    BY <1>1
  <1>3. message[m] \in Loop!Message
    BY MessageFacts
  <1> QED
    BY <1>1, <1>2, <1>3 DEF Loop!Message

\* Every update, answer and job preserves the invariant.
LEMMA LoopNextStep == LoopInv /\ [Loop!Next]_Loop!vars => LoopInv'
  <1> SUFFICES ASSUME LoopInv, [Loop!Next]_Loop!vars PROVE LoopInv'
    OBVIOUS
  <1>1. ASSUME NEW m \in Loop!Sent, Loop!NewMessage(m) \/ Loop!MessageEdited(m) PROVE LoopInv'
    BY <1>1, NewMessageStep, MessageEditedStep
  <1>2. ASSUME NEW r \in Loop!BagToSet(asked), Loop!Answer(r) PROVE LoopInv'
    <2>1. r \in MadeRequests
      BY DEF LoopInv, Requests, Loop!BagToSet
    <2> QED
      BY <1>2, <2>1, EditedAnswerStep, RepliedAnswerStep, EntityAnswerStep, ErrorAnswerStep
         DEF Loop!Answer
  <1>3. ASSUME NEW e \in Loop!Mentioned, Loop!UpdateEntity(e) PROVE LoopInv'
    <2>1. e \in Loop!Entities
      BY MentionedFacts DEF LoopInv
    <2> QED
      BY <1>3, <2>1, UpdateEntityStep
  <1>4. ASSUME NEW f \in FileIds, Loop!FileUpdate(f) PROVE LoopInv'
    BY <1>4, FileUpdateStep
  <1>5. ASSUME Loop!RunSerial PROVE LoopInv'
    <2>1. CASE Loop!JobThrows(Head(serial))
      BY <1>5, <2>1, JobThrowsStep
    <2>2. CASE Loop!JobSucceeds(Head(serial))
      BY <1>5, <2>2, UpsertEntityStep, SaveMessageStep, LinkReplyStep DEF Loop!JobSucceeds
    <2> QED
      BY <1>5, <2>1, <2>2 DEF Loop!RunSerial
  <1>6. ASSUME UNCHANGED Loop!vars PROVE LoopInv'
    <2>1. /\ message' = message /\ UNCHANGED Loop!tables /\ serial' = serial /\ known' = known
          /\ resolved' = resolved /\ asked' = asked /\ told' = told
          /\ UNCHANGED Loop!downloads
      BY <1>6 DEF Loop!vars, Loop!tables, Loop!downloads
    <2>2. Downloads'
      BY <2>1 DEF LoopInv, Loop!TypeOK, Downloads, Loop!downloads
    <2> QED
      BY <2>1, <2>2, HandlerStep DEF LoopInv, Loop!TypeOK
  <1> QED
    BY <1>1, <1>2, <1>3, <1>4, <1>5, <1>6 DEF Loop!Next

\* The client's handlers and serial_ satisfy the inductive invariant, in whatever
\* order Telegram sends updates and answers.
THEOREM HandlersInvariance ==
    ASSUME Loop!EntitiesAssumption, Loop!ShapesAssumption, Loop!RepliesAssumption,
           Loop!BoundsAssumption
    PROVE  Loop!Spec => []LoopInv
  <1>1. Loop!Init => LoopInv
    BY LoopInitInv
  <1> QED
    BY <1>1, LoopNextStep, PTL DEF Loop!Spec

\* A message is lost to a foreign key only if the handler did not know one of the
\* entities the message refers to or an upsert of every missing one threw: for every
\* set of users, chats and messages, every reply graph, depth cap and dedup cap, every
\* order of updates and answers, and whichever jobs fail.
THEOREM KnownBeforeSaved ==
    ASSUME Loop!EntitiesAssumption, Loop!ShapesAssumption, Loop!RepliesAssumption,
           Loop!BoundsAssumption
    PROVE  Loop!Spec => []KnownIsStored
  <1>1. LoopInv => KnownIsStored
    BY DEF LoopInv, KnownIsStored, Loop!KnownIsStored, Upsert, Loop!Upsert
  <1> QED
    BY <1>1, HandlersInvariance, PTL

\* The link of a reply whose target counts as fetched and belongs to the same table
\* finds the target's row, unless the save of the target threw or was lost to a
\* foreign key, although resolved_reply_targets_ is emptied whenever it is full.
THEOREM FetchedBeforeLinked ==
    ASSUME Loop!EntitiesAssumption, Loop!ShapesAssumption, Loop!RepliesAssumption,
           Loop!BoundsAssumption
    PROVE  Loop!Spec => []FetchedIsFound
  <1>1. LoopInv => FetchedIsFound
    BY DEF LoopInv, FetchedIsFound, Loop!FetchedIsFound, Replied, Loop!Replied,
           SameTable, Loop!SameTable
  <1> QED
    BY <1>1, HandlersInvariance, PTL

\* The caches, the requests, the queue and the tables keep their types; a request
\* for a replied message never goes beyond kMaxReplyDepth.
THEOREM HandlersTyped ==
    ASSUME Loop!EntitiesAssumption, Loop!ShapesAssumption, Loop!RepliesAssumption,
           Loop!BoundsAssumption
    PROVE  Loop!Spec => []Loop!TypeOK
  <1>1. LoopInv => Loop!TypeOK
    BY DEF LoopInv
  <1> QED
    BY <1>1, HandlersInvariance, PTL

-----------------------------------------------------------------------------
(* The safety behind EveryReplyLinked: resolve_reply_message forgets no reply. *)

ReplyLinks(m) == {j \in PostedJobs : j.op = "link" /\ j.id = m}

\* The message m replies to is being fetched.
Asking(bag, m) == \E r \in DOMAIN bag : r.type = "replied" /\ r.id = m

\* Whatever of A is in s comes before something of B.
Follows(s, A, B) ==
    \A i \in 1 .. Len(s) : s[i] \in A => \E k \in i + 1 .. Len(s) : s[k] \in B

\* The replies whose link has run, with or without success.
Linked == linked \cup {j.id : j \in {k \in failed : k.op = "link"}}

\* A link of m is still to come: after every save of m, and if m has a row and none
\* of its links has run.
LinkComes(s, bag, m) ==
    \/ Asking(bag, m)
    \/ /\ Follows(s, SavesOf(m), ReplyLinks(m))
       /\ m \in messageRows \ Linked => Elems(s) \cap ReplyLinks(m) # {}

LinksCome(s, bag, X) == \A m \in X : LinkComes(s, bag, m)

ReplyInv == LinksCome(serial, asked, Replies)

\* Every reply with a row is linked, or a job that links it threw or is in the queue,
\* or the message it replies to is being fetched: on no path does
\* resolve_reply_message drop one.
NoReplyForgotten ==
    \A m \in messageRows : message[m] # None /\ Loop!Replied(m) # None =>
        \/ m \in linked
        \/ \E j \in failed : j.op = "link" /\ j.id = m
        \/ \E i \in 1 .. Len(serial) : serial[i].op = "link" /\ serial[i].id = m
        \/ Asking(asked, m)

\* A job of B at the end follows everything; any other job that is not of A changes
\* nothing.
LEMMA AppendFollows ==
    ASSUME NEW S, NEW s \in Seq(S), NEW x \in S, NEW A, NEW B, x \notin A
    PROVE  /\ x \in B => Follows(Append(s, x), A, B)
           /\ Follows(s, A, B) => Follows(Append(s, x), A, B)
  <1> DEFINE t == Append(s, x)
  <1>1. /\ Len(t) = Len(s) + 1 /\ Len(s) \in Nat
        /\ \A i \in 1 .. Len(s) : t[i] = s[i]
        /\ t[Len(s) + 1] = x
    BY AppendProperties
  <1> HIDE DEF t
  <1>2. ASSUME NEW i \in 1 .. Len(t), t[i] \in A PROVE i \in 1 .. Len(s) /\ s[i] \in A
    BY <1>1, <1>2
  <1>3. ASSUME x \in B, NEW i \in 1 .. Len(t), t[i] \in A
        PROVE  \E k \in i + 1 .. Len(t) : t[k] \in B
    <2>1. Len(s) + 1 \in i + 1 .. Len(t)
      BY <1>1, <1>2, <1>3
    <2> QED
      BY <1>1, <1>3, <2>1
  <1>4. ASSUME Follows(s, A, B), NEW i \in 1 .. Len(t), t[i] \in A
        PROVE  \E k \in i + 1 .. Len(t) : t[k] \in B
    <2>1. PICK k \in i + 1 .. Len(s) : s[k] \in B
      BY <1>2, <1>4 DEF Follows
    <2>2. k \in i + 1 .. Len(t) /\ k \in 1 .. Len(s)
      BY <1>1, <1>2, <1>4, <2>1
    <2> QED
      BY <1>1, <2>1, <2>2
  <1> QED
    BY <1>3, <1>4 DEF Follows, t

\* Behind a head of A there is one of B.
LEMMA TailFollows ==
    ASSUME NEW S, NEW s \in Seq(S), s # <<>>, NEW A, NEW B, Follows(s, A, B)
    PROVE  /\ Head(s) \in A => Elems(Tail(s)) \cap B # {}
           /\ Follows(Tail(s), A, B)
  <1>1. /\ Head(s) = s[1] /\ Len(Tail(s)) = Len(s) - 1
        /\ \A i \in 1 .. Len(Tail(s)) : Tail(s)[i] = s[i + 1]
        /\ Len(s) \in Nat /\ Len(s) >= 1
    BY HeadTailProperties, EmptySeq
  <1>2. ASSUME Head(s) \in A PROVE Elems(Tail(s)) \cap B # {}
    <2>1. PICK k \in 1 + 1 .. Len(s) : s[k] \in B
      BY <1>1, <1>2 DEF Follows
    <2>2. k - 1 \in 1 .. Len(Tail(s)) /\ (k - 1) + 1 = k
      BY <1>1, <2>1
    <2>3. Tail(s)[k - 1] \in B
      BY <1>1, <2>1, <2>2
    <2> QED
      BY <2>2, <2>3 DEF Elems
  <1>3. ASSUME NEW i \in 1 .. Len(Tail(s)), Tail(s)[i] \in A
        PROVE  \E k \in i + 1 .. Len(Tail(s)) : Tail(s)[k] \in B
    <2>1. i + 1 \in 1 .. Len(s) /\ s[i + 1] \in A
      BY <1>1, <1>3
    <2>2. PICK k \in (i + 1) + 1 .. Len(s) : s[k] \in B
      BY <2>1 DEF Follows
    <2>3. k - 1 \in i + 1 .. Len(Tail(s)) /\ k - 1 \in 1 .. Len(Tail(s)) /\ (k - 1) + 1 = k
      BY <1>1, <2>1, <2>2
    <2>4. Tail(s)[k - 1] = s[k]
      BY <1>1, <2>3
    <2> QED
      BY <2>2, <2>3, <2>4
  <1> QED
    BY <1>2, <1>3 DEF Follows

\* Appending a job that is no save of m, and appending a link of m.
LEMMA OneMoreJob ==
    ASSUME NEW s \in Seq(PostedJobs), NEW x \in PostedJobs, NEW bag, NEW m,
           x \notin SavesOf(m), LinkComes(s, bag, m) \/ x \in ReplyLinks(m)
    PROVE  LinkComes(Append(s, x), bag, m)
  <1>1. Elems(Append(s, x)) = Elems(s) \cup {x}
    BY AppendElems
  <1>2. /\ x \in ReplyLinks(m) => Follows(Append(s, x), SavesOf(m), ReplyLinks(m))
        /\ Follows(s, SavesOf(m), ReplyLinks(m)) =>
              Follows(Append(s, x), SavesOf(m), ReplyLinks(m))
    BY AppendFollows
  <1> QED
    BY <1>1, <1>2 DEF LinkComes

\* More requests do no harm.
LEMMA MoreRequests ==
    ASSUME NEW s, NEW b1, NEW b2, DOMAIN b1 \subseteq DOMAIN b2, NEW X, LinksCome(s, b1, X)
    PROVE  LinksCome(s, b2, X)
  BY DEF LinksCome, LinkComes, Asking

\* What Resaved posts is no save.
LEMMA ResavedLinks ==
    ASSUME NEW s, Queue(s, known), known \subseteq Loop!Entities, NEW e,
           NEW bag, NEW X, LinksCome(s, bag, X)
    PROVE  LinksCome(s \o Loop!Resaved(e), bag, X)
  <1>1. s \in Seq(PostedJobs)
    BY DEF Queue
  <1>2. CASE e \in known
    <2> DEFINE x == Loop!Upsert(e)
    <2>1. x \in PostedJobs /\ x.op = "upsert"
      BY <1>2, PostedFacts
    <2>2. s \o Loop!Resaved(e) = Append(s, x)
      BY <1>1, <1>2, <2>1, AppendIsConcat DEF Loop!Resaved
    <2> HIDE DEF x
    <2>3. ASSUME NEW m \in X PROVE LinkComes(Append(s, x), bag, m)
      <3>1. x \notin SavesOf(m) /\ LinkComes(s, bag, m)
        BY <2>1 DEF SavesOf, LinksCome
      <3> QED
        BY <1>1, <2>1, <3>1, OneMoreJob
    <2> QED
      BY <2>2, <2>3 DEF LinksCome
  <1>3. CASE e \notin known
    BY <1>1, <1>3, ConcatEmptySeq DEF Loop!Resaved
  <1> QED
    BY <1>2, <1>3

\* Handling a message that is a reply posts its link or asks for the message it
\* replies to.
LEMMA MessageLinks ==
    ASSUME World, known \subseteq Loop!Entities, NEW s, Queue(s, known),
           NEW m \in Loop!Sent, NEW depth, NEW done, NEW b1, NEW b2,
           DOMAIN b1 \cup DOMAIN Loop!Requested(m, depth, done) \subseteq DOMAIN b2,
           NEW X \in SUBSET Replies, LinksCome(s, b1, X)
    PROVE  LinksCome(s \o Loop!Posted(m, depth, done), b2, X)
  <1> DEFINE R == Loop!Resaved(message[m].origin)
             now == Loop!Replied(m) # None /\ Loop!NoFetch(m, depth, done)
             f == Loop!Replied(m) \in done
             T == IF now THEN <<Loop!LinkOf(m, f)>> ELSE <<>>
             s1 == s \o R
             s2 == s1 \o <<SaveOf(m)>>
  <1>1. Loop!Posted(m, depth, done) = (R \o <<SaveOf(m)>>) \o T
    BY DEF Loop!Posted, SaveOf
  <1>2. R \in Seq(PostedJobs) /\ Queue(s1, known)
    BY PostResaved
  <1>3. s \in Seq(PostedJobs) /\ s1 \in Seq(PostedJobs)
    BY <1>2 DEF Queue
  <1>4. LinksCome(s1, b2, X)
    BY ResavedLinks, MoreRequests
  <1>5. SaveOf(m) \in SavesOf(m) /\ SaveOf(m) \in PostedJobs
    <2> HIDE DEF s1
    <2> QED
      BY <1>2, PostSave DEF SavesOf
  <1>6. s2 = Append(s1, SaveOf(m)) /\ s2 \in Seq(PostedJobs)
    <2> HIDE DEF s1
    <2> QED
      BY <1>3, <1>5, AppendIsConcat, AppendProperties
  <1>7. T \in Seq(PostedJobs) /\ (now => Loop!LinkOf(m, f) \in ReplyLinks(m))
    <2>1. CASE now
      <3>1. m \in Replies /\ f \in BOOLEAN
        BY <2>1 DEF Replies
      <3>2. Loop!LinkOf(m, f) \in PostedJobs
        BY <3>1 DEF Loop!LinkOf, PostedJobs
      <3> QED
        BY <2>1, <3>2 DEF ReplyLinks, Loop!LinkOf
    <2>2. CASE ~now
      BY <2>2, EmptySeq
    <2> QED
      BY <2>1, <2>2
  <1>8. s \o ((R \o <<SaveOf(m)>>) \o T) = s2 \o T
    <2> HIDE DEF R, T
    <2>1. <<SaveOf(m)>> \in Seq(PostedJobs)
      BY <1>5
    <2>2. R \o <<SaveOf(m)>> \in Seq(PostedJobs)
      BY <1>2, <2>1, ConcatProperties
    <2>3. s \o ((R \o <<SaveOf(m)>>) \o T) = (s \o (R \o <<SaveOf(m)>>)) \o T
      BY <1>3, <1>7, <2>2, ConcatAssociative
    <2>4. s \o (R \o <<SaveOf(m)>>) = (s \o R) \o <<SaveOf(m)>>
      BY <1>2, <1>3, <2>1, ConcatAssociative
    <2> QED
      BY <2>3, <2>4
  <1> HIDE DEF s1, R
  <1>9. ASSUME NEW n \in X, n # m PROVE LinkComes(s2, b2, n)
    <2>1. SaveOf(m) \notin SavesOf(n) /\ LinkComes(s1, b2, n)
      BY <1>4, <1>5, <1>9 DEF SavesOf, LinksCome
    <2> QED
      BY <1>3, <1>5, <1>6, <2>1, OneMoreJob
  <1> HIDE DEF s2
  <1>10. CASE now
    <2> DEFINE x == Loop!LinkOf(m, f)
    <2>1. x \in ReplyLinks(m) /\ x \in PostedJobs /\ x.op = "link"
      BY <1>7, <1>10 DEF ReplyLinks
    <2>2. s2 \o T = Append(s2, x)
      BY <1>6, <1>10, <2>1, AppendIsConcat
    <2> HIDE DEF x
    <2>3. ASSUME NEW n \in X PROVE LinkComes(Append(s2, x), b2, n)
      <3>1. x \notin SavesOf(n)
        BY <2>1 DEF SavesOf
      <3>2. LinkComes(s2, b2, n) \/ x \in ReplyLinks(n)
        BY <1>9, <2>1
      <3> QED
        BY <1>6, <2>1, <3>1, <3>2, OneMoreJob
    <2> QED
      BY <1>1, <1>8, <2>2, <2>3 DEF LinksCome
  <1>11. CASE ~now
    <2>1. s2 \o T = s2
      BY <1>6, <1>11, ConcatEmptySeq
    <2>2. ASSUME m \in X PROVE Asking(b2, m)
      <3> DEFINE r == [type |-> "replied", id |-> m, depth |-> depth]
      <3>1. Loop!Replied(m) # None
        BY <2>2 DEF Replies
      <3>2. Loop!Requested(m, depth, done)
              = Loop!(+)(Loop!AskFor(message[m].origin), Loop!SetToBag({r}))
        BY <1>11, <3>1 DEF Loop!Requested
      <3>3. r \in DOMAIN Loop!Requested(m, depth, done)
        BY <3>2 DEF Loop!(+), Loop!SetToBag
      <3> QED
        BY <3>3 DEF Asking
    <2>3. ASSUME NEW n \in X PROVE LinkComes(s2, b2, n)
      BY <1>9, <2>2 DEF LinkComes
    <2> QED
      BY <1>1, <1>8, <2>1, <2>3 DEF LinksCome
  <1> QED
    BY <1>10, <1>11

\* A union asks for what its parts ask for.
LEMMA UnionDomain ==
    ASSUME NEW A, NEW B
    PROVE  DOMAIN Loop!(+)(A, B) = DOMAIN A \cup DOMAIN B
  BY DEF Loop!(+)

\* An answer takes no other request away.
LEMMA AnsweredDomain ==
    ASSUME Requests(asked), NEW r, NEW x \in DOMAIN asked, x # r
    PROVE  x \in DOMAIN Loop!Answered(r)
  <1>1. asked \in [DOMAIN asked -> {n \in Nat : n > 0}]
    BY DEF Requests, Loop!IsABag
  <1>2. x \notin DOMAIN Loop!SetToBag({r}) /\ asked[x] > 0
    BY <1>1 DEF Loop!SetToBag
  <1> QED
    BY <1>2 DEF Loop!Answered, Loop!(-)

\* The replies that r was not asked for do not miss it.
LEMMA StillAsking ==
    ASSUME Requests(asked), NEW r, NEW X, LinksCome(serial, asked, X),
           r.type = "replied" => r.id \notin X
    PROVE  LinksCome(serial, Loop!Answered(r), X)
  <1>1. ASSUME NEW m \in X, Asking(asked, m) PROVE Asking(Loop!Answered(r), m)
    <2>1. PICK x \in DOMAIN asked : x.type = "replied" /\ x.id = m
      BY <1>1 DEF Asking
    <2>2. x # r
      BY <2>1
    <2> QED
      BY <2>1, <2>2, AnsweredDomain DEF Asking
  <1> QED
    BY <1>1 DEF LinksCome, LinkComes

\* Handlers do not touch the database.
LEMMA ReplyFrame ==
    ASSUME message' = message, UNCHANGED Loop!tables, LinksCome(serial', asked', Replies)
    PROVE  ReplyInv'
  <1>1. messageRows' = messageRows /\ Linked' = Linked
    BY DEF Loop!tables, Linked
  <1>2. Replies' = Replies
    BY DEF Replies, Loop!Sent, Loop!Replied
  <1>3. ASSUME NEW m PROVE ReplyLinks(m)' = ReplyLinks(m) /\ SavesOf(m)' = SavesOf(m)
    BY SameWorld DEF ReplyLinks
  <1>4. ASSUME NEW m \in Replies PROVE LinkComes(serial, asked, m)'
    <2>1. LinkComes(serial', asked', m)
      BY DEF LinksCome
    <2> QED
      BY <1>1, <1>3, <2>1 DEF LinkComes, Asking, Follows, Elems
  <1> QED
    BY <1>2, <1>4 DEF ReplyInv, LinksCome

\* Updates and answers that handle a message.
LEMMA HandledLinks ==
    ASSUME LoopInv, ReplyInv, NEW m \in Loop!Sent, NEW bag,
           LinksCome(serial, bag, Replies),
           serial' = serial \o Loop!Posted(m, 0, resolved),
           asked' = Loop!(+)(bag, Loop!Requested(m, 0, resolved)),
           message' = message, UNCHANGED Loop!tables
    PROVE  ReplyInv'
  <1>1. /\ World /\ known \subseteq Loop!Entities /\ Queue(serial, known)
    BY FetchedFacts
  <1>2. DOMAIN bag \cup DOMAIN Loop!Requested(m, 0, resolved) \subseteq DOMAIN asked'
    BY UnionDomain
  <1>3. LinksCome(serial', asked', Replies)
    BY <1>1, <1>2, MessageLinks
  <1> QED
    BY <1>3, ReplyFrame

\* The answer with a replied message: the link at the end is the one r was asked for.
LEMMA RepliedLinks ==
    ASSUME LoopInv, ReplyInv, NEW r \in MadeRequests, Loop!RepliedAnswer(r)
    PROVE  ReplyInv'
  <1> DEFINE t == Loop!Replied(r.id)
             done == Loop!MarkReplyResolved(t)
             s1 == serial \o Loop!Resaved(message[t].chat)
             s2 == s1 \o Loop!Resaved(message[t].sender)
             s3 == s2 \o Loop!Posted(t, r.depth + 1, done)
             a1 == Loop!(+)(Loop!Answered(r), Loop!AskFor(message[t].chat))
             a2 == Loop!(+)(a1, Loop!AskFor(message[t].sender))
             lnk == Loop!LinkOf(r.id, TRUE)
             X == Replies \ {r.id}
  <1>1. /\ serial' = s3 \o <<lnk>>
        /\ asked' = Loop!(+)(a2, Loop!Requested(t, r.depth + 1, done))
        /\ message' = message /\ UNCHANGED Loop!tables /\ r.type = "replied"
    BY DEF Loop!RepliedAnswer
  <1>2. r.id \in Replies /\ r.id \in Loop!Sent
    BY <1>1 DEF MadeRequests, Replies
  <1>3. /\ World /\ Queue(serial, known) /\ Requests(asked) /\ known \subseteq Loop!Entities
        /\ Loop!TypeOK /\ Fetched(serial, resolved)
    BY <1>2, FetchedFacts DEF LoopInv
  <1>4. t \in Loop!Sent
    BY <1>2, <1>3 DEF World
  <1>5. done \subseteq resolved \cup {t}
    BY DEF Loop!MarkReplyResolved
  <1>6. LinksCome(serial, Loop!Answered(r), X)
    <2>1. LinksCome(serial, asked, X)
      BY DEF ReplyInv, LinksCome
    <2>2. r.id \notin X
      OBVIOUS
    <2> HIDE DEF X
    <2> QED
      BY <1>3, <2>1, <2>2, StillAsking
  <1> HIDE DEF t, done, lnk
  <1>7. Queue(s1, known) /\ Elems(serial) \subseteq Elems(s1)
    BY <1>3, PostResaved
  <1>8. LinksCome(s1, Loop!Answered(r), X)
    <2> HIDE DEF X
    <2> QED
      BY <1>3, <1>6, ResavedLinks
  <1>9. Queue(s2, known) /\ Elems(serial) \subseteq Elems(s2)
    <2> HIDE DEF s1
    <2> QED
      BY <1>3, <1>7, PostResaved
  <1>10. LinksCome(s2, Loop!Answered(r), X)
    <2> HIDE DEF s1, X
    <2> QED
      BY <1>3, <1>7, <1>8, ResavedLinks
  <1>11. Loop!Replied(t) \in done => Loop!Replied(t) = t \/ SavePosted(s2, Loop!Replied(t))
    <2> HIDE DEF s2
    <2> QED
      BY <1>3, <1>5, <1>9, StillPosted DEF Fetched
  <1>12. Queue(s3, known)
    <2> HIDE DEF s2
    <2> QED
      BY <1>3, <1>4, <1>9, <1>11, PostMessage
  <1>13. DOMAIN Loop!Answered(r) \cup DOMAIN Loop!Requested(t, r.depth + 1, done)
           \subseteq DOMAIN asked'
    <2>1. DOMAIN Loop!Answered(r) \subseteq DOMAIN a1
      BY UnionDomain
    <2> HIDE DEF a1
    <2>2. DOMAIN a1 \subseteq DOMAIN a2
      BY UnionDomain
    <2> HIDE DEF a2
    <2>3. DOMAIN asked' = DOMAIN a2 \cup DOMAIN Loop!Requested(t, r.depth + 1, done)
      BY <1>1, UnionDomain
    <2> QED
      BY <2>1, <2>2, <2>3
  <1>14. LinksCome(s3, asked', X)
    <2>1. X \in SUBSET Replies
      OBVIOUS
    <2> HIDE DEF s2, X
    <2> QED
      BY <1>3, <1>4, <1>9, <1>10, <1>13, <2>1, MessageLinks
  <1>15. s3 \in Seq(PostedJobs) /\ lnk \in PostedJobs /\ lnk.op = "link" /\ lnk.id = r.id
    BY <1>2, <1>12 DEF Queue, lnk, Loop!LinkOf, PostedJobs
  <1> HIDE DEF s3
  <1>16. Append(s3, lnk) = s3 \o <<lnk>>
    BY <1>15, AppendIsConcat
  <1>17. ASSUME NEW m \in Replies PROVE LinkComes(Append(s3, lnk), asked', m)
    <2>1. lnk \notin SavesOf(m)
      BY <1>15 DEF SavesOf
    <2>2. LinkComes(s3, asked', m) \/ lnk \in ReplyLinks(m)
      BY <1>14, <1>15 DEF LinksCome, ReplyLinks
    <2> QED
      BY <1>15, <2>1, <2>2, OneMoreJob
  <1>18. LinksCome(serial', asked', Replies)
    BY <1>1, <1>16, <1>17 DEF LinksCome
  <1> QED
    BY <1>1, <1>18, ReplyFrame

\* An error: the link is posted all the same.
LEMMA ErrorLinks ==
    ASSUME LoopInv, ReplyInv, NEW r \in MadeRequests, Loop!ErrorAnswer(r)
    PROVE  ReplyInv'
  <1> DEFINE lnk == Loop!LinkOf(r.id, FALSE)
  <1>1. /\ asked' = Loop!Answered(r)
        /\ serial' = IF r.type = "replied" THEN Append(serial, lnk) ELSE serial
        /\ message' = message /\ UNCHANGED Loop!tables
    BY DEF Loop!ErrorAnswer
  <1>2. serial \in Seq(PostedJobs) /\ Requests(asked) /\ LinksCome(serial, asked, Replies)
    BY DEF LoopInv, Queue, ReplyInv
  <1>3. CASE r.type = "replied"
    <2>1. r.id \in Replies
      BY <1>3 DEF MadeRequests
    <2>2. lnk \in PostedJobs /\ lnk.op = "link" /\ lnk.id = r.id
      BY <2>1 DEF PostedJobs, Loop!LinkOf
    <2> HIDE DEF lnk
    <2>3. LinksCome(serial, Loop!Answered(r), Replies \ {r.id})
      <3>1. LinksCome(serial, asked, Replies \ {r.id})
        BY <1>2 DEF LinksCome
      <3> QED
        BY <1>2, <3>1, StillAsking
    <2>4. ASSUME NEW m \in Replies PROVE LinkComes(Append(serial, lnk), Loop!Answered(r), m)
      <3>1. lnk \notin SavesOf(m)
        BY <2>2 DEF SavesOf
      <3>2. LinkComes(serial, Loop!Answered(r), m) \/ lnk \in ReplyLinks(m)
        BY <2>2, <2>3 DEF LinksCome, ReplyLinks
      <3> QED
        BY <1>2, <2>2, <3>1, <3>2, OneMoreJob
    <2>5. LinksCome(serial', asked', Replies)
      BY <1>1, <1>3, <2>4 DEF LinksCome
    <2> QED
      BY <1>1, <2>5, ReplyFrame
  <1>4. CASE r.type # "replied"
    <2>1. LinksCome(serial', asked', Replies)
      BY <1>1, <1>2, <1>4, StillAsking
    <2> QED
      BY <1>1, <2>1, ReplyFrame
  <1> QED
    BY <1>3, <1>4

\* An entity becomes known: its upsert is no save.
LEMMA LearnLinks ==
    ASSUME LoopInv, ReplyInv, NEW e \in Loop!Entities, Loop!Learn(e), NEW bag,
           LinksCome(serial, bag, Replies), asked' = bag,
           message' = message, UNCHANGED Loop!tables
    PROVE  ReplyInv'
  <1> DEFINE x == Loop!Upsert(e)
  <1>1. serial' = Append(serial, x)
    BY DEF Loop!Learn
  <1>2. serial \in Seq(PostedJobs) /\ x \in PostedJobs /\ x.op = "upsert"
    BY PostedFacts DEF LoopInv, Queue
  <1> HIDE DEF x
  <1>3. ASSUME NEW m \in Replies PROVE LinkComes(Append(serial, x), bag, m)
    <2>1. x \notin SavesOf(m) /\ LinkComes(serial, bag, m)
      BY <1>2 DEF SavesOf, LinksCome
    <2> QED
      BY <1>2, <2>1, OneMoreJob
  <1>4. LinksCome(serial', asked', Replies)
    BY <1>1, <1>3 DEF LinksCome
  <1> QED
    BY <1>4, ReplyFrame

\* serial_ runs its oldest job.
LEMMA RunLinks ==
    ASSUME LoopInv, ReplyInv, Loop!RunSerial
    PROVE  ReplyInv'
  <1> DEFINE j == Head(serial)
  <1>1. /\ serial # <<>> /\ serial' = Tail(serial) /\ message' = message /\ asked' = asked
        /\ \/ /\ Loop!UpsertEntity(j) \/ Loop!SaveMessage(j) \/ Loop!LinkReply(j)
              /\ failed' = failed
           \/ Loop!JobThrows(j)
    BY DEF Loop!RunSerial, Loop!JobSucceeds
  <1>2. serial \in Seq(PostedJobs)
    BY DEF LoopInv, Queue
  <1>3. j \in PostedJobs /\ Elems(serial) = Elems(Tail(serial)) \cup {j}
    BY <1>1, <1>2, TailElems
  <1>4. Replies' = Replies
    BY <1>1 DEF Replies, Loop!Sent, Loop!Replied
  <1>5. ASSUME NEW m PROVE ReplyLinks(m)' = ReplyLinks(m) /\ SavesOf(m)' = SavesOf(m)
    BY <1>1, SameWorld DEF ReplyLinks
  <1> HIDE DEF j
  <1>6. ASSUME NEW m \in Replies
        PROVE  \/ Asking(asked, m)
               \/ /\ Follows(Tail(serial), SavesOf(m), ReplyLinks(m))
                  /\ m \in messageRows' \ Linked' => Elems(Tail(serial)) \cap ReplyLinks(m) # {}
    <2>1. CASE Asking(asked, m)
      BY <2>1
    <2>2. CASE ~Asking(asked, m)
      <3>1. /\ Follows(serial, SavesOf(m), ReplyLinks(m))
            /\ m \in messageRows \ Linked => Elems(serial) \cap ReplyLinks(m) # {}
        BY <2>2 DEF ReplyInv, LinksCome, LinkComes
      <3>2. /\ j \in SavesOf(m) => Elems(Tail(serial)) \cap ReplyLinks(m) # {}
            /\ Follows(Tail(serial), SavesOf(m), ReplyLinks(m))
        BY <1>1, <1>2, <3>1, TailFollows DEF j
      <3>3. ASSUME m \in messageRows' \ Linked'
            PROVE  Elems(Tail(serial)) \cap ReplyLinks(m) # {}
        <4>1. CASE Loop!UpsertEntity(j) /\ failed' = failed
          <5>1. j.op = "upsert" /\ messageRows' = messageRows /\ Linked' = Linked
            BY <4>1 DEF Loop!UpsertEntity, Linked
          <5>2. j \notin ReplyLinks(m)
            BY <5>1 DEF ReplyLinks
          <5> QED
            BY <1>3, <3>1, <3>3, <5>1, <5>2
        <4>2. CASE Loop!SaveMessage(j) /\ failed' = failed
          <5>1. /\ j.op = "save" /\ Linked' = Linked
                /\ messageRows' \subseteq messageRows \cup {j.id}
            BY <4>2 DEF Loop!SaveMessage, Linked
          <5>2. j \notin ReplyLinks(m)
            BY <5>1 DEF ReplyLinks
          <5>3. CASE m \in messageRows
            BY <1>3, <3>1, <3>3, <5>1, <5>2, <5>3
          <5>4. CASE m \notin messageRows
            <6>1. j \in SavesOf(m)
              BY <1>3, <3>3, <5>1, <5>4 DEF SavesOf
            <6> QED
              BY <3>2, <6>1
          <5> QED
            BY <5>3, <5>4
        <4>3. CASE Loop!LinkReply(j) /\ failed' = failed
          <5>1. /\ j.op = "link" /\ messageRows' = messageRows
                /\ Linked' = Linked \cup ({j.id} \cap messageRows)
            BY <4>3 DEF Loop!LinkReply, Linked
          <5>2. m \in messageRows \ Linked /\ m # j.id
            BY <3>3, <5>1
          <5>3. j \notin ReplyLinks(m)
            BY <5>2 DEF ReplyLinks
          <5> QED
            BY <1>3, <3>1, <5>2, <5>3
        <4>4. CASE Loop!JobThrows(j)
          <5>1. messageRows' = messageRows /\ linked' = linked /\ failed' = failed \cup {j}
            BY <4>4 DEF Loop!JobThrows
          <5>2. m \in messageRows \ Linked
            BY <3>3, <5>1 DEF Linked
          <5>3. j \notin ReplyLinks(m)
            BY <3>3, <5>1 DEF ReplyLinks, Linked
          <5> QED
            BY <1>3, <3>1, <5>2, <5>3
        <4> QED
          BY <1>1, <4>1, <4>2, <4>3, <4>4
      <3> QED
        BY <3>2, <3>3
    <2> QED
      BY <2>1, <2>2
  <1>7. ASSUME NEW m \in Replies PROVE LinkComes(serial, asked, m)'
    BY <1>1, <1>5, <1>6 DEF LinkComes, Asking, Follows, Elems
  <1> QED
    BY <1>4, <1>7 DEF ReplyInv, LinksCome

\* Every step of the loop and of serial_ keeps track of every reply.
LEMMA ReplyNextStep == LoopInv /\ ReplyInv /\ [Loop!Next]_Loop!vars => ReplyInv'
  <1> SUFFICES ASSUME LoopInv, ReplyInv, [Loop!Next]_Loop!vars PROVE ReplyInv'
    OBVIOUS
  <1>0. Requests(asked) /\ LinksCome(serial, asked, Replies)
    BY DEF LoopInv, ReplyInv
  <1>1. ASSUME NEW m \in Loop!Sent, Loop!NewMessage(m) PROVE ReplyInv'
    BY <1>0, <1>1, HandledLinks DEF Loop!NewMessage
  <1>2. ASSUME NEW m \in Loop!Sent, Loop!MessageEdited(m) PROVE ReplyInv'
    <2> DEFINE B == Loop!SetToBag({[type |-> "edited", id |-> m]})
    <2>1. /\ asked' = Loop!(+)(asked, B) /\ serial' = serial
          /\ message' = message /\ UNCHANGED Loop!tables
      BY <1>2 DEF Loop!MessageEdited
    <2> HIDE DEF B
    <2>2. DOMAIN asked \subseteq DOMAIN asked'
      BY <2>1, UnionDomain
    <2>3. LinksCome(serial', asked', Replies)
      BY <1>0, <2>1, <2>2, MoreRequests
    <2> QED
      BY <2>1, <2>3, ReplyFrame
  <1>3. ASSUME NEW r \in Loop!BagToSet(asked), Loop!Answer(r) PROVE ReplyInv'
    <2>1. r \in MadeRequests
      BY DEF LoopInv, Requests, Loop!BagToSet
    <2>2. r.type # "replied" => LinksCome(serial, Loop!Answered(r), Replies)
      BY <1>0, StillAsking
    <2>3. CASE Loop!EditedAnswer(r)
      <3>1. /\ serial' = serial \o Loop!Posted(r.id, 0, resolved)
            /\ asked' = Loop!(+)(Loop!Answered(r), Loop!Requested(r.id, 0, resolved))
            /\ message' = message /\ UNCHANGED Loop!tables /\ r.type = "edited"
        BY <2>3 DEF Loop!EditedAnswer
      <3>2. r.id \in Loop!Sent
        BY <2>1, <3>1 DEF MadeRequests
      <3> QED
        BY <2>2, <3>1, <3>2, HandledLinks
    <2>4. CASE Loop!EntityAnswer(r)
      <3>1. /\ Loop!Learn(r.id) /\ asked' = Loop!Answered(r)
            /\ message' = message /\ UNCHANGED Loop!tables /\ r.type \in {"user", "chat"}
        BY <2>4 DEF Loop!EntityAnswer
      <3>2. r.id \in Loop!Entities /\ r.type # "replied"
        BY <2>1, <3>1 DEF MadeRequests
      <3> QED
        BY <2>2, <3>1, <3>2, LearnLinks
    <2> QED
      BY <1>3, <2>1, <2>3, <2>4, RepliedLinks, ErrorLinks DEF Loop!Answer
  <1>4. ASSUME NEW e \in Loop!Mentioned, Loop!UpdateEntity(e) PROVE ReplyInv'
    <2>1. e \in Loop!Entities
      BY MentionedFacts DEF LoopInv
    <2>2. /\ Loop!Learn(e) /\ asked' = asked /\ message' = message /\ UNCHANGED Loop!tables
      BY <1>4 DEF Loop!UpdateEntity
    <2> QED
      BY <1>0, <2>1, <2>2, LearnLinks
  <1>5. ASSUME NEW f \in FileIds, Loop!FileUpdate(f) PROVE ReplyInv'
    <2>1. asked' = asked /\ serial' = serial /\ message' = message /\ UNCHANGED Loop!tables
      BY <1>5 DEF Loop!FileUpdate
    <2> QED
      BY <1>0, <2>1, ReplyFrame
  <1>6. ASSUME Loop!RunSerial PROVE ReplyInv'
    BY <1>6, RunLinks
  <1>7. ASSUME UNCHANGED Loop!vars PROVE ReplyInv'
    <2>1. asked' = asked /\ serial' = serial /\ message' = message /\ UNCHANGED Loop!tables
      BY <1>7 DEF Loop!vars, Loop!tables
    <2> QED
      BY <1>0, <2>1, ReplyFrame
  <1> QED
    BY <1>1, <1>2, <1>3, <1>4, <1>5, <1>6, <1>7 DEF Loop!Next

\* The link of every reply with a row is made, posted or on its way, or its job threw,
\* whatever is requested for several replies at once, unavailable or beyond the depth
\* cap: the liveness property EveryReplyLinked can only fail if TDLib or serial_
\* stands still.
THEOREM RepliesRemembered ==
    ASSUME Loop!EntitiesAssumption, Loop!ShapesAssumption, Loop!RepliesAssumption,
           Loop!BoundsAssumption
    PROVE  Loop!Spec => []NoReplyForgotten
  <1>1. Loop!Init => ReplyInv
    <2> SUFFICES ASSUME Loop!Init PROVE ReplyInv
      OBVIOUS
    <2>1. serial = <<>> /\ messageRows = {}
      BY DEF Loop!Init
    <2>2. Len(<<>>) = 0 /\ 1 .. 0 = {}
      BY EmptySeq
    <2>3. \A A, B : Follows(<<>>, A, B)
      BY <2>2 DEF Follows
    <2> QED
      BY <2>1, <2>3 DEF ReplyInv, LinksCome, LinkComes
  <1>2. LoopInv /\ ReplyInv => NoReplyForgotten
    <2> SUFFICES ASSUME LoopInv, ReplyInv, NEW m \in messageRows, message[m] # None,
                        Loop!Replied(m) # None, m \notin linked, ~Asking(asked, m),
                        ~\E j \in failed : j.op = "link" /\ j.id = m
                 PROVE  \E i \in 1 .. Len(serial) : serial[i].op = "link" /\ serial[i].id = m
      BY DEF NoReplyForgotten
    <2>1. m \in Replies
      BY DEF LoopInv, Loop!TypeOK, Replies, Loop!Sent
    <2>2. Elems(serial) \cap ReplyLinks(m) # {}
      BY <2>1 DEF ReplyInv, LinksCome, LinkComes, Linked
    <2> QED
      BY <2>2 DEF Elems, ReplyLinks
  <1> QED
    BY <1>1, <1>2, HandlersInvariance, ReplyNextStep, PTL DEF Loop!Spec

-----------------------------------------------------------------------------
(* Downloads.  pending_message_file_ remembers one message of a file, and  *)
(* the run events_files shows that the others are forgotten; one is not.   *)

FileOfMessage(m) == message[m].file

\* The remembered message has the file, and a file that somebody asked for and that
\* is not complete has a message that is remembered for it.
DownloadInv ==
    /\ \A m \in wanting : FileOfMessage(m) \in FileIds
    /\ \A f \in FileIds : pending[f] # None => FileOfMessage(pending[f]) = f
    /\ \A m \in wanting : FileOfMessage(m) \in complete \/ pending[FileOfMessage(m)] # None
    /\ \A f \in complete : \E m \in served : FileOfMessage(m) = f

\* A file that is complete was handed over with at least one message that has it.
FileServedOnce == \A f \in complete : \E m \in served : message[m].file = f

\* maybe_download_message_file.
LEMMA DownloadFileKeeps ==
    ASSUME World, Loop!TypeOK, DownloadInv, NEW m \in Messages, message' = message,
           Loop!DownloadFile(m) \/ UNCHANGED Loop!downloads
    PROVE  DownloadInv'
  <1>1. pending \in [FileIds -> Messages \cup {None}] /\ complete \subseteq FileIds /\ m # None
    BY DEF Loop!TypeOK, World
  <1>2. \A n : FileOfMessage(n)' = FileOfMessage(n)
    BY DEF FileOfMessage
  <1> DEFINE f == FileOfMessage(m)
  <1>3. CASE UNCHANGED Loop!downloads
    BY <1>2, <1>3 DEF DownloadInv, Loop!downloads, FileOfMessage
  <1>4. CASE f \in complete /\ served' = served \cup {m} /\ UNCHANGED <<pending, complete, wanting>>
    BY <1>2, <1>4 DEF DownloadInv, FileOfMessage
  <1>5. CASE /\ f \in FileIds \ complete /\ pending' = [pending EXCEPT ![f] = m]
             /\ wanting' = wanting \cup {m} /\ UNCHANGED <<complete, served>>
    <2>1. \A g \in FileIds : pending'[g] = IF g = f THEN m ELSE pending[g]
      BY <1>1, <1>5
    <2>2. \A n \in wanting' : FileOfMessage(n) \in FileIds
      BY <1>5 DEF DownloadInv
    <2>3. \A g \in FileIds : pending'[g] # None => FileOfMessage(pending'[g]) = g
      BY <2>1 DEF DownloadInv
    <2>4. ASSUME NEW n \in wanting'
          PROVE  FileOfMessage(n) \in complete \/ pending'[FileOfMessage(n)] # None
      <3>1. CASE FileOfMessage(n) = f
        BY <1>1, <1>5, <2>1, <3>1
      <3>2. CASE FileOfMessage(n) # f
        <4>1. n \in wanting /\ FileOfMessage(n) \in FileIds
          BY <1>5, <2>2, <3>2
        <4> QED
          BY <2>1, <3>2, <4>1 DEF DownloadInv
      <3> QED
        BY <3>1, <3>2
    <2> HIDE DEF f
    <2> QED
      BY <1>5, <2>2, <2>3, <2>4 DEF DownloadInv, FileOfMessage
  <1> QED
    BY <1>3, <1>4, <1>5 DEF Loop!DownloadFile, FileOfMessage, Loop!downloads

\* handle_file_update.
LEMMA FileUpdateKeeps ==
    ASSUME World, Loop!TypeOK, DownloadInv, NEW f \in FileIds, Loop!FileUpdate(f)
    PROVE  DownloadInv'
  <1>1. /\ message' = message /\ wanting' = wanting /\ complete' = complete \cup {f}
        /\ served' = served \cup ({pending[f]} \ {None})
        /\ pending' = [pending EXCEPT ![f] = None] /\ f \notin complete
        /\ \E m \in wanting : FileOfMessage(m) = f
    BY DEF Loop!FileUpdate, FileOfMessage
  <1>2. pending \in [FileIds -> Messages \cup {None}]
    BY DEF Loop!TypeOK
  <1>3. \A g \in FileIds : pending'[g] = IF g = f THEN None ELSE pending[g]
    BY <1>1, <1>2
  <1>4. pending[f] # None /\ FileOfMessage(pending[f]) = f /\ pending[f] \in served'
    BY <1>1 DEF DownloadInv
  <1>5. \A g \in complete' : \E m \in served' : FileOfMessage(m) = g
    BY <1>1, <1>4 DEF DownloadInv
  <1>6. \A g \in FileIds : pending'[g] # None => FileOfMessage(pending'[g]) = g
    BY <1>3 DEF DownloadInv
  <1>7. \A m \in wanting' : FileOfMessage(m) \in complete' \/ pending'[FileOfMessage(m)] # None
    BY <1>1, <1>3 DEF DownloadInv
  <1>8. \A m \in wanting' : FileOfMessage(m) \in FileIds
    BY <1>1 DEF DownloadInv
  <1> QED
    BY <1>1, <1>5, <1>6, <1>7, <1>8 DEF DownloadInv, FileOfMessage

\* Only these two touch the downloads.
LEMMA DownloadNextStep == LoopInv /\ DownloadInv /\ [Loop!Next]_Loop!vars => DownloadInv'
  <1> SUFFICES ASSUME LoopInv, DownloadInv, [Loop!Next]_Loop!vars PROVE DownloadInv'
    OBVIOUS
  <1>1. World /\ Loop!TypeOK
    BY DEF LoopInv
  <1>2. ASSUME UNCHANGED Loop!downloads, message' = message PROVE DownloadInv'
    BY <1>2 DEF DownloadInv, FileOfMessage, Loop!downloads
  <1>3. ASSUME NEW m \in Loop!Sent, Loop!NewMessage(m) \/ Loop!MessageEdited(m)
        PROVE  DownloadInv'
    <2>1. m \in Messages /\ message' = message
      BY <1>3 DEF Loop!Sent, Loop!NewMessage, Loop!MessageEdited
    <2>2. Loop!DownloadFile(m) \/ UNCHANGED Loop!downloads
      BY <1>3 DEF Loop!NewMessage, Loop!MessageEdited
    <2> QED
      BY <1>1, <2>1, <2>2, DownloadFileKeeps
  <1>4. ASSUME NEW r \in Loop!BagToSet(asked), Loop!Answer(r) PROVE DownloadInv'
    <2>1. r \in MadeRequests
      BY DEF LoopInv, Requests, Loop!BagToSet
    <2>2. CASE Loop!EditedAnswer(r)
      <3>1. Loop!DownloadFile(r.id) /\ message' = message /\ r.type = "edited"
        BY <2>2 DEF Loop!EditedAnswer
      <3>2. r.id \in Messages
        BY <2>1, <3>1 DEF MadeRequests, Loop!Sent
      <3> QED
        BY <1>1, <3>1, <3>2, DownloadFileKeeps
    <2>3. CASE Loop!RepliedAnswer(r)
      <3>1. Loop!DownloadFile(Loop!Replied(r.id)) /\ message' = message /\ r.type = "replied"
        BY <2>3 DEF Loop!RepliedAnswer
      <3>2. r.id \in Replies
        BY <2>1, <3>1 DEF MadeRequests
      <3>3. Loop!Replied(r.id) \in Messages
        BY <1>1, <3>2 DEF World, Loop!Sent
      <3> QED
        BY <1>1, <3>1, <3>3, DownloadFileKeeps
    <2>4. CASE Loop!EntityAnswer(r) \/ Loop!ErrorAnswer(r)
      BY <1>2, <2>4 DEF Loop!EntityAnswer, Loop!ErrorAnswer
    <2> QED
      BY <1>4, <2>2, <2>3, <2>4 DEF Loop!Answer
  <1>5. ASSUME NEW f \in FileIds, Loop!FileUpdate(f) PROVE DownloadInv'
    BY <1>1, <1>5, FileUpdateKeeps
  <1>6. ASSUME NEW e, Loop!UpdateEntity(e) PROVE DownloadInv'
    BY <1>2, <1>6 DEF Loop!UpdateEntity
  <1>7. ASSUME Loop!RunSerial PROVE DownloadInv'
    BY <1>2, <1>7 DEF Loop!RunSerial
  <1>8. ASSUME UNCHANGED Loop!vars PROVE DownloadInv'
    BY <1>2, <1>8 DEF Loop!vars, Loop!downloads
  <1> QED
    BY <1>3, <1>4, <1>5, <1>6, <1>7, <1>8 DEF Loop!Next

\* Although pending_message_file_ forgets all but the last message of a file, no
\* completed download goes without a message.
THEOREM DownloadsServed ==
    ASSUME Loop!EntitiesAssumption, Loop!ShapesAssumption, Loop!RepliesAssumption,
           Loop!BoundsAssumption
    PROVE  Loop!Spec => []FileServedOnce
  <1>1. Loop!Init => DownloadInv
    BY DEF Loop!Init, DownloadInv
  <1>2. DownloadInv => FileServedOnce
    BY DEF DownloadInv, FileServedOnce, FileOfMessage
  <1> QED
    BY <1>1, <1>2, HandlersInvariance, DownloadNextStep, PTL DEF Loop!Spec
===============================================================================
