-------------------------- MODULE DownloaderProofs --------------------------
(***************************************************************************)
(* Proofs about Downloader, for any URLs, aliases, workers and bounds:     *)
(* each step is a step of the database, so that what is proved of the      *)
(* database holds here; no wakeup is lost; one row per video.              *)
(***************************************************************************)
EXTENDS Downloader, DatabaseProofs, FiniteSetTheorems, SequenceTheorems

(* A thread that is at work has a copy of a media row in hand.             *)
AtWork == {"retry", "enqueue", "playlist", "fetch", "push"}
HasCopy(t) == t \in ThreadState /\ (t.pc \in AtWork => t.media \in MediaInfoId)

CopiesInHand ==
  /\ \A w \in Worker : HasCopy(request[w])
  /\ HasCopy(metadataThread) /\ HasCopy(downloaderThread)
  /\ IsFiniteSet(snapshot)

TypeInv == DbInv /\ DownloaderTypeOK /\ CopiesInHand

-----------------------------------------------------------------------------
(* The values that threads take.                                           *)
LEMMA ThreadValues ==
  /\ \A pc \in AtWork, m \in MediaInfoId :
       Thread(pc, m) \in ThreadState /\ HasCopy(Thread(pc, m))
  /\ \A t \in {Idle, Waiting, Popping, Absent} : t \in ThreadState /\ HasCopy(t)
  /\ \A t : HasCopy(t) => HasCopy(Notified(t)) /\ Notified(t) \in ThreadState
BY DEF AtWork, HasCopy, ThreadState, Thread, Idle, Waiting, Popping, Absent,
   Notified

(* updateMediaInfo returns the id of a row that is known.                  *)
LEMMA FinalIdsKnown ==
  ASSUME DbTypeOK, NEW m \in MediaInfoId, NEW id \in FinalIds(m)
  PROVE  id \in MediaId /\ [m EXCEPT !.id = id] \in MediaInfoId
BY DEF DbTypeOK, FinalIds, UrlOwners, MediaInfoId, MediaId

(* There are finitely many rows, since their ids are unique and bounded.   *)
LEMMA MediaFinite == ASSUME DbInv PROVE IsFiniteSet(media)
<1> DEFINE idOf == [r \in media |-> r.id]
<1>1. idOf \in Injection(media, MediaId)
  BY DEF DbInv, DbTypeOK, TableConstraints, PrimaryKeys, KeysUnique, MediaInfoId,
     Injection, IsInjective, MediaId
<1>2. IsFiniteSet(MediaId)
  BY FS_Interval, BoundsAssumption DEF MediaId
<1> QED
  BY <1>1, <1>2, FS_Injection

(* An enumeration of finitely many rows is a sequence of them.             *)
LEMMA EnumerationIsSeq ==
  ASSUME NEW rows, IsFiniteSet(rows), rows \subseteq MediaInfoId,
         NEW s \in SetToSeqs(rows)
  PROVE  s \in Seq(MediaInfoId)
<1>1. Cardinality(rows) \in Nat
  BY FS_CardinalityType
<1>2. s \in [1 .. Cardinality(rows) -> MediaInfoId]
  BY DEF SetToSeqs
<1> QED
  BY <1>1, <1>2

-----------------------------------------------------------------------------
(* What youtube-dl and the threads make of a copy is again a media row.    *)
LEMMA FetchedIsRow ==
  ASSUME NEW m \in MediaInfoId
  PROVE  Fetched(m) \subseteq MediaInfoId /\ Downloaded(m) \subseteq MediaInfoId
<1>1. m.url \in Url /\ Canonical[m.url] \in Url
  BY CanonicalAssumption DEF MediaInfoId
<1>2. \A url \in Url, status \in MediaStatus :
        [m EXCEPT !.url = url, !.status = status] \in MediaInfoId
  BY DEF MediaInfoId
<1>3. \A r \in Fetched(m) : r \in MediaInfoId
  BY <1>1, <1>2 DEF Fetched, MediaStatus
<1>4. ASSUME NEW r \in Downloaded(m) PROVE r \in MediaInfoId
  <2>1. PICK url \in {m.url, Canonical[m.url]}, status \in {"Ready", "Failed"} :
          r = [m EXCEPT !.url = url, !.status = status]
    BY DEF Downloaded
  <2> QED
    BY <1>1, <1>2, <2>1 DEF MediaStatus
<1> QED
  BY <1>3, <1>4

(* Every step of the program is a step of the database, or leaves it alone. *)
LEMMA StepIsDbStep ==
  ASSUME TypeInv, Next
  PROVE  [DbNext]_dbVars
<1> USE DEF TypeInv, CopiesInHand
<1>1. ASSUME NEW w \in Worker, NEW url \in Url, AddMedia(w, url)
      PROVE  [DbNext]_dbVars
  BY <1>1 DEF AddMedia, DbNext
<1>2. ASSUME NEW w \in Worker, RetryFailed(w)
      PROVE  [DbNext]_dbVars
  <2> DEFINE m == [request[w].media EXCEPT !.status = "Initial"]
  <2>1. m \in MediaInfoId
    BY <1>2 DEF RetryFailed, HasCopy, AtWork, MediaInfoId, MediaStatus
  <2>2. (\E id \in FinalIds(m) : UpdateMediaInfo(m, id)) \/ UNCHANGED dbVars
    BY <1>2 DEF RetryFailed
  <2> HIDE DEF m
  <2> QED
    BY <2>1, <2>2 DEF DbNext
<1>3. ASSUME NEW w \in Worker, Enqueue(w) \/ RacedEnqueue(w)
      PROVE  [DbNext]_dbVars
  BY <1>3 DEF Enqueue, RacedEnqueue
<1>4. ASSUME NEW w \in Worker, QueueForPlayback(w)
      PROVE  [DbNext]_dbVars
  <2>1. request[w].media.id \in MediaId
    BY <1>4 DEF QueueForPlayback, HasCopy, AtWork, MediaInfoId
  <2> QED
    BY <1>4, <2>1 DEF QueueForPlayback, DbNext
<1>5. CASE MetadataStep
  <2>1. CASE MetadataUpdate
    <3>1. PICK m \in Fetched(metadataThread.media) :
            (\E id \in FinalIds(m) : UpdateMediaInfo(m, id)) \/ UNCHANGED dbVars
      BY <2>1 DEF MetadataUpdate
    <3>2. m \in MediaInfoId
      BY <2>1, FetchedIsRow DEF MetadataUpdate, HasCopy, AtWork
    <3> QED
      BY <3>1, <3>2 DEF DbNext
  <2> QED
    BY <1>5, <2>1 DEF MetadataStep, MetadataPop, MetadataPush
<1>6. CASE DownloadStep
  <2>1. CASE DownloadUpdate
    <3>1. PICK m \in Downloaded(downloaderThread.media) :
            (\E id \in FinalIds(m) : UpdateMediaInfo(m, id)) \/ UNCHANGED dbVars
      BY <2>1 DEF DownloadUpdate
    <3>2. m \in MediaInfoId
      BY <2>1, FetchedIsRow DEF DownloadUpdate, HasCopy, AtWork
    <3> QED
      BY <3>1, <3>2 DEF DbNext
  <2> QED
    BY <1>6, <2>1 DEF DownloadStep, DownloadPop
<1>7. CASE MainStep \/ StartServer \/ Shutdown \/ Crash \/ Ended
  BY <1>7 DEF MainStep, LoadMedia, StartThreads, StopMetadata, StopDownloader,
     Joined, StartServer, Shutdown, Crash, Ended, vars
<1>8. CASE PlayNext \/ PassTime
  BY <1>8 DEF PlayNext, PassTime, DbNext
<1> QED
  BY <1>1, <1>2, <1>3, <1>4, <1>5, <1>6, <1>7, <1>8 DEF Next, RequestStep

-----------------------------------------------------------------------------
(* Type correctness, one lemma per actor.  DbInv' comes from the database. *)

(* The end of the process.                                                 *)
LEMMA GoneKeepsTypes ==
  ASSUME TypeInv, DbInv', Gone, aborted' \in {"no", "no row", "no player"}
  PROVE  TypeInv'
<1>1. \A w \in Worker : AllIdle[w] = Idle
  BY DEF AllIdle
<1>2. AllIdle \in [Worker -> ThreadState]
  BY ThreadValues DEF AllIdle
<1>3. CopiesInHand'
  BY <1>1, FS_EmptySet, ThreadValues DEF CopiesInHand, Gone
<1>4. <<>> \in Seq(MediaInfoId)
  BY EmptySeq
<1>5. DownloaderTypeOK'
  BY <1>2, <1>4, ThreadValues DEF TypeInv, DbInv, DownloaderTypeOK, Gone, Phase
<1> QED
  BY <1>3, <1>5 DEF TypeInv

(* What a worker does to its own entry keeps the types.                    *)
LEMMA WorkerMoves ==
  ASSUME TypeInv, NEW w \in Worker, NEW t, HasCopy(t),
         request' = [request EXCEPT ![w] = t]
  PROVE  request' \in [Worker -> ThreadState] /\ \A v \in Worker : HasCopy(request[v])'
BY DEF TypeInv, DownloaderTypeOK, CopiesInHand, HasCopy

(* The HTTP workers.                                                       *)
LEMMA RequestKeepsTypes ==
  ASSUME TypeInv, DbInv', NEW w \in Worker,
         (\E url \in Url : AddMedia(w, url)) \/ RequestStep(w)
  PROVE  TypeInv'
<1> USE DEF TypeInv
<1>1. ASSUME NEW url \in Url, AddMedia(w, url)
      PROVE  TypeInv'
  <2>1. PICK row \in RowFor(url) :
          /\ GetOrAddMediaByURL(url, row)
          /\ Proceed(w, CASE row.status = "Failed"  -> "retry"
                          [] row.status = "Initial" -> "enqueue"
                          [] OTHER                  -> "playlist", row)
    BY <1>1 DEF AddMedia
  <2>2. row \in MediaInfoId
    BY <2>1 DEF GetOrAddMediaByURL, DbInv, DbTypeOK
  <2>3. PICK pc \in {"retry", "enqueue", "playlist"} :
          request' = [request EXCEPT ![w] = Thread(pc, row)]
    BY <2>1 DEF Proceed
  <2>4. HasCopy(Thread(pc, row))
    BY <2>2, ThreadValues DEF AtWork
  <2>5. requests' \in 0 .. MaxRequests
    <3>1. requests < MaxRequests /\ requests' = requests + 1
      BY <1>1 DEF AddMedia
    <3>2. requests \in 0 .. MaxRequests /\ MaxRequests \in Nat
      BY DownloaderBounds DEF DownloaderTypeOK
    <3> QED
      BY <3>1, <3>2
  <2> QED
    BY <1>1, <2>3, <2>4, <2>5, WorkerMoves
       DEF AddMedia, queueVars, threadVars, mainVars, DbInv, DownloaderTypeOK,
           CopiesInHand
<1>2. CASE RetryFailed(w)
  <2> DEFINE m == [request[w].media EXCEPT !.status = "Initial"]
  <2>1. m \in MediaInfoId
    BY <1>2 DEF RetryFailed, CopiesInHand, HasCopy, AtWork, MediaInfoId, MediaStatus
  <2>2. CASE UpdateMediaInfoAborts(m) /\ Die("no row")
    BY <2>2, GoneKeepsTypes DEF Die
  <2>3. ASSUME NEW t, HasCopy(t), request' = [request EXCEPT ![w] = t],
               UNCHANGED <<requests, queueVars, threadVars, mainVars>>
        PROVE  TypeInv'
    BY <2>3, WorkerMoves
       DEF queueVars, threadVars, mainVars, DbInv, DownloaderTypeOK, CopiesInHand
  <2>4. ASSUME NEW id \in FinalIds(m),
               Proceed(w, "enqueue", [m EXCEPT !.id = id]),
               UNCHANGED <<requests, queueVars, threadVars, mainVars>>
        PROVE  TypeInv'
    <3>1. [m EXCEPT !.id = id] \in MediaInfoId
      BY <2>1, FinalIdsKnown DEF DbInv
    <3>2. HasCopy(Thread("enqueue", [m EXCEPT !.id = id]))
      BY <3>1, ThreadValues DEF AtWork
    <3> HIDE DEF m
    <3> QED
      BY <2>3, <2>4, <3>2 DEF Proceed
  <2>5. CASE Answer(w) /\ UNCHANGED <<requests, queueVars, threadVars, mainVars>>
    BY <2>3, <2>5, ThreadValues DEF Answer
  <2> QED
    BY <1>2, <2>2, <2>4, <2>5 DEF RetryFailed
<1>3. CASE Enqueue(w)
  <2>1. request[w].media \in MediaInfoId
    BY <1>3 DEF Enqueue, CopiesInHand, HasCopy, AtWork
  <2>2. HasCopy(Thread("playlist", request[w].media))
    BY <2>1, ThreadValues DEF AtWork
  <2>3. metadataQueue' \in Seq(MediaInfoId)
    <3>1. metadataQueue \in Seq(MediaInfoId)
      BY DEF DownloaderTypeOK
    <3>2. metadataQueue' = Append(metadataQueue, request[w].media)
      BY <1>3 DEF Enqueue
    <3> QED
      BY <2>1, <3>1, <3>2, AppendProperties
  <2>4. HasCopy(metadataThread') /\ metadataThread' \in ThreadState
    BY <1>3, ThreadValues DEF Enqueue, CopiesInHand, DownloaderTypeOK
  <2> QED
    BY <1>3, <2>2, <2>3, <2>4, WorkerMoves
       DEF Enqueue, Proceed, mainVars, DbInv, DownloaderTypeOK, CopiesInHand, HasCopy
<1>4. CASE RacedEnqueue(w)
  <2>1. request[w].media \in MediaInfoId
    BY <1>4 DEF RacedEnqueue, CopiesInHand, HasCopy, AtWork
  <2>2. HasCopy(Thread("playlist", request[w].media))
    BY <2>1, ThreadValues DEF AtWork
  <2>3. metadataQueue' \in Seq(MediaInfoId)
    <3>1. metadataQueue \in Seq(MediaInfoId)
      BY DEF DownloaderTypeOK
    <3>2. \/ metadataQueue' = Append(metadataQueue, request[w].media)
          \/ metadataQueue' = metadataQueue
      BY <1>4 DEF RacedEnqueue
    <3> QED
      BY <2>1, <3>1, <3>2, AppendProperties
  <2>4. snapshot' \subseteq snapshot
    BY <1>4 DEF RacedEnqueue
  <2>5. IsFiniteSet(snapshot')
    BY <2>4, FS_Subset DEF CopiesInHand
  <2> QED
    BY <1>4, <2>2, <2>3, <2>4, <2>5, WorkerMoves
       DEF RacedEnqueue, Proceed, threadVars, DbInv, DownloaderTypeOK, CopiesInHand
<1>5. CASE QueueForPlayback(w)
  BY <1>5, ThreadValues, WorkerMoves
     DEF QueueForPlayback, Answer, queueVars, threadVars, mainVars, DbInv,
         DownloaderTypeOK, CopiesInHand
<1> QED
  BY <1>1, <1>2, <1>3, <1>4, <1>5 DEF RequestStep

(* The metadata thread.                                                    *)
LEMMA MetadataKeepsTypes ==
  ASSUME TypeInv, DbInv', MetadataStep
  PROVE  TypeInv'
<1> USE DEF TypeInv
<1>1. CASE MetadataPop
  <2>1. metadataQueue \in Seq(MediaInfoId)
    BY DEF DownloaderTypeOK
  <2>2. metadataQueue # <<>> =>
          /\ Head(metadataQueue) \in MediaInfoId
          /\ Tail(metadataQueue) \in Seq(MediaInfoId)
    BY <2>1, HeadTailProperties
  <2>3. metadataQueue' \in Seq(MediaInfoId)
    BY <1>1, <2>1, <2>2 DEF MetadataPop
  <2>4. HasCopy(metadataThread')
    BY <1>1, <2>2, ThreadValues DEF MetadataPop, AtWork
  <2> QED
    BY <1>1, <2>3, <2>4
       DEF MetadataPop, requestVars, mainVars, DbInv, DownloaderTypeOK,
           CopiesInHand, HasCopy
<1>2. CASE MetadataUpdate
  <2>1. PICK m \in Fetched(metadataThread.media) :
          \/ \E id \in FinalIds(m) : /\ metadataThread' = AfterMetadata([m EXCEPT !.id = id])
                                     /\ UNCHANGED <<requestVars, queueVars, downloaderThread,
                                                    shutdownMetadata, shutdownDownloader, mainVars>>
          \/ /\ metadataThread' = AfterMetadata(m)
             /\ UNCHANGED <<requestVars, queueVars, downloaderThread,
                            shutdownMetadata, shutdownDownloader, mainVars>>
          \/ Die("no row")
    BY <1>2 DEF MetadataUpdate
  <2>2. m \in MediaInfoId
    BY <1>2, FetchedIsRow DEF MetadataUpdate, CopiesInHand, HasCopy, AtWork
  <2>3. \A r \in MediaInfoId : HasCopy(AfterMetadata(r))
    BY ThreadValues DEF AfterMetadata, AtWork
  <2>4. \A id \in FinalIds(m) : [m EXCEPT !.id = id] \in MediaInfoId
    BY <2>2, FinalIdsKnown DEF DbInv
  <2>5. CASE Die("no row")
    BY <2>5, GoneKeepsTypes DEF Die
  <2>6. ASSUME HasCopy(metadataThread'),
               UNCHANGED <<requestVars, queueVars, downloaderThread,
                           shutdownMetadata, shutdownDownloader, mainVars>>
        PROVE  TypeInv'
    BY <2>6 DEF requestVars, queueVars, mainVars, DbInv, DownloaderTypeOK,
                CopiesInHand, HasCopy
  <2> QED
    BY <2>1, <2>2, <2>3, <2>4, <2>5, <2>6
<1>3. CASE MetadataPush
  <2>1. metadataThread.media \in MediaInfoId
    BY <1>3 DEF MetadataPush, CopiesInHand, HasCopy, AtWork
  <2>2. downloaderQueue \in Seq(MediaInfoId)
    BY DEF DownloaderTypeOK
  <2>3. downloaderQueue' \in Seq(MediaInfoId)
    BY <1>3, <2>1, <2>2, AppendProperties DEF MetadataPush
  <2>4. HasCopy(metadataThread') /\ HasCopy(downloaderThread')
    BY <1>3, ThreadValues DEF MetadataPush, CopiesInHand
  <2> QED
    BY <1>3, <2>3, <2>4
       DEF MetadataPush, requestVars, mainVars, DbInv, DownloaderTypeOK,
           CopiesInHand, HasCopy
<1> QED
  BY <1>1, <1>2, <1>3 DEF MetadataStep

(* The downloader thread.                                                  *)
LEMMA DownloadKeepsTypes ==
  ASSUME TypeInv, DbInv', DownloadStep
  PROVE  TypeInv'
<1> USE DEF TypeInv
<1>1. CASE DownloadPop
  <2>1. downloaderQueue \in Seq(MediaInfoId)
    BY DEF DownloaderTypeOK
  <2>2. downloaderQueue # <<>> =>
          /\ Head(downloaderQueue) \in MediaInfoId
          /\ Tail(downloaderQueue) \in Seq(MediaInfoId)
    BY <2>1, HeadTailProperties
  <2>3. downloaderQueue' \in Seq(MediaInfoId)
    BY <1>1, <2>1, <2>2 DEF DownloadPop
  <2>4. HasCopy(downloaderThread')
    BY <1>1, <2>2, ThreadValues DEF DownloadPop, AtWork
  <2> QED
    BY <1>1, <2>3, <2>4
       DEF DownloadPop, requestVars, mainVars, DbInv, DownloaderTypeOK,
           CopiesInHand, HasCopy
<1>2. CASE DownloadUpdate
  <2>1. \/ Die("no row") \/ Die("no player")
        \/ /\ downloaderThread' = Popping
           /\ UNCHANGED <<requestVars, queueVars, metadataThread,
                          shutdownMetadata, shutdownDownloader, mainVars>>
    BY <1>2 DEF DownloadUpdate
  <2>2. CASE Die("no row") \/ Die("no player")
    BY <2>2, GoneKeepsTypes DEF Die
  <2>3. CASE /\ downloaderThread' = Popping
             /\ UNCHANGED <<requestVars, queueVars, metadataThread,
                            shutdownMetadata, shutdownDownloader, mainVars>>
    BY <2>3, ThreadValues
       DEF requestVars, queueVars, mainVars, DbInv, DownloaderTypeOK,
           CopiesInHand, HasCopy
  <2> QED
    BY <2>1, <2>2, <2>3
<1> QED
  BY <1>1, <1>2 DEF DownloadStep

(* The main thread and the environment.                                    *)
LEMMA MainKeepsTypes ==
  ASSUME TypeInv, DbInv',
         MainStep \/ StartServer \/ Shutdown \/ Crash \/ PlayNext \/ PassTime
           \/ UNCHANGED vars
  PROVE  TypeInv'
<1> USE DEF TypeInv, Phase
<1>1. CASE LoadMedia
  <2>1. IsFiniteSet(snapshot')
    BY <1>1, MediaFinite, FS_Subset DEF LoadMedia
  <2>2. snapshot' \subseteq MediaInfoId
    BY <1>1 DEF LoadMedia, DbInv, DbTypeOK
  <2> QED
    BY <1>1, <2>1, <2>2
       DEF LoadMedia, requestVars, queueVars, threadVars, DbInv, DownloaderTypeOK,
           CopiesInHand
<1>2. CASE StartThreads
  <2>1. ASSUME NEW status PROVE
          LET rows == {r \in snapshot : r.status = status} IN
            \A s \in SetToSeqs(rows) : s \in Seq(MediaInfoId)
    <3> DEFINE rows == {r \in snapshot : r.status = status}
    <3>1. rows \subseteq snapshot /\ rows \subseteq MediaInfoId
      BY DEF DownloaderTypeOK
    <3>2. IsFiniteSet(rows)
      BY <3>1, FS_Subset DEF CopiesInHand
    <3> HIDE DEF rows
    <3>3. \A s \in SetToSeqs(rows) : s \in Seq(MediaInfoId)
      BY <3>1, <3>2, EnumerationIsSeq
    <3> QED
      BY <3>3 DEF rows
  <2>2. downloaderQueue' \in Seq(MediaInfoId)
    BY <1>2, <2>1 DEF StartThreads
  <2>3. metadataQueue' \in Seq(MediaInfoId)
    <3>1. PICK rows \in SetToSeqs({r \in snapshot : r.status = "Initial"}) :
            metadataQueue' = metadataQueue \o rows
      BY <1>2 DEF StartThreads
    <3>2. rows \in Seq(MediaInfoId) /\ metadataQueue \in Seq(MediaInfoId)
      BY <2>1 DEF DownloaderTypeOK
    <3> QED
      BY <3>1, <3>2, ConcatProperties
  <2>4. /\ snapshot' = {} /\ phase' = "running"
        /\ metadataThread' = Popping /\ downloaderThread' = Popping
        /\ UNCHANGED <<dbVars, requestVars, shutdownMetadata,
                       shutdownDownloader, starts, aborted>>
    BY <1>2 DEF StartThreads
  <2> QED
    BY <2>2, <2>3, <2>4, ThreadValues, FS_EmptySet
       DEF requestVars, DbInv, DownloaderTypeOK, CopiesInHand, Phase
<1>3. CASE StopMetadata \/ StopDownloader
  BY <1>3, ThreadValues
     DEF StopMetadata, StopDownloader, requestVars, queueVars, mainVars, DbInv,
         DownloaderTypeOK, CopiesInHand
<1>4. CASE Joined \/ Crash
  BY <1>4, GoneKeepsTypes DEF Joined, Crash, Die, DownloaderTypeOK
<1>5. CASE StartServer
  <2>1. starts' \in 0 .. MaxStarts
    <3>1. starts < MaxStarts /\ starts' = starts + 1
      BY <1>5 DEF StartServer
    <3>2. starts \in 0 .. MaxStarts /\ MaxStarts \in Nat
      BY DownloaderBounds DEF DownloaderTypeOK
    <3> QED
      BY <3>1, <3>2
  <2> QED
    BY <1>5, <2>1
       DEF StartServer, requestVars, queueVars, threadVars, DbInv,
           DownloaderTypeOK, CopiesInHand
<1>6. CASE Shutdown
  BY <1>6 DEF Shutdown, requestVars, queueVars, threadVars, DbInv,
              DownloaderTypeOK, CopiesInHand
<1>7. CASE PlayNext \/ PassTime \/ UNCHANGED vars
  <2>1. UNCHANGED <<requestVars, queueVars, threadVars, mainVars>>
    <3>1. CASE PlayNext
      BY <3>1 DEF PlayNext
    <3>2. CASE PassTime
      BY <3>2 DEF PassTime
    <3>3. CASE UNCHANGED vars
      BY <3>3 DEF vars
    <3> QED
      BY <1>7, <3>1, <3>2, <3>3
  <2> QED
    BY <2>1 DEF requestVars, queueVars, threadVars, mainVars, DbInv,
                DownloaderTypeOK, CopiesInHand
<1> QED
  BY <1>1, <1>2, <1>3, <1>4, <1>5, <1>6, <1>7 DEF MainStep

(* The invariant is inductive.                                             *)
LEMMA TypeInvInit == Init => TypeInv
<1> SUFFICES ASSUME Init PROVE TypeInv
  OBVIOUS
<1>1. DbInv
  BY InitEstablishesInv DEF Init
<1>2. <<>> \in Seq(MediaInfoId)
  BY EmptySeq
<1>3. AllIdle \in [Worker -> ThreadState] /\ \A w \in Worker : HasCopy(AllIdle[w])
  BY ThreadValues DEF AllIdle
<1> QED
  <2>1. 0 \in 0 .. MaxRequests /\ 0 \in 0 .. MaxStarts
    BY DownloaderBounds
  <2>2. DownloaderTypeOK
    BY <1>1, <1>2, <1>3, <2>1, ThreadValues
       DEF Init, DbInv, DownloaderTypeOK, Phase
  <2>3. CopiesInHand
    BY <1>3, ThreadValues, FS_EmptySet DEF Init, CopiesInHand
  <2> QED
    BY <1>1, <2>2, <2>3 DEF TypeInv

LEMMA TypeInvStep == TypeInv /\ [Next]_vars => TypeInv' /\ [DbNext]_dbVars
<1> SUFFICES ASSUME TypeInv, [Next]_vars PROVE TypeInv' /\ [DbNext]_dbVars
  OBVIOUS
<1>1. [DbNext]_dbVars
  BY StepIsDbStep DEF vars
<1>2. DbInv'
  BY <1>1, DbStepKeepsInv DEF TypeInv
<1>3. TypeInv'
  BY <1>2, RequestKeepsTypes, MetadataKeepsTypes, DownloadKeepsTypes, MainKeepsTypes
     DEF Next, Ended
<1> QED
  BY <1>1, <1>3

(* The variables always have the types of DownloaderTypeOK, and whoever is *)
(* at work has a media row in hand.                                        *)
THEOREM DownloaderTypeInvariant == Spec => []TypeInv
BY TypeInvInit, TypeInvStep, PTL DEF Spec

THEOREM DownloaderTypeCorrect == Spec => []DownloaderTypeOK
<1>1. TypeInv => DownloaderTypeOK
  BY DEF TypeInv
<1> QED
  BY <1>1, DownloaderTypeInvariant, PTL

(* The program with its threads, crashes and restarts implements the       *)
(* database with any callers.                                              *)
THEOREM DownloaderUsesDatabase == Spec => DbSpec
<1>1. Init => DbInit
  BY DEF Init
<1> QED
  BY <1>1, TypeInvInit, TypeInvStep, PTL DEF Spec, DbSpec

(* So what is proved of the database holds while the threads, crashes and  *)
(* restarts of this module use it.                                         *)
THEOREM DownloaderKeepsTables ==
  Spec => [](TableConstraints /\ PlaylistUnique) /\ NoEntryPushedBack
BY DownloaderUsesDatabase, ConstraintsHold, QueuedOnce, PlacesKept, PTL

-----------------------------------------------------------------------------
(* No lost wakeup.  While startThreads fills the queues, a worker may push *)
(* without notifying (RacedEnqueue); nobody waits, since no thread exists. *)
WakeupInv ==
  /\ NoLostWakeup
  /\ phase \in {"down", "serving", "loading"} =>
       metadataThread = Absent /\ downloaderThread = Absent

(* Waiting is told apart from the other states by its pc.                  *)
LEMMA NotWaiting ==
  /\ Popping # Waiting /\ Absent # Waiting
  /\ \A pc, m : pc # "waiting" => Thread(pc, m) # Waiting
  /\ \A t : Notified(t) # Waiting
  /\ Notified(Absent) = Absent
  /\ Absent.pc = "none"
BY DEF Popping, Absent, Waiting, Thread, Notified

LEMMA WakeupInvStep == WakeupInv /\ [Next]_vars => WakeupInv'
<1> SUFFICES ASSUME WakeupInv, [Next]_vars PROVE WakeupInv'
  OBVIOUS
<1> USE NotWaiting DEF WakeupInv, NoLostWakeup
<1>1. ASSUME Gone PROVE WakeupInv'
  BY <1>1 DEF Gone
<1>2. ASSUME UNCHANGED <<queueVars, threadVars, phase>> PROVE WakeupInv'
  BY <1>2 DEF queueVars, threadVars
<1>3. ASSUME NEW w \in Worker, (\E url \in Url : AddMedia(w, url)) \/ RequestStep(w)
      PROVE  WakeupInv'
  <2>1. CASE Enqueue(w)
    BY <2>1 DEF Enqueue, mainVars
  <2>2. CASE RacedEnqueue(w)
    BY <2>2 DEF RacedEnqueue, threadVars
  <2>3. CASE (\E url \in Url : AddMedia(w, url)) \/ QueueForPlayback(w)
    BY <1>2, <2>3 DEF AddMedia, QueueForPlayback, mainVars
  <2>4. CASE RetryFailed(w)
    <3>1. Gone \/ UNCHANGED <<queueVars, threadVars, phase>>
      BY <2>4 DEF RetryFailed, Die, mainVars
    <3> QED
      BY <1>1, <1>2, <3>1
  <2> QED
    BY <1>3, <2>1, <2>2, <2>3, <2>4 DEF RequestStep
<1>4. CASE MetadataStep
  <2>1. CASE MetadataPop
    BY <2>1 DEF MetadataPop, mainVars
  <2>2. CASE MetadataUpdate
    <3>1. metadataThread.pc = "fetch"
      BY <2>2 DEF MetadataUpdate
    <3>2. \A m : AfterMetadata(m) # Waiting
      BY DEF AfterMetadata
    <3>3. \/ Gone
          \/ /\ metadataThread' # Waiting
             /\ UNCHANGED <<queueVars, downloaderThread, shutdownMetadata,
                            shutdownDownloader, phase>>
      BY <2>2, <3>2 DEF MetadataUpdate, Die, mainVars
    <3> QED
      BY <1>1, <3>1, <3>3 DEF queueVars
  <2>3. CASE MetadataPush
    BY <2>3 DEF MetadataPush, mainVars
  <2> QED
    BY <1>4, <2>1, <2>2, <2>3 DEF MetadataStep
<1>5. CASE DownloadStep
  <2>1. CASE DownloadPop
    BY <2>1 DEF DownloadPop, mainVars
  <2>2. CASE DownloadUpdate
    <3>1. downloaderThread.pc = "fetch"
      BY <2>2 DEF DownloadUpdate
    <3>2. \/ Gone
          \/ /\ downloaderThread' = Popping
             /\ UNCHANGED <<queueVars, metadataThread, shutdownMetadata,
                            shutdownDownloader, phase>>
      BY <2>2 DEF DownloadUpdate, Die, mainVars
    <3> QED
      BY <1>1, <3>1, <3>2 DEF queueVars
  <2> QED
    BY <1>5, <2>1, <2>2 DEF DownloadStep
<1>6. CASE MainStep
  <2>1. CASE LoadMedia
    BY <2>1 DEF LoadMedia, queueVars, threadVars
  <2>2. CASE StartThreads
    BY <2>2 DEF StartThreads
  <2>3. CASE StopMetadata \/ StopDownloader
    BY <2>3 DEF StopMetadata, StopDownloader, queueVars, mainVars
  <2>4. CASE Joined
    BY <1>1, <2>4 DEF Joined
  <2> QED
    BY <1>6, <2>1, <2>2, <2>3, <2>4 DEF MainStep
<1>7. CASE StartServer \/ Shutdown
  BY <1>7 DEF StartServer, Shutdown, queueVars, threadVars
<1>8. CASE Crash
  BY <1>1, <1>8 DEF Crash, Die
<1>9. CASE PlayNext \/ PassTime \/ UNCHANGED vars
  <2>1. UNCHANGED <<queueVars, threadVars, phase>>
    BY <1>9 DEF PlayNext, PassTime, vars, mainVars
  <2> QED
    BY <1>2, <2>1
<1> QED
  BY <1>3, <1>4, <1>5, <1>6, <1>7, <1>8, <1>9 DEF Next, Ended

(* However many workers push and however often the program is stopped and  *)
(* started, a thread never sleeps while its queue has an entry or it has   *)
(* been told to stop.                                                      *)
THEOREM NoWakeupIsLost == Spec => []NoLostWakeup
<1>1. Init => WakeupInv
  BY NotWaiting DEF Init, WakeupInv, NoLostWakeup
<1>2. WakeupInv => NoLostWakeup
  BY DEF WakeupInv
<1> QED
  BY <1>1, <1>2, WakeupInvStep, PTL DEF Spec

-----------------------------------------------------------------------------
(* One row per video.  A row that got past its metadata, and a copy that   *)
(* is on its way to the downloader, have the canonical URL; no two rows    *)
(* have the same URL.                                                      *)
IsCanonical(m) == Canonical[m.url] = m.url
Named(m) == m.status \in {"Downloading", "Ready"} => IsCanonical(m)

NamedInv ==
  /\ \A r \in media : Named(r)
  /\ \A r \in snapshot : Named(r)
  /\ \A i \in 1 .. Len(downloaderQueue) : IsCanonical(downloaderQueue[i])
  /\ metadataThread.pc = "push" => IsCanonical(metadataThread.media)
  /\ downloaderThread.pc = "fetch" => IsCanonical(downloaderThread.media)

(* What the metadata thread writes is named, since webpage_url names       *)
(* itself; what the downloader makes of a canonical copy stays canonical.  *)
LEMMA FetchedIsNamed ==
  ASSUME NEW m \in MediaInfoId
  PROVE  /\ \A r \in Fetched(m) : Named(r)
         /\ IsCanonical(m) => \A r \in Downloaded(m) : IsCanonical(r)
<1>1. m.url \in Url /\ Canonical[Canonical[m.url]] = Canonical[m.url]
  BY CanonicalAssumption DEF MediaInfoId
<1>2. \A url, status : LET r == [m EXCEPT !.url = url, !.status = status]
                      IN  r.url = url /\ r.status = status
  BY DEF MediaInfoId
<1>3. ASSUME NEW r \in Fetched(m) PROVE Named(r)
  <2>1. CASE r = [m EXCEPT !.url = Canonical[m.url], !.status = "Downloading"]
    BY <1>1, <1>2, <2>1 DEF Named, IsCanonical
  <2>2. CASE \E url : r = [m EXCEPT !.url = url, !.status = "Failed"]
    BY <1>2, <2>2 DEF Named
  <2> QED
    BY <2>1, <2>2 DEF Fetched
<1>4. ASSUME IsCanonical(m), NEW r \in Downloaded(m) PROVE IsCanonical(r)
  <2>1. PICK url \in {m.url, Canonical[m.url]}, status \in {"Ready", "Failed"} :
          r = [m EXCEPT !.url = url, !.status = status]
    BY DEF Downloaded
  <2> QED
    BY <1>1, <1>2, <1>4, <2>1 DEF IsCanonical
<1> QED
  BY <1>3, <1>4

(* updateMediaInfo writes the caller's copy and no other URL or status.    *)
LEMMA UpdateKeepsNamed ==
  ASSUME TypeInv, NamedInv, NEW m \in MediaInfoId, Named(m),
         NEW id, UpdateMediaInfo(m, id)
  PROVE  /\ \A r \in media' : Named(r)
         /\ Named([m EXCEPT !.id = id])
         /\ IsCanonical(m) => IsCanonical([m EXCEPT !.id = id])
<1>1. LET r == [m EXCEPT !.id = id] IN r.url = m.url /\ r.status = m.status
  BY DEF MediaInfoId
<1>2. \A r \in media' : r \in media \/ r = [m EXCEPT !.id = id]
  BY DEF UpdateMediaInfo
<1> QED
  BY <1>1, <1>2 DEF Named, IsCanonical, NamedInv

LEMMA NamedInvStep == TypeInv /\ NamedInv /\ [Next]_vars => NamedInv'
<1> SUFFICES ASSUME TypeInv, NamedInv, [Next]_vars PROVE NamedInv'
  OBVIOUS
<1> DEFINE others == <<snapshot, downloaderQueue, metadataThread, downloaderThread>>
<1>1. downloaderQueue \in Seq(MediaInfoId)
  BY DEF TypeInv, DownloaderTypeOK
<1>2. ASSUME Gone, UNCHANGED media \/ \A r \in media' : Named(r)
      PROVE  NamedInv'
  <2>1. Absent.pc = "none" /\ Len(<<>>) = 0
    BY EmptySeq DEF Absent, Thread
  <2> QED
    BY <1>2, <2>1 DEF Gone, NamedInv, Named, IsCanonical
<1>3. ASSUME NEW w \in Worker, NEW url \in Url, AddMedia(w, url)
      PROVE  NamedInv'
  <2>1. PICK row \in RowFor(url) : media' = media \cup {row}
    BY <1>3 DEF AddMedia, GetOrAddMediaByURL
  <2>2. row \in media \/ row.status = "Initial"
    BY DEF RowFor
  <2> QED
    BY <1>3, <2>1, <2>2
       DEF AddMedia, queueVars, threadVars, mainVars, NamedInv, Named, IsCanonical
<1>4. ASSUME NEW w \in Worker, RetryFailed(w)
      PROVE  NamedInv'
  <2> DEFINE m == [request[w].media EXCEPT !.status = "Initial"]
  <2>1. m \in MediaInfoId /\ m.status = "Initial"
    BY <1>4 DEF RetryFailed, TypeInv, CopiesInHand, HasCopy, AtWork, MediaInfoId,
                MediaStatus
  <2>2. (\E id : UpdateMediaInfo(m, id)) \/ UNCHANGED media
    BY <1>4 DEF RetryFailed, dbVars
  <2>3. UNCHANGED others \/ (Gone /\ UNCHANGED media)
    BY <1>4 DEF RetryFailed, Die, queueVars, threadVars, mainVars, dbVars
  <2> HIDE DEF m
  <2>4. \A r \in media' : Named(r)
    BY <2>1, <2>2, UpdateKeepsNamed DEF Named, NamedInv
  <2> QED
    BY <1>2, <2>3, <2>4 DEF NamedInv, Named, IsCanonical
<1>5. ASSUME NEW w \in Worker, Enqueue(w)
      PROVE  NamedInv'
  <2>1. metadataThread'.pc = "push" => metadataThread' = metadataThread
    BY <1>5 DEF Enqueue, Notified, Popping, Thread
  <2> QED
    BY <1>5, <2>1 DEF Enqueue, mainVars, dbVars, NamedInv, Named, IsCanonical
<1>6. ASSUME NEW w \in Worker, RacedEnqueue(w)
      PROVE  NamedInv'
  <2>1. snapshot' \subseteq snapshot
    BY <1>6 DEF RacedEnqueue
  <2> QED
    BY <1>6, <2>1 DEF RacedEnqueue, dbVars, threadVars, NamedInv, Named, IsCanonical
<1>7. ASSUME NEW w \in Worker, QueueForPlayback(w)
      PROVE  NamedInv'
  <2>1. UNCHANGED <<media, others>>
    BY <1>7 DEF QueueForPlayback, AddToPlaylist, queueVars, threadVars, mainVars, dbVars
  <2> QED
    BY <2>1 DEF NamedInv, Named, IsCanonical
<1>8. CASE MetadataPop
  <2>1. metadataThread'.pc # "push"
    BY <1>8 DEF MetadataPop, Absent, Waiting, Thread
  <2> QED
    BY <1>8, <2>1 DEF MetadataPop, mainVars, dbVars, NamedInv, Named, IsCanonical
<1>9. CASE MetadataUpdate
  <2>1. metadataThread.media \in MediaInfoId
    BY <1>9 DEF MetadataUpdate, TypeInv, CopiesInHand, HasCopy, AtWork
  <2>2. PICK m \in Fetched(metadataThread.media) :
          \/ \E id : /\ UpdateMediaInfo(m, id) /\ id \in FinalIds(m)
                    /\ metadataThread' = AfterMetadata([m EXCEPT !.id = id])
                    /\ UNCHANGED <<snapshot, downloaderQueue, downloaderThread>>
          \/ /\ metadataThread' = AfterMetadata(m)
             /\ UNCHANGED <<media, snapshot, downloaderQueue, downloaderThread>>
          \/ Gone /\ UNCHANGED media
    BY <1>9 DEF MetadataUpdate, Die, dbVars, queueVars, mainVars
  <2>3. m \in MediaInfoId /\ Named(m)
    BY <2>1, FetchedIsRow, FetchedIsNamed
  <2>4. \A r : Named(r) /\ AfterMetadata(r).pc = "push"
                 => IsCanonical(AfterMetadata(r).media)
    BY DEF AfterMetadata, Named, Popping, Thread
  <2>5. ASSUME NEW id, UpdateMediaInfo(m, id), id \in FinalIds(m),
               metadataThread' = AfterMetadata([m EXCEPT !.id = id]),
               UNCHANGED <<snapshot, downloaderQueue, downloaderThread>>
        PROVE  NamedInv'
    <3>1. (\A r \in media' : Named(r)) /\ Named([m EXCEPT !.id = id])
      BY <2>3, <2>5, UpdateKeepsNamed
    <3> QED
      BY <2>4, <2>5, <3>1 DEF NamedInv, Named, IsCanonical
  <2>6. CASE /\ metadataThread' = AfterMetadata(m)
             /\ UNCHANGED <<media, snapshot, downloaderQueue, downloaderThread>>
    BY <2>3, <2>4, <2>6 DEF NamedInv, Named, IsCanonical
  <2> QED
    BY <1>2, <2>2, <2>5, <2>6
<1>10. CASE MetadataPush
  <2>1. metadataThread.media \in MediaInfoId /\ IsCanonical(metadataThread.media)
    BY <1>10 DEF MetadataPush, TypeInv, CopiesInHand, HasCopy, AtWork, NamedInv
  <2>2. downloaderQueue' = Append(downloaderQueue, metadataThread.media)
    BY <1>10 DEF MetadataPush
  <2>3. /\ Len(downloaderQueue') = Len(downloaderQueue) + 1
        /\ Len(downloaderQueue) \in Nat
        /\ \A i \in 1 .. Len(downloaderQueue) : downloaderQueue'[i] = downloaderQueue[i]
        /\ downloaderQueue'[Len(downloaderQueue) + 1] = metadataThread.media
    BY <1>1, <2>1, <2>2, AppendProperties, LenProperties
  <2>4. \A i \in 1 .. Len(downloaderQueue') :
          i \in 1 .. Len(downloaderQueue) \/ i = Len(downloaderQueue) + 1
    BY <2>3
  <2>5. \A i \in 1 .. Len(downloaderQueue') : IsCanonical(downloaderQueue'[i])
    BY <2>1, <2>3, <2>4 DEF NamedInv
  <2>6. /\ metadataThread'.pc # "push"
        /\ downloaderThread'.pc = "fetch" => downloaderThread' = downloaderThread
    BY <1>10 DEF MetadataPush, Notified, Popping, Thread
  <2> QED
    BY <1>10, <2>5, <2>6
       DEF MetadataPush, mainVars, dbVars, NamedInv, Named, IsCanonical
<1>11. CASE DownloadPop
  <2>1. CASE downloaderQueue' = downloaderQueue
    <3>1. downloaderThread'.pc # "fetch" \/ downloaderQueue # <<>>
      BY <1>11 DEF DownloadPop, Absent, Waiting, Thread
    <3> QED
      BY <1>11, <2>1, <3>1
         DEF DownloadPop, mainVars, dbVars, NamedInv, Named, IsCanonical, Absent,
             Waiting, Thread
  <2>2. CASE /\ downloaderQueue # <<>>
             /\ downloaderThread' = Thread("fetch", Head(downloaderQueue))
             /\ downloaderQueue' = Tail(downloaderQueue)
    <3>1. /\ Len(downloaderQueue) \in Nat \ {0}
          /\ Len(Tail(downloaderQueue)) = Len(downloaderQueue) - 1
          /\ \A i \in 1 .. Len(Tail(downloaderQueue)) :
               Tail(downloaderQueue)[i] = downloaderQueue[i + 1]
          /\ Head(downloaderQueue) = downloaderQueue[1]
      BY <1>1, <2>2, HeadTailProperties, EmptySeq
    <3>2. \A i \in 1 .. Len(downloaderQueue') : IsCanonical(downloaderQueue'[i])
      BY <2>2, <3>1 DEF NamedInv
    <3>3. IsCanonical(Head(downloaderQueue))
      BY <3>1 DEF NamedInv
    <3> QED
      BY <1>11, <2>2, <3>2, <3>3
         DEF DownloadPop, mainVars, dbVars, NamedInv, Named, IsCanonical, Thread
  <2> QED
    BY <1>11, <2>1, <2>2 DEF DownloadPop
<1>12. CASE DownloadUpdate
  <2>1. /\ downloaderThread.media \in MediaInfoId
        /\ IsCanonical(downloaderThread.media)
    BY <1>12 DEF DownloadUpdate, TypeInv, CopiesInHand, HasCopy, AtWork, NamedInv
  <2>2. PICK m \in Downloaded(downloaderThread.media) :
          (\E id : UpdateMediaInfo(m, id)) \/ UNCHANGED media
    BY <1>12 DEF DownloadUpdate, dbVars
  <2>3. m \in MediaInfoId /\ Named(m)
    BY <2>1, FetchedIsRow, FetchedIsNamed DEF Named
  <2>4. \A r \in media' : Named(r)
    BY <2>2, <2>3, UpdateKeepsNamed DEF NamedInv
  <2>5. \/ Gone
        \/ /\ downloaderThread' = Popping
           /\ UNCHANGED <<snapshot, downloaderQueue, metadataThread>>
    BY <1>12 DEF DownloadUpdate, Die, queueVars, mainVars
  <2> QED
    BY <1>2, <2>4, <2>5 DEF NamedInv, Named, IsCanonical, Popping, Thread
<1>13. CASE LoadMedia
  BY <1>13 DEF LoadMedia, dbVars, queueVars, threadVars, NamedInv, Named, IsCanonical
<1>14. CASE StartThreads
  <2>1. PICK rows \in SetToSeqs({r \in snapshot : r.status = "Downloading"}) :
          downloaderQueue' = rows
    BY <1>14 DEF StartThreads
  <2>2. \A i \in DOMAIN rows : rows[i] \in snapshot /\ rows[i].status = "Downloading"
    BY DEF SetToSeqs
  <2>3. rows \in Seq(MediaInfoId)
    <3>1. {r \in snapshot : r.status = "Downloading"} \subseteq MediaInfoId
      BY DEF TypeInv, DownloaderTypeOK
    <3>2. IsFiniteSet({r \in snapshot : r.status = "Downloading"})
      BY FS_Subset DEF TypeInv, CopiesInHand
    <3> QED
      BY <3>1, <3>2, EnumerationIsSeq
  <2>4. DOMAIN rows = 1 .. Len(rows)
    BY <2>3, LenProperties
  <2>5. \A i \in 1 .. Len(downloaderQueue') : IsCanonical(downloaderQueue'[i])
    BY <2>1, <2>2, <2>4 DEF NamedInv, Named
  <2> QED
    BY <1>14, <2>5
       DEF StartThreads, dbVars, NamedInv, Named, IsCanonical, Popping, Thread
<1>15. CASE StopMetadata \/ StopDownloader
  <2>1. /\ metadataThread'.pc = "push" => metadataThread' = metadataThread
        /\ downloaderThread'.pc = "fetch" => downloaderThread' = downloaderThread
    BY <1>15 DEF StopMetadata, StopDownloader, Notified, Popping, Thread
  <2> QED
    BY <1>15, <2>1
       DEF StopMetadata, StopDownloader, dbVars, queueVars, mainVars, NamedInv,
           Named, IsCanonical
<1>16. CASE Joined \/ Crash
  BY <1>2, <1>16 DEF Joined, Crash, Die, dbVars
<1>17. CASE StartServer \/ Shutdown \/ PlayNext \/ PassTime \/ UNCHANGED vars
  <2>1. UNCHANGED <<media, others>>
    <3>1. CASE PlayNext
      BY <3>1 DEF PlayNext, PopNextPlaylistItem, queueVars, threadVars, mainVars
    <3>2. CASE PassTime
      BY <3>2 DEF PassTime, Tick, tables, queueVars, threadVars, mainVars
    <3>3. CASE StartServer \/ Shutdown
      BY <3>3 DEF StartServer, Shutdown, dbVars, queueVars, threadVars
    <3>4. CASE UNCHANGED vars
      BY <3>4 DEF vars, dbVars, queueVars, threadVars, mainVars
    <3> QED
      BY <1>17, <3>1, <3>2, <3>3, <3>4
  <2> QED
    BY <2>1 DEF NamedInv, Named, IsCanonical
<1> QED
  BY <1>3, <1>4, <1>5, <1>6, <1>7, <1>8, <1>9, <1>10, <1>11, <1>12, <1>13, <1>14,
     <1>15, <1>16, <1>17
     DEF Next, RequestStep, MetadataStep, DownloadStep, MainStep, Ended

(* However many aliases a video has and whatever races they are submitted  *)
(* in, at most one of its rows gets to be downloaded or played.            *)
THEOREM OneRowIsKept == Spec => []OneRowPerVideo
<1>1. Init => NamedInv
  <2> SUFFICES ASSUME Init PROVE NamedInv
    OBVIOUS
  <2>1. Len(<<>>) = 0
    BY EmptySeq
  <2> QED
    BY <2>1 DEF Init, DbInit, NamedInv, Absent, Thread
<1>2. TypeInv /\ NamedInv => OneRowPerVideo
  BY DEF TypeInv, DbInv, TableConstraints, UrlUnique, NamedInv, Named, IsCanonical,
         OneRowPerVideo
<1> QED
  BY <1>1, <1>2, NamedInvStep, DownloaderTypeInvariant, PTL DEF Spec

=============================================================================
