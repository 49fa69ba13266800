-------------------------- MODULE OwnershipProofs ---------------------------
(***************************************************************************)
(* Proofs that Downloader forgets no media: whoever has a copy of an       *)
(* unfinished row in hand passes it on, so that only a merge the history   *)
(* does not allow, or the data race of startThreads, lets one drop.        *)
(* And that a copy in hand always has its row, unless two URLs are aliases *)
(* of one video.                                                           *)
(***************************************************************************)
EXTENDS DownloaderProofs

-----------------------------------------------------------------------------
(* Who has a copy of a row in hand: Copies, as a case for each of them.    *)
HasInHand(x) ==
  \/ x \in ToSet(metadataQueue) \/ x \in ToSet(downloaderQueue) \/ x \in snapshot
  \/ x = metadataThread.media \/ x = downloaderThread.media
  \/ \E w \in Worker : request[w].pc \in {"retry", "enqueue"} /\ x = request[w].media

(* It is the same in every state, and so after a step.                     *)
LEMMA CopiesAreInHand ==
  ASSUME NEW x
  PROVE  /\ x \in Copies <=> HasInHand(x)
         /\ x \in Copies' <=> HasInHand(x)'
BY DEF Copies, HasInHand

(* What a queue holds.                                                     *)
LEMMA QueueHolds ==
  ASSUME NEW S, NEW q \in Seq(S)
  PROVE  /\ \A x \in S : ToSet(Append(q, x)) = ToSet(q) \cup {x}
         /\ q # <<>> => ToSet(q) = ToSet(Tail(q)) \cup {Head(q)}
         /\ \A p \in Seq(S) : ToSet(q \o p) = ToSet(q) \cup ToSet(p)
<1>1. ASSUME NEW x \in S PROVE ToSet(Append(q, x)) = ToSet(q) \cup {x}
  <2>1. /\ Append(q, x) \in Seq(S) /\ Len(Append(q, x)) = Len(q) + 1
        /\ \A i \in 1 .. Len(q) : Append(q, x)[i] = q[i]
        /\ Append(q, x)[Len(q) + 1] = x
    BY AppendProperties
  <2>2. Len(q) \in Nat /\ DOMAIN q = 1 .. Len(q)
    BY LenProperties
  <2>3. DOMAIN Append(q, x) = 1 .. (Len(q) + 1)
    BY <2>1, LenProperties
  <2>4. \A i : i \in 1 .. (Len(q) + 1) <=> i \in 1 .. Len(q) \/ i = Len(q) + 1
    BY <2>2
  <2>5. \A y \in ToSet(Append(q, x)) : y \in ToSet(q) \cup {x}
    BY <2>1, <2>2, <2>3, <2>4 DEF ToSet
  <2>6. \A y \in ToSet(q) \cup {x} : y \in ToSet(Append(q, x))
    BY <2>1, <2>2, <2>3, <2>4 DEF ToSet
  <2> QED
    BY <2>5, <2>6
<1>2. ASSUME q # <<>> PROVE ToSet(q) = ToSet(Tail(q)) \cup {Head(q)}
  <2>1. /\ Tail(q) \in Seq(S) /\ Len(Tail(q)) = Len(q) - 1
        /\ \A i \in 1 .. Len(Tail(q)) : Tail(q)[i] = q[i + 1]
    BY <1>2, HeadTailProperties
  <2>2. Len(q) \in Nat \ {0} /\ DOMAIN q = 1 .. Len(q)
    BY <1>2, LenProperties, EmptySeq
  <2>3. DOMAIN Tail(q) = 1 .. (Len(q) - 1)
    BY <2>1, LenProperties
  <2>4. Head(q) = q[1]
    BY <1>2
  <2>5. ASSUME NEW i \in DOMAIN q PROVE q[i] \in ToSet(Tail(q)) \cup {Head(q)}
    <3>1. CASE i = 1
      BY <2>4, <3>1
    <3>2. CASE i # 1
      <4>1. i - 1 \in 1 .. (Len(q) - 1) /\ i - 1 + 1 = i
        BY <2>2, <2>5, <3>2
      <4>2. Tail(q)[i - 1] = q[i]
        BY <2>1, <4>1
      <4> QED
        BY <2>3, <4>1, <4>2 DEF ToSet
    <3> QED
      BY <3>1, <3>2
  <2>6. ASSUME NEW i \in DOMAIN Tail(q) PROVE Tail(q)[i] \in ToSet(q)
    <3>1. i + 1 \in 1 .. Len(q) /\ Tail(q)[i] = q[i + 1]
      BY <2>1, <2>2, <2>3, <2>6
    <3> QED
      BY <2>2, <3>1 DEF ToSet
  <2>7. Head(q) \in ToSet(q)
    BY <2>2, <2>4 DEF ToSet
  <2> QED
    BY <2>5, <2>6, <2>7 DEF ToSet
<1>3. ASSUME NEW p \in Seq(S) PROVE ToSet(q \o p) = ToSet(q) \cup ToSet(p)
  <2>1. q \o p \in Seq(S) /\ Len(q \o p) = Len(q) + Len(p)
    BY <1>3, ConcatProperties
  <2>2. Len(q) \in Nat /\ Len(p) \in Nat /\ DOMAIN q = 1 .. Len(q)
        /\ DOMAIN p = 1 .. Len(p)
    BY <1>3, LenProperties
  <2>3. DOMAIN (q \o p) = 1 .. (Len(q) + Len(p))
    BY <2>1, LenProperties
  <2>4. \A i \in 1 .. (Len(q) + Len(p)) :
          (q \o p)[i] = IF i <= Len(q) THEN q[i] ELSE p[i - Len(q)]
    BY <1>3, ConcatProperties
  <2>5. ASSUME NEW i \in 1 .. (Len(q) + Len(p))
        PROVE  (q \o p)[i] \in ToSet(q) \cup ToSet(p)
    <3>1. i \in 1 .. Len(q) \/ (i - Len(q) \in 1 .. Len(p) /\ ~(i <= Len(q)))
      BY <2>2, <2>5
    <3> QED
      BY <2>2, <2>4, <3>1 DEF ToSet
  <2>6. ASSUME NEW i \in 1 .. Len(q) PROVE q[i] \in ToSet(q \o p)
    <3>1. i \in 1 .. (Len(q) + Len(p)) /\ i <= Len(q)
      BY <2>2, <2>6
    <3> QED
      BY <2>3, <2>4, <3>1 DEF ToSet
  <2>7. ASSUME NEW i \in 1 .. Len(p) PROVE p[i] \in ToSet(q \o p)
    <3>1. /\ i + Len(q) \in 1 .. (Len(q) + Len(p)) /\ ~(i + Len(q) <= Len(q))
          /\ i + Len(q) - Len(q) = i
      BY <2>2, <2>7
    <3> QED
      BY <2>3, <2>4, <3>1 DEF ToSet
  <2> QED
    BY <2>2, <2>3, <2>5, <2>6, <2>7 DEF ToSet
<1> QED
  BY <1>1, <1>2, <1>3

(* An enumeration leaves no row out.                                       *)
LEMMA EnumerationHolds ==
  ASSUME NEW rows, IsFiniteSet(rows), NEW s \in SetToSeqs(rows)
  PROVE  ToSet(s) = rows
<1> DEFINE n == Cardinality(rows)
<1>1. n \in Nat /\ IsFiniteSet(1 .. n) /\ Cardinality(1 .. n) = n
  BY FS_CardinalityType, FS_Interval
<1>2. s \in Injection(1 .. n, rows)
  BY DEF SetToSeqs, Injection, IsInjective
<1>3. s \in Surjection(1 .. n, rows)
  BY <1>1, <1>2, FS_Injection
<1> QED
  BY <1>3 DEF Surjection, ToSet

(* What the threads know: startThreads reads rows that are not finished,   *)
(* a thread about to look at its queue has nothing in hand, and before the *)
(* threads are started nothing is queued for the downloader.               *)
HandsInv ==
  /\ \A r \in snapshot : r.status \in Pending
  /\ metadataThread.pc = "pop" => metadataThread.media = NoMedia
  /\ downloaderThread.pc = "pop" => downloaderThread.media = NoMedia
  /\ phase \in {"down", "serving", "loading"} => downloaderQueue = <<>>

(* Every step keeps it; the threads before they start are WakeupInv's.     *)
LEMMA HandsInvStep == WakeupInv /\ HandsInv /\ [Next]_vars => HandsInv'
<1> SUFFICES ASSUME WakeupInv, HandsInv, [Next]_vars PROVE HandsInv'
  OBVIOUS
<1> DEFINE others == <<snapshot, downloaderQueue, downloaderThread, phase>>
<1>1. /\ Absent.pc = "none" /\ Popping.media = NoMedia /\ Waiting.pc = "waiting"
      /\ \A pc, m : Thread(pc, m).pc = pc
      /\ \A t : Notified(t) = t \/ Notified(t) = Popping
  BY DEF Absent, Popping, Waiting, Thread, Notified
<1>2. ASSUME Gone PROVE HandsInv'
  BY <1>1, <1>2 DEF Gone, HandsInv
<1>3. ASSUME UNCHANGED others,
             metadataThread' = metadataThread \/ metadataThread' = Popping
               \/ metadataThread'.pc # "pop"
      PROVE  HandsInv'
  BY <1>1, <1>3 DEF HandsInv
<1>4. ASSUME NEW w \in Worker, (\E url \in Url : AddMedia(w, url)) \/ RequestStep(w)
      PROVE  HandsInv'
  <2>1. CASE Enqueue(w)
    BY <1>1, <1>3, <2>1 DEF Enqueue, mainVars
  <2>2. CASE RacedEnqueue(w)
    <3>1. snapshot' \subseteq snapshot
      BY <2>2 DEF RacedEnqueue
    <3> QED
      BY <2>2, <3>1 DEF RacedEnqueue, threadVars, HandsInv
  <2>3. CASE (\E url \in Url : AddMedia(w, url)) \/ QueueForPlayback(w)
    BY <1>3, <2>3 DEF AddMedia, QueueForPlayback, mainVars, queueVars, threadVars
  <2>4. CASE RetryFailed(w)
    BY <1>2, <1>3, <2>4 DEF RetryFailed, Die, mainVars, queueVars, threadVars
  <2> QED
    BY <1>4, <2>1, <2>2, <2>3, <2>4 DEF RequestStep
<1>5. CASE MetadataPop
  BY <1>1, <1>3, <1>5 DEF MetadataPop, mainVars
<1>6. CASE MetadataUpdate
  <2>1. \A m : AfterMetadata(m) = Popping \/ AfterMetadata(m).pc # "pop"
    BY <1>1 DEF AfterMetadata
  <2> QED
    BY <1>2, <1>3, <1>6, <2>1 DEF MetadataUpdate, Die, mainVars, queueVars
<1>7. CASE MetadataPush
  <2>1. phase \notin {"down", "serving", "loading"}
    BY <1>1, <1>7 DEF MetadataPush, WakeupInv
  <2> QED
    BY <1>1, <1>7, <2>1 DEF MetadataPush, mainVars, HandsInv
<1>8. CASE DownloadPop
  <2>1. phase \notin {"down", "serving", "loading"}
    BY <1>1, <1>8 DEF DownloadPop, WakeupInv
  <2> QED
    BY <1>1, <1>8, <2>1 DEF DownloadPop, mainVars, HandsInv
<1>9. CASE DownloadUpdate
  <2>1. Gone \/ (/\ downloaderThread' = Popping
                 /\ UNCHANGED <<queueVars, metadataThread, mainVars>>)
    BY <1>9 DEF DownloadUpdate, Die
  <2> QED
    BY <1>1, <1>2, <2>1 DEF mainVars, queueVars, HandsInv
<1>10. CASE LoadMedia
  BY <1>10 DEF LoadMedia, queueVars, threadVars, HandsInv
<1>11. CASE StartThreads
  BY <1>1, <1>11 DEF StartThreads, HandsInv
<1>12. CASE StopMetadata \/ StopDownloader
  BY <1>1, <1>12 DEF StopMetadata, StopDownloader, queueVars, mainVars, HandsInv
<1>13. CASE Joined \/ Crash
  BY <1>2, <1>13 DEF Joined, Crash, Die
<1>14. CASE StartServer \/ Shutdown
  BY <1>14 DEF StartServer, Shutdown, queueVars, threadVars, HandsInv
<1>15. CASE PlayNext \/ PassTime \/ UNCHANGED vars
  BY <1>3, <1>15 DEF PlayNext, PassTime, vars, queueVars, threadVars, mainVars
<1> QED
  BY <1>4, <1>5, <1>6, <1>7, <1>8, <1>9, <1>10, <1>11, <1>12, <1>13, <1>14, <1>15
     DEF Next, MetadataStep, DownloadStep, MainStep, Ended

-----------------------------------------------------------------------------
(* After the step somebody has a copy of row id in hand.                   *)
HeldAfter(id) == \E y \in Copies' \ {NoMedia} : y.id = id

(* A step that leaves the rows alone forgets none of them, if whoever had  *)
(* a copy in hand passes it on, or puts it aside because it was refused.   *)
LEMMA NothingIsDropped ==
  ASSUME UNCHANGED media,
         \A x \in Copies \ {NoMedia} : HeldAfter(x.id) \/ Refused(x.id),
         NEW s \in media', Forgotten(s)'
  PROVE  (\E r \in media : r.id = s.id /\ Forgotten(r)) \/ Refused(s.id)
<1>1. s \in media /\ s.status \in Pending /\ ~HeldAfter(s.id)
  BY DEF Forgotten, Owned, HeldAfter
<1>2. CASE Owned(s)
  BY <1>1, <1>2 DEF Owned
<1>3. CASE ~Owned(s)
  BY <1>1, <1>3 DEF Forgotten
<1> QED
  BY <1>2, <1>3

(* Nor does updateMediaInfo, if the copy it wrote goes on to somebody      *)
(* where it is not finished: the row of a merge that is gone needs nobody. *)
LEMMA WriteForgetsNothing ==
  ASSUME NEW m \in MediaInfoId, NEW id, UpdateMediaInfo(m, id),
         \A x \in Copies \ {NoMedia} : x.id = m.id \/ HeldAfter(x.id),
         m.status \in Pending => HeldAfter(id),
         NEW s \in media', Forgotten(s)'
  PROVE  \E r \in media : r.id = s.id /\ Forgotten(r)
<1>1. s.status \in Pending /\ ~HeldAfter(s.id)
  BY DEF Forgotten, Owned, HeldAfter
<1>2. LET r == [m EXCEPT !.id = id] IN r.id = id /\ r.status = m.status
  BY DEF MediaInfoId
<1>3. s # [m EXCEPT !.id = id]
  BY <1>1, <1>2
<1>4. s \in media /\ s.id \notin {m.id, id}
  BY <1>3 DEF UpdateMediaInfo
<1>5. ~Owned(s)
  BY <1>1, <1>4 DEF Owned
<1> QED
  BY <1>1, <1>4, <1>5 DEF Forgotten

(* What a step other than the data race may forget.                        *)
ForgetsOnlyRefused ==
  \A s \in media' : Forgotten(s)' =>
    (\E r \in media : r.id = s.id /\ Forgotten(r)) \/ Refused(s.id)

(* A copy that somebody else has in hand after the step.                   *)
LEMMA HandedOn ==
  ASSUME NEW x, x # NoMedia, HasInHand(x)'
  PROVE  HeldAfter(x.id)
BY CopiesAreInHand DEF HeldAfter

(* The HTTP workers: a new row is enqueued by the worker that made it, a   *)
(* reset one by the worker that reset it, and the queue has it afterwards. *)
LEMMA RequestForgetsNothing ==
  ASSUME TypeInv, NEW w \in Worker, phase' \in Loaded,
         \/ \E url \in Url : AddMedia(w, url)
         \/ RetryFailed(w) \/ Enqueue(w) \/ QueueForPlayback(w)
  PROVE  ForgetsOnlyRefused
<1>1. /\ \A pc, m : Thread(pc, m).pc = pc /\ Thread(pc, m).media = m
      /\ Idle.pc = "idle"
  BY DEF Thread, Idle
<1>2. ASSUME NEW t, request' = [request EXCEPT ![w] = t]
      PROVE  request'[w] = t /\ \A v \in Worker \ {w} : request'[v] = request[v]
  BY <1>2 DEF TypeInv, DownloaderTypeOK
<1>3. ASSUME NEW x \in Copies \ {NoMedia}, UNCHANGED <<queueVars, threadVars, snapshot>>,
             NEW t, request' = [request EXCEPT ![w] = t],
             x = request[w].media => request[w].pc \notin {"retry", "enqueue"}
               \/ HeldAfter(x.id)
      PROVE  HeldAfter(x.id)
  <2>1. HasInHand(x)
    BY CopiesAreInHand
  <2>2. HasInHand(x)' \/ HeldAfter(x.id)
    BY <1>2, <1>3, <2>1 DEF HasInHand, queueVars, threadVars
  <2> QED
    BY <2>2, HandedOn
<1>4. ASSUME NEW url \in Url, AddMedia(w, url) PROVE ForgetsOnlyRefused
  <2>1. PICK row \in RowFor(url) :
          /\ media' = media \cup {row}
          /\ Proceed(w, CASE row.status = "Failed"  -> "retry"
                          [] row.status = "Initial" -> "enqueue"
                          [] OTHER                  -> "playlist", row)
    BY <1>4 DEF AddMedia, GetOrAddMediaByURL
  <2>2. row \in media \/ (row.status = "Initial" /\ row \in MediaInfoId)
    BY <1>4, <2>1 DEF RowFor, MediaInfoId, MediaStatus
  <2>3. request[w] = Idle /\ UNCHANGED <<queueVars, threadVars, snapshot>>
    BY <1>4 DEF AddMedia, mainVars
  <2>4. \A x \in Copies \ {NoMedia} : HeldAfter(x.id)
    BY <1>1, <1>3, <2>1, <2>3 DEF Proceed
  <2>5. ASSUME row \notin media PROVE HeldAfter(row.id)
    <3>1. request' = [request EXCEPT ![w] = Thread("enqueue", row)]
      BY <2>1, <2>2, <2>5 DEF Proceed
    <3>2. HasInHand(row)'
      BY <1>1, <1>2, <3>1 DEF HasInHand
    <3>3. row # NoMedia
      BY <2>2, <2>5, NoMediaAssumption
    <3> QED
      BY <3>2, <3>3, HandedOn
  <2>6. ASSUME NEW s \in media', Forgotten(s)'
        PROVE  \E r \in media : r.id = s.id /\ Forgotten(r)
    <3>1. s.status \in Pending /\ ~HeldAfter(s.id)
      BY <2>6 DEF Forgotten, Owned, HeldAfter
    <3>2. s \in media
      BY <2>1, <2>5, <3>1
    <3>3. ~Owned(s)
      BY <2>4, <3>1 DEF Owned
    <3> QED
      BY <3>1, <3>2, <3>3 DEF Forgotten
  <2> QED
    BY <2>6 DEF ForgetsOnlyRefused
<1>5. CASE RetryFailed(w)
  <2> DEFINE c == request[w].media
             m == [c EXCEPT !.status = "Initial"]
  <2>1. /\ c \in MediaInfoId /\ m \in MediaInfoId
        /\ m.id = c.id /\ m.url = c.url
    BY <1>5 DEF RetryFailed, TypeInv, CopiesInHand, HasCopy, AtWork, MediaInfoId,
                MediaStatus
  <2>2. c \in Copies \ {NoMedia} /\ request[w].pc = "retry"
    BY <1>5, <2>1, NoMediaAssumption DEF RetryFailed, Copies
  <2>3. ~Gone
    BY DEF Gone, Loaded
  <2>4. \/ \E id \in FinalIds(m) :
             /\ UpdateMediaInfo(m, id)
             /\ Proceed(w, "enqueue", [m EXCEPT !.id = id])
             /\ UNCHANGED <<queueVars, threadVars, snapshot>>
        \/ /\ UpdateMediaInfoThrows(m)
           /\ Answer(w)
           /\ UNCHANGED <<media, queueVars, threadVars, snapshot>>
    BY <1>5, <2>3 DEF RetryFailed, Die, dbVars, mainVars
  <2> HIDE DEF m, c
  <2>5. ASSUME NEW id \in FinalIds(m), UpdateMediaInfo(m, id),
               Proceed(w, "enqueue", [m EXCEPT !.id = id]),
               UNCHANGED <<queueVars, threadVars, snapshot>>
        PROVE  ForgetsOnlyRefused
    <3>1. PICK y \in MediaInfoId : y = [m EXCEPT !.id = id]
      BY <2>1, <2>5, FinalIdsKnown DEF TypeInv, DbInv
    <3>2. /\ y # NoMedia /\ y.id = id
          /\ request' = [request EXCEPT ![w] = Thread("enqueue", y)]
      BY <2>1, <2>5, <3>1, NoMediaAssumption DEF MediaInfoId, Proceed
    <3>3. HeldAfter(id)
      <4>1. HasInHand(y)'
        BY <1>1, <1>2, <3>2 DEF HasInHand
      <4> QED
        BY <3>2, <4>1, HandedOn
    <3>4. \A x \in Copies \ {NoMedia} : x # c => HeldAfter(x.id)
      BY <1>3, <2>5, <3>2 DEF c
    <3>5. \A x \in Copies \ {NoMedia} : x.id = m.id \/ HeldAfter(x.id)
      BY <2>1, <3>4
    <3> QED
      BY <2>1, <2>5, <3>3, <3>5, WriteForgetsNothing DEF ForgetsOnlyRefused
  <2>6. CASE /\ UpdateMediaInfoThrows(m)
             /\ Answer(w)
             /\ UNCHANGED <<media, queueVars, threadVars, snapshot>>
    <3>1. Refused(c.id)
      BY <2>1, <2>2, <2>6 DEF UpdateMediaInfoThrows, UrlOwners, Refused
    <3>2. \A x \in Copies \ {NoMedia} : x # c => HeldAfter(x.id)
      BY <1>3, <2>6 DEF c, Answer
    <3> QED
      BY <2>6, <3>1, <3>2, NothingIsDropped DEF ForgetsOnlyRefused
  <2> QED
    BY <2>4, <2>5, <2>6
<1>6. CASE Enqueue(w)
  <2> DEFINE c == request[w].media
  <2>1. c \in MediaInfoId /\ metadataQueue \in Seq(MediaInfoId)
    BY <1>6 DEF Enqueue, TypeInv, DownloaderTypeOK, CopiesInHand, HasCopy, AtWork
  <2>2. ToSet(metadataQueue') = ToSet(metadataQueue) \cup {c}
    BY <1>6, <2>1, QueueHolds DEF Enqueue
  <2>3. metadataThread' = metadataThread \/ metadataThread.media = NoMedia
    BY <1>1, <1>6 DEF Enqueue, Notified, Waiting
  <2>4. UNCHANGED <<media, downloaderQueue, downloaderThread, snapshot>>
    BY <1>6 DEF Enqueue, dbVars, mainVars
  <2>5. request' = [request EXCEPT ![w] = Thread("playlist", c)]
    BY <1>6 DEF Enqueue, Proceed
  <2> HIDE DEF c
  <2>6. ASSUME NEW x \in Copies \ {NoMedia} PROVE HeldAfter(x.id)
    <3>1. HasInHand(x)
      BY CopiesAreInHand
    <3>2. HasInHand(x)'
      BY <1>2, <2>2, <2>3, <2>4, <2>5, <3>1 DEF HasInHand, c
    <3> QED
      BY <3>2, HandedOn
  <2> QED
    BY <2>4, <2>6, NothingIsDropped DEF ForgetsOnlyRefused
<1>7. CASE QueueForPlayback(w)
  <2>1. /\ request[w].pc = "playlist" /\ request' = [request EXCEPT ![w] = Idle]
        /\ UNCHANGED <<media, queueVars, threadVars, snapshot>>
    BY <1>7 DEF QueueForPlayback, AddToPlaylist, Answer, dbVars, mainVars
  <2>2. \A x \in Copies \ {NoMedia} : HeldAfter(x.id)
    BY <1>3, <2>1
  <2> QED
    BY <2>1, <2>2, NothingIsDropped DEF ForgetsOnlyRefused
<1> QED
  BY <1>4, <1>5, <1>6, <1>7

(* The metadata thread: what it pops it fetches, and what it fetched goes  *)
(* to the downloader, unless it Failed or its row was refused.             *)
LEMMA MetadataForgetsNothing ==
  ASSUME TypeInv, HandsInv, phase' \in Loaded, MetadataStep
  PROVE  ForgetsOnlyRefused
<1>1. \A pc, m : Thread(pc, m).pc = pc /\ Thread(pc, m).media = m
  BY DEF Thread
<1>2. ASSUME UNCHANGED <<queueVars, request, snapshot, downloaderThread>>,
             NEW x \in Copies \ {NoMedia}, x # metadataThread.media
      PROVE  HeldAfter(x.id)
  <2>1. HasInHand(x)
    BY CopiesAreInHand
  <2>2. HasInHand(x)'
    BY <1>2, <2>1 DEF HasInHand, queueVars
  <2> QED
    BY <2>2, HandedOn
<1>3. CASE MetadataPop
  <2>1. /\ metadataThread.media = NoMedia /\ metadataQueue \in Seq(MediaInfoId)
        /\ UNCHANGED <<media, request, snapshot, downloaderQueue, downloaderThread>>
    BY <1>3 DEF MetadataPop, HandsInv, TypeInv, DownloaderTypeOK, dbVars,
                requestVars, mainVars
  <2>2. \A x \in ToSet(metadataQueue) :
          x \in ToSet(metadataQueue') \/ x = metadataThread'.media
    <3>1. CASE metadataQueue' = metadataQueue
      BY <3>1
    <3>2. CASE /\ metadataQueue # <<>>
               /\ metadataThread' = Thread("fetch", Head(metadataQueue))
               /\ metadataQueue' = Tail(metadataQueue)
      BY <1>1, <2>1, <3>2, QueueHolds
    <3> QED
      BY <1>3, <3>1, <3>2 DEF MetadataPop
  <2>3. ASSUME NEW x \in Copies \ {NoMedia} PROVE HeldAfter(x.id)
    <3>1. HasInHand(x)
      BY CopiesAreInHand
    <3>2. HasInHand(x)'
      BY <2>1, <2>2, <3>1 DEF HasInHand
    <3> QED
      BY <3>2, HandedOn
  <2> QED
    BY <2>1, <2>3, NothingIsDropped DEF ForgetsOnlyRefused
<1>4. CASE MetadataUpdate
  <2> DEFINE c == metadataThread.media
  <2>1. c \in MediaInfoId
    BY <1>4 DEF MetadataUpdate, TypeInv, CopiesInHand, HasCopy, AtWork
  <2>2. ~Gone
    BY DEF Gone, Loaded
  <2>3. PICK m \in Fetched(c) :
          \/ \E id \in FinalIds(m) :
               /\ UpdateMediaInfo(m, id)
               /\ metadataThread' = AfterMetadata([m EXCEPT !.id = id])
               /\ UNCHANGED <<queueVars, request, snapshot, downloaderThread>>
          \/ /\ UpdateMediaInfoThrows(m)
             /\ metadataThread' = AfterMetadata(m)
             /\ UNCHANGED <<media, queueVars, request, snapshot, downloaderThread>>
    BY <1>4, <2>2 DEF MetadataUpdate, Die, dbVars, requestVars, mainVars
  <2>4. /\ m \in MediaInfoId
        /\ m.id = c.id /\ m.url \in {c.url, Canonical[c.url]}
        /\ m.status \in {"Downloading", "Failed"}
    BY <2>1, FetchedIsRow DEF Fetched, MediaInfoId
  <2>5. c \in Copies \ {NoMedia}
    BY <2>1, NoMediaAssumption DEF Copies
  <2> HIDE DEF c
  <2>6. ASSUME NEW id \in FinalIds(m), UpdateMediaInfo(m, id),
               metadataThread' = AfterMetadata([m EXCEPT !.id = id]),
               UNCHANGED <<queueVars, request, snapshot, downloaderThread>>
        PROVE  ForgetsOnlyRefused
    <3> DEFINE y == [m EXCEPT !.id = id]
    <3>1. y \in MediaInfoId
      BY <2>4, <2>6, FinalIdsKnown DEF TypeInv, DbInv
    <3>2. y # NoMedia /\ y.id = id /\ y.status = m.status
      BY <2>4, <3>1, NoMediaAssumption DEF MediaInfoId
    <3> HIDE DEF y
    <3>3. metadataThread' = AfterMetadata(y)
      BY <2>6 DEF y
    <3>4. m.status \in Pending => HeldAfter(id)
      <4>1. SUFFICES ASSUME m.status = "Downloading" PROVE HeldAfter(id)
        BY <2>4 DEF Pending
      <4>2. metadataThread'.media = y
        BY <1>1, <3>2, <3>3, <4>1 DEF AfterMetadata
      <4>3. HasInHand(y)'
        BY <4>2 DEF HasInHand
      <4> QED
        BY <3>2, <4>3, HandedOn
    <3>5. \A x \in Copies \ {NoMedia} : x.id = m.id \/ HeldAfter(x.id)
      BY <1>2, <2>4, <2>6 DEF c
    <3> QED
      BY <2>4, <2>6, <3>4, <3>5, WriteForgetsNothing DEF ForgetsOnlyRefused
  <2>7. CASE /\ UpdateMediaInfoThrows(m)
             /\ metadataThread' = AfterMetadata(m)
             /\ UNCHANGED <<media, queueVars, request, snapshot, downloaderThread>>
    <3>1. Refused(c.id)
      BY <2>4, <2>5, <2>7 DEF UpdateMediaInfoThrows, UrlOwners, Refused
    <3>2. \A x \in Copies \ {NoMedia} : HeldAfter(x.id) \/ Refused(x.id)
      BY <1>2, <2>7, <3>1 DEF c
    <3> QED
      BY <2>7, <3>2, NothingIsDropped DEF ForgetsOnlyRefused
  <2> QED
    BY <2>3, <2>6, <2>7
<1>5. CASE MetadataPush
  <2> DEFINE c == metadataThread.media
  <2>1. c \in MediaInfoId /\ downloaderQueue \in Seq(MediaInfoId)
    BY <1>5 DEF MetadataPush, TypeInv, DownloaderTypeOK, CopiesInHand, HasCopy, AtWork
  <2>2. ToSet(downloaderQueue') = ToSet(downloaderQueue) \cup {c}
    BY <1>5, <2>1, QueueHolds DEF MetadataPush
  <2>3. downloaderThread' = downloaderThread \/ downloaderThread.media = NoMedia
    BY <1>1, <1>5 DEF MetadataPush, Notified, Waiting
  <2>4. UNCHANGED <<media, request, metadataQueue, snapshot>>
    BY <1>5 DEF MetadataPush, dbVars, requestVars, mainVars
  <2> HIDE DEF c
  <2>5. ASSUME NEW x \in Copies \ {NoMedia} PROVE HeldAfter(x.id)
    <3>1. HasInHand(x)
      BY CopiesAreInHand
    <3>2. HasInHand(x)'
      BY <2>2, <2>3, <2>4, <3>1 DEF HasInHand, c
    <3> QED
      BY <3>2, HandedOn
  <2> QED
    BY <2>4, <2>5, NothingIsDropped DEF ForgetsOnlyRefused
<1> QED
  BY <1>3, <1>4, <1>5 DEF MetadataStep

(* The downloader thread: what it pops it downloads, and what it writes is *)
(* Ready or Failed.                                                        *)
LEMMA DownloadForgetsNothing ==
  ASSUME TypeInv, HandsInv, phase' \in Loaded, DownloadStep
  PROVE  ForgetsOnlyRefused
<1>1. \A pc, m : Thread(pc, m).pc = pc /\ Thread(pc, m).media = m
  BY DEF Thread
<1>2. CASE DownloadPop
  <2>1. /\ downloaderThread.media = NoMedia /\ downloaderQueue \in Seq(MediaInfoId)
        /\ UNCHANGED <<media, request, snapshot, metadataQueue, metadataThread>>
    BY <1>2 DEF DownloadPop, HandsInv, TypeInv, DownloaderTypeOK, dbVars,
                requestVars, mainVars
  <2>2. \A x \in ToSet(downloaderQueue) :
          x \in ToSet(downloaderQueue') \/ x = downloaderThread'.media
    <3>1. CASE downloaderQueue' = downloaderQueue
      BY <3>1
    <3>2. CASE /\ downloaderQueue # <<>>
               /\ downloaderThread' = Thread("fetch", Head(downloaderQueue))
               /\ downloaderQueue' = Tail(downloaderQueue)
      BY <1>1, <2>1, <3>2, QueueHolds
    <3> QED
      BY <1>2, <3>1, <3>2 DEF DownloadPop
  <2>3. ASSUME NEW x \in Copies \ {NoMedia} PROVE HeldAfter(x.id)
    <3>1. HasInHand(x)
      BY CopiesAreInHand
    <3>2. HasInHand(x)'
      BY <2>1, <2>2, <3>1 DEF HasInHand
    <3> QED
      BY <3>2, HandedOn
  <2> QED
    BY <2>1, <2>3, NothingIsDropped DEF ForgetsOnlyRefused
<1>3. CASE DownloadUpdate
  <2> DEFINE c == downloaderThread.media
  <2>1. c \in MediaInfoId
    BY <1>3 DEF DownloadUpdate, TypeInv, CopiesInHand, HasCopy, AtWork
  <2>2. ~Gone
    BY DEF Gone, Loaded
  <2>3. PICK m \in Downloaded(c) :
          /\ \/ \E id : UpdateMediaInfo(m, id)
             \/ UpdateMediaInfoThrows(m) /\ UNCHANGED media
          /\ UNCHANGED <<queueVars, request, snapshot, metadataThread>>
    BY <1>3, <2>2 DEF DownloadUpdate, Die, dbVars, requestVars, mainVars
  <2>4. /\ m \in MediaInfoId
        /\ m.id = c.id /\ m.url \in {c.url, Canonical[c.url]}
        /\ m.status \in {"Ready", "Failed"}
    <3>1. PICK url \in {c.url, Canonical[c.url]}, status \in {"Ready", "Failed"} :
            m = [c EXCEPT !.url = url, !.status = status]
      BY DEF Downloaded
    <3>2. m \in MediaInfoId
      BY <2>1, FetchedIsRow
    <3> QED
      BY <2>1, <3>1, <3>2 DEF MediaInfoId
  <2>5. c \in Copies \ {NoMedia}
    BY <2>1, NoMediaAssumption DEF Copies
  <2>6. ASSUME NEW x \in Copies \ {NoMedia}, x # c PROVE HeldAfter(x.id)
    <3>1. HasInHand(x)
      BY CopiesAreInHand
    <3>2. HasInHand(x)'
      BY <2>3, <2>6, <3>1 DEF HasInHand, queueVars
    <3> QED
      BY <3>2, HandedOn
  <2> HIDE DEF c
  <2>7. ASSUME NEW id, UpdateMediaInfo(m, id) PROVE ForgetsOnlyRefused
    <3>1. \A x \in Copies \ {NoMedia} : x.id = m.id \/ HeldAfter(x.id)
      BY <2>4, <2>6
    <3>2. m.status \notin Pending
      BY <2>4 DEF Pending
    <3> QED
      BY <2>4, <2>7, <3>1, <3>2, WriteForgetsNothing DEF ForgetsOnlyRefused
  <2>8. CASE UpdateMediaInfoThrows(m) /\ UNCHANGED media
    <3>1. Refused(c.id)
      BY <2>4, <2>5, <2>8 DEF UpdateMediaInfoThrows, UrlOwners, Refused
    <3>2. \A x \in Copies \ {NoMedia} : HeldAfter(x.id) \/ Refused(x.id)
      BY <2>6, <3>1
    <3> QED
      BY <2>8, <3>2, NothingIsDropped DEF ForgetsOnlyRefused
  <2> QED
    BY <2>3, <2>7, <2>8
<1> QED
  BY <1>2, <1>3 DEF DownloadStep

(* When startThreads has read the table, every unfinished row is in hand.  *)
LEMMA LoadMediaTakesAll ==
  ASSUME TypeInv, LoadMedia, NEW s \in media', s.status \in Pending
  PROVE  Owned(s)'
<1>1. s \in snapshot' /\ s \in MediaInfoId
  BY DEF LoadMedia, dbVars, TypeInv, DbInv, DbTypeOK
<1>2. HasInHand(s)'
  BY <1>1 DEF HasInHand
<1> QED
  BY <1>1, <1>2, NoMediaAssumption, CopiesAreInHand DEF Owned

(* startThreads reads every unfinished row, and queues every row it read.  *)
(* Nobody else drops one, and where the phase is left to be Loaded nothing *)
(* has to be said.                                                         *)
LEMMA MainForgetsNothing ==
  ASSUME TypeInv, WakeupInv, HandsInv, phase' \in Loaded,
         MainStep \/ StartServer \/ Shutdown \/ Crash \/ PlayNext \/ PassTime
           \/ UNCHANGED vars
  PROVE  ForgetsOnlyRefused
<1>1. CASE LoadMedia
  BY <1>1, LoadMediaTakesAll DEF ForgetsOnlyRefused, Forgotten
<1>2. CASE StartThreads
  <2> DEFINE of(status) == {r \in snapshot : r.status = status}
  <2>1. \A status : /\ of(status) \subseteq MediaInfoId
                    /\ IsFiniteSet(of(status))
    <3>1. snapshot \subseteq MediaInfoId /\ IsFiniteSet(snapshot)
      BY DEF TypeInv, DownloaderTypeOK, CopiesInHand
    <3>2. \A status : of(status) \subseteq snapshot
      OBVIOUS
    <3> HIDE DEF of
    <3> QED
      BY <3>1, <3>2, FS_Subset
  <2>2. PICK rows \in SetToSeqs(of("Initial")) : metadataQueue' = metadataQueue \o rows
    BY <1>2 DEF StartThreads
  <2>3. downloaderQueue' \in SetToSeqs(of("Downloading"))
    BY <1>2 DEF StartThreads
  <2>4. /\ phase = "loading" /\ UNCHANGED <<media, request>>
    BY <1>2 DEF StartThreads, dbVars, requestVars
  <2>5. \A r \in snapshot : r \in of("Initial") \/ r \in of("Downloading")
    BY DEF HandsInv, Pending
  <2> HIDE DEF of
  <2>6. ToSet(metadataQueue') = ToSet(metadataQueue) \cup of("Initial")
    <3>1. rows \in Seq(MediaInfoId) /\ ToSet(rows) = of("Initial")
      BY <2>1, EnumerationIsSeq, EnumerationHolds
    <3>2. metadataQueue \in Seq(MediaInfoId)
      BY DEF TypeInv, DownloaderTypeOK
    <3> QED
      BY <2>2, <3>1, <3>2, QueueHolds
  <2>7. ToSet(downloaderQueue') = of("Downloading")
    BY <2>1, <2>3, EnumerationHolds
  <2>8. /\ downloaderQueue = <<>>
        /\ metadataThread.media = NoMedia /\ downloaderThread.media = NoMedia
    BY <2>4 DEF HandsInv, WakeupInv, Absent, Thread
  <2>9. ToSet(<<>>) = {}
    BY DEF ToSet
  <2>10. ASSUME NEW x \in Copies \ {NoMedia} PROVE HeldAfter(x.id)
    <3>1. HasInHand(x)
      BY CopiesAreInHand
    <3>2. HasInHand(x)'
      BY <2>4, <2>5, <2>6, <2>7, <2>8, <2>9, <3>1 DEF HasInHand
    <3> QED
      BY <3>2, HandedOn
  <2> QED
    BY <2>4, <2>10, NothingIsDropped DEF ForgetsOnlyRefused
<1>3. CASE Shutdown \/ PlayNext \/ PassTime \/ UNCHANGED vars
  <2>1. UNCHANGED <<media, queueVars, metadataThread, downloaderThread, request, snapshot>>
    <3>1. CASE Shutdown
      BY <3>1 DEF Shutdown, dbVars, requestVars, threadVars
    <3>2. CASE PlayNext
      BY <3>2 DEF PlayNext, PopNextPlaylistItem, requestVars, threadVars, mainVars
    <3>3. CASE PassTime
      BY <3>3 DEF PassTime, Tick, tables, requestVars, threadVars, mainVars
    <3>4. CASE UNCHANGED vars
      BY <3>4 DEF vars, dbVars, requestVars, threadVars, mainVars
    <3> QED
      BY <1>3, <3>1, <3>2, <3>3, <3>4
  <2>2. ASSUME NEW x \in Copies \ {NoMedia} PROVE HeldAfter(x.id)
    <3>1. HasInHand(x)
      BY CopiesAreInHand
    <3>2. HasInHand(x)'
      BY <2>1, <3>1 DEF HasInHand, queueVars
    <3> QED
      BY <3>2, HandedOn
  <2> QED
    BY <2>1, <2>2, NothingIsDropped DEF ForgetsOnlyRefused
<1>4. CASE StopMetadata \/ StopDownloader \/ Joined \/ StartServer \/ Crash
  BY <1>4 DEF StopMetadata, StopDownloader, mainVars, Joined, StartServer, Crash, Die,
              Gone, Loaded
<1> QED
  BY <1>1, <1>2, <1>3, <1>4 DEF MainStep

(* Whatever races there are, a media that is not finished drops out of all *)
(* hands only if its merge is refused or a push races with startThreads.   *)
LEMMA StepForgetsOnlyRefused ==
  ASSUME TypeInv, WakeupInv, HandsInv, [Next]_vars, phase' \in Loaded
  PROVE  ForgetsOnlyRefused \/ \E w \in Worker : RacedEnqueue(w)
BY RequestForgetsNothing, MetadataForgetsNothing, DownloadForgetsNothing,
   MainForgetsNothing
   DEF Next, RequestStep, Ended

(* Both invariants hold at first.                                          *)
LEMMA HandsInvInit == Init => WakeupInv /\ HandsInv
BY NotWaiting DEF Init, WakeupInv, NoLostWakeup, HandsInv, Absent, Thread

(* For any aliases, workers and bounds: no queue, thread or request loses  *)
(* an unfinished media, but for a refused merge and the data race.         *)
THEOREM OnlyRefusedAreForgotten == Spec => OnlyRefusedIsForgotten
<1>1. TypeInv /\ WakeupInv /\ HandsInv /\ [Next]_vars
      => [phase' \in Loaded =>
            \A s \in media' : Forgotten(s)' =>
              \/ \E r \in media : r.id = s.id /\ Forgotten(r)
              \/ Refused(s.id)
              \/ \E w \in Worker : RacedEnqueue(w)]_vars
  BY StepForgetsOnlyRefused DEF ForgetsOnlyRefused
<1> QED
  BY <1>1, HandsInvInit, HandsInvStep, WakeupInvStep, DownloaderTypeInvariant, PTL
     DEF Spec, OnlyRefusedIsForgotten

-----------------------------------------------------------------------------
(* What has been played stays in the history.                              *)
LEMMA PlayedStays ==
  ASSUME DbTypeOK, [DbNext]_dbVars, NEW id, Played(id)
  PROVE  Played(id)'
<1>1. PICK h \in history : h.media = id
  BY DEF Played
<1>2. CASE history \subseteq history'
  BY <1>1, <1>2 DEF Played
<1>3. ASSUME NEW i, NEW reason, NEW skipCount, NEW skipsNeeded,
             PlaylistItemFinished(i, reason, skipCount, skipsNeeded)
      PROVE  Played(id)'
  <2> DEFINE g == [h EXCEPT !.finishReason = reason, !.skipCount = skipCount,
                            !.skipsNeeded = skipsNeeded]
  <2>1. g.media = id
    BY <1>1 DEF DbTypeOK, HistoryItem
  <2>2. g \in history' \/ h \in history'
    BY <1>1, <1>3 DEF PlaylistItemFinished
  <2> HIDE DEF g
  <2> QED
    BY <1>1, <2>1, <2>2 DEF Played
<1>4. ASSUME NEW item, PopNextPlaylistItem(item) PROVE history \subseteq history'
  BY <1>4 DEF PopNextPlaylistItem
<1>5. CASE UNCHANGED history
  BY <1>2, <1>5
<1>6. \/ UNCHANGED history
      \/ \E item : PopNextPlaylistItem(item)
      \/ \E i, reason, skipCount, skipsNeeded :
           PlaylistItemFinished(i, reason, skipCount, skipsNeeded)
  BY DEF DbNext, GetOrAddMediaByURL, AddToPlaylist, UpdateMediaInfo, Tick, tables,
         dbVars
<1> QED
  BY <1>2, <1>3, <1>4, <1>5, <1>6

(* If the server takes no request before startThreads has returned, no     *)
(* worker is busy before that.                                             *)
BusyInv ==
  ~EarlyRequests /\ phase \in {"down", "serving", "loading"} =>
    \A w \in Worker : request[w] = Idle

(* A request begins only where Serving allows it.                          *)
LEMMA BusyInvStep == TypeInv /\ BusyInv /\ [Next]_vars => BusyInv'
<1> SUFFICES ASSUME TypeInv, BusyInv, [Next]_vars, ~EarlyRequests PROVE BusyInv'
  BY DEF BusyInv
<1> DEFINE early == phase \in {"down", "serving", "loading"}
<1>1. ASSUME Gone PROVE BusyInv'
  BY <1>1 DEF Gone, AllIdle, BusyInv
<1>2. ASSUME UNCHANGED <<request, phase>> PROVE BusyInv'
  BY <1>2 DEF BusyInv
<1>3. ASSUME NEW w \in Worker, (\E url \in Url : AddMedia(w, url)) \/ RequestStep(w)
      PROVE  BusyInv'
  <2>1. Gone \/ UNCHANGED phase
    BY <1>3 DEF RequestStep, AddMedia, RetryFailed, Enqueue, RacedEnqueue,
                QueueForPlayback, Die, mainVars
  <2>2. ~early
    <3>1. CASE \E url \in Url : AddMedia(w, url)
      BY <3>1 DEF AddMedia, Serving
    <3>2. CASE RequestStep(w)
      <4>1. request[w].pc # "idle"
        BY <3>2 DEF RequestStep, RetryFailed, Enqueue, RacedEnqueue, QueueForPlayback
      <4> QED
        BY <4>1 DEF BusyInv, Idle, Thread
    <3> QED
      BY <1>3, <3>1, <3>2
  <2> QED
    BY <1>1, <2>1, <2>2 DEF BusyInv
<1>4. CASE MetadataStep \/ DownloadStep
  BY <1>1, <1>2, <1>4
     DEF MetadataStep, DownloadStep, MetadataPop, MetadataUpdate, MetadataPush,
         DownloadPop, DownloadUpdate, Die, mainVars, requestVars
<1>5. CASE MainStep \/ StartServer \/ Shutdown \/ Crash
  <2>1. \/ Gone
        \/ /\ UNCHANGED request
           /\ early \/ phase' \notin {"down", "serving", "loading"}
    BY <1>5 DEF MainStep, LoadMedia, StartThreads, StopMetadata, StopDownloader,
                Joined, StartServer, Shutdown, Crash, Die, requestVars, mainVars
  <2> QED
    BY <1>1, <2>1 DEF BusyInv
<1>6. CASE PlayNext \/ PassTime \/ UNCHANGED vars
  BY <1>2, <1>6 DEF PlayNext, PassTime, vars, mainVars, requestVars
<1> QED
  BY <1>3, <1>4, <1>5, <1>6 DEF Next, Ended

(* Only startThreads leads to a phase in which the tables are loaded.      *)
LEMMA LoadedByLoadMedia ==
  ASSUME [Next]_vars, phase \notin Loaded, phase' \in Loaded
  PROVE  LoadMedia
<1>1. ~Gone /\ phase' # phase
  BY DEF Gone, Loaded
<1>2. \A w \in Worker, url \in Url : ~AddMedia(w, url)
  BY <1>1 DEF AddMedia, mainVars
<1>3. \A w \in Worker : ~RequestStep(w)
  BY <1>1 DEF RequestStep, RetryFailed, Enqueue, RacedEnqueue, QueueForPlayback, Die,
              mainVars
<1>4. ~MetadataStep /\ ~DownloadStep
  BY <1>1 DEF MetadataStep, DownloadStep, MetadataPop, MetadataUpdate, MetadataPush,
              DownloadPop, DownloadUpdate, Die, mainVars
<1>5. ~(PlayNext \/ PassTime \/ UNCHANGED vars)
  BY <1>1 DEF PlayNext, PassTime, vars, mainVars
<1>6. MainStep \/ StartServer \/ Shutdown \/ Crash
  BY <1>2, <1>3, <1>4, <1>5 DEF Next, Ended
<1> QED
  BY <1>1, <1>6 DEF MainStep, StartThreads, StopMetadata, StopDownloader, Joined,
                    StartServer, Shutdown, Crash, Die, Loaded, mainVars

(* The inductive invariant for PendingIsOwned.                             *)
OwnedInv == BusyInv /\ (~EarlyRequests => PendingIsOwned)

(* What becomes forgotten was so before, or was refused, and is Played.    *)
LEMMA OwnedInvStep ==
  TypeInv /\ WakeupInv /\ HandsInv /\ OwnedInv /\ [Next]_vars => OwnedInv'
<1> SUFFICES ASSUME TypeInv, WakeupInv, HandsInv, OwnedInv, [Next]_vars
             PROVE  OwnedInv'
  OBVIOUS
<1>1. BusyInv'
  BY BusyInvStep DEF OwnedInv
<1>2. ASSUME ~EarlyRequests, phase' \in Loaded, NEW s \in media', Forgotten(s)'
      PROVE  Played(s.id)'
  <2>1. ~LoadMedia
    BY <1>2, LoadMediaTakesAll DEF Forgotten
  <2>2. phase \in Loaded
    BY <1>2, <2>1, LoadedByLoadMedia
  <2>3. \A w \in Worker : ~RacedEnqueue(w)
    BY <1>2 DEF OwnedInv, BusyInv, RacedEnqueue, Idle, Thread
  <2>4. (\E r \in media : r.id = s.id /\ Forgotten(r)) \/ Refused(s.id)
    BY <1>2, <2>3, StepForgetsOnlyRefused DEF ForgetsOnlyRefused
  <2>5. Played(s.id)
    BY <1>2, <2>2, <2>4 DEF OwnedInv, PendingIsOwned, Refused
  <2>6. DbTypeOK /\ [DbNext]_dbVars
    BY TypeInvStep DEF TypeInv, DbInv
  <2> QED
    BY <2>5, <2>6, PlayedStays
<1> QED
  BY <1>1, <1>2 DEF OwnedInv, PendingIsOwned

(* If no request comes before startThreads has returned, a media that has  *)
(* never been played and is not finished is always in a queue, a thread or *)
(* a request, through crashes and restarts and for any aliases.            *)
THEOREM PendingAreOwned == Spec => [](~EarlyRequests => PendingIsOwned)
<1>1. Init => OwnedInv
  BY DEF Init, DbInit, OwnedInv, BusyInv, PendingIsOwned, AllIdle
<1>2. OwnedInv => (~EarlyRequests => PendingIsOwned)
  BY DEF OwnedInv
<1> QED
  BY <1>1, <1>2, HandsInvInit, HandsInvStep, WakeupInvStep, OwnedInvStep,
     DownloaderTypeInvariant, PTL
     DEF Spec

-----------------------------------------------------------------------------
(* Where no two URLs name one video, no row ever goes away, and every copy *)
(* in hand has a row with its id and its URL.                              *)
NoAliases == \A url \in Url : Canonical[url] = url

HasRow(x) == \E r \in media : r.id = x.id /\ r.url = x.url
HasRowAfter(x) == \E r \in media' : r.id = x.id /\ r.url = x.url

KeptInv ==
  NoAliases => /\ \A x \in Copies \ {NoMedia} : HasRow(x)
               /\ aborted # "no row"

(* A copy with its row's URL is written back to that row.                  *)
LEMMA WriteKeepsRows ==
  ASSUME TypeInv, NEW m \in MediaInfoId, HasRow(m)
  PROVE  /\ UrlOwners(m) = {} /\ FinalIds(m) = {m.id} /\ Known(m.id)
         /\ \A id \in FinalIds(m) : UpdateMediaInfo(m, id) =>
              \A r \in media : HasRowAfter(r)
<1>1. PICK q \in media : q.id = m.id /\ q.url = m.url
  BY DEF HasRow
<1>2. /\ \A r \in media : r.url = q.url => r = q
      /\ \A r \in media : r.id = q.id => r = q
  BY DEF TypeInv, DbInv, TableConstraints, UrlUnique, PrimaryKeys, KeysUnique
<1>3. UrlOwners(m) = {} /\ FinalIds(m) = {m.id} /\ Known(m.id)
  BY <1>1, <1>2 DEF UrlOwners, FinalIds, Known
<1>4. ASSUME UpdateMediaInfo(m, m.id), NEW r \in media PROVE HasRowAfter(r)
  <2>1. media' = {s \in media : s.id # m.id} \cup {m}
    <3>1. [m EXCEPT !.id = m.id] = m
      BY DEF MediaInfoId
    <3> QED
      BY <1>4, <3>1 DEF UpdateMediaInfo
  <2> QED
    BY <1>1, <1>2, <2>1 DEF HasRowAfter
<1> QED
  BY <1>3, <1>4

(* It is enough that rows keep id and URL, and that each copy comes from   *)
(* another one with these, or from a row.                                  *)
LEMMA CopiesKeepRows ==
  ASSUME \A x \in Copies \ {NoMedia} : HasRow(x),
         \A r \in media : HasRowAfter(r),
         aborted' # "no row",
         \A y : HasInHand(y)' /\ y # NoMedia =>
           \/ HasRowAfter(y)
           \/ \E x : HasInHand(x) /\ x # NoMedia /\ x.id = y.id /\ x.url = y.url
  PROVE  KeptInv'
<1>1. ASSUME NEW y, y \in Copies', y # NoMedia PROVE HasRowAfter(y)
  <2>1. HasInHand(y)'
    BY <1>1, CopiesAreInHand
  <2>2. CASE \E x : HasInHand(x) /\ x # NoMedia /\ x.id = y.id /\ x.url = y.url
    <3>1. PICK x : x \in Copies \ {NoMedia} /\ x.id = y.id /\ x.url = y.url
      BY <2>2, CopiesAreInHand
    <3>2. PICK r \in media : r.id = x.id /\ r.url = x.url
      BY <3>1 DEF HasRow
    <3> QED
      BY <3>1, <3>2 DEF HasRowAfter
  <2> QED
    BY <1>1, <2>1, <2>2
<1>2. \A y \in Copies' \ {NoMedia} : \E r \in media' : r.id = y.id /\ r.url = y.url
  BY <1>1 DEF HasRowAfter
<1> QED
  BY <1>2 DEF KeptInv, HasRow

(* An empty queue holds nothing.                                           *)
LEMMA EmptyHoldsNothing == ToSet(<<>>) = {}
BY DEF ToSet

(* When the process is gone nobody has anything in hand.                   *)
LEMMA GoneKeepsRows == Gone /\ aborted' # "no row" => KeptInv'
<1> SUFFICES ASSUME Gone, aborted' # "no row" PROVE KeptInv'
  OBVIOUS
<1>1. ASSUME NEW y, HasInHand(y)' PROVE y = NoMedia
  <2>1. ToSet(<<>>) = {}
    BY EmptyHoldsNothing
  <2>2. /\ \A w \in Worker : request'[w] = Idle
        /\ Idle.pc = "idle" /\ Absent.media = NoMedia
    BY DEF Gone, AllIdle, Idle, Absent, Thread
  <2> QED
    BY <1>1, <2>1, <2>2 DEF HasInHand, Gone
<1>2. Copies' \ {NoMedia} = {}
  BY <1>1, CopiesAreInHand
<1> QED
  BY <1>2 DEF KeptInv

(* The HTTP workers.                                                       *)
LEMMA RequestKeepsRows ==
  ASSUME TypeInv, KeptInv, NoAliases, NEW w \in Worker,
         (\E url \in Url : AddMedia(w, url)) \/ RequestStep(w)
  PROVE  KeptInv'
<1>1. /\ \A pc, m : Thread(pc, m).pc = pc /\ Thread(pc, m).media = m
      /\ Idle.pc = "idle"
  BY DEF Thread, Idle
<1>2. ASSUME NEW t, request' = [request EXCEPT ![w] = t]
      PROVE  request'[w] = t /\ \A v \in Worker \ {w} : request'[v] = request[v]
  BY <1>2 DEF TypeInv, DownloaderTypeOK
<1>3. (\A x \in Copies \ {NoMedia} : HasRow(x)) /\ aborted # "no row"
  BY DEF KeptInv
<1>4. UNCHANGED media => \A r \in media : HasRowAfter(r)
  BY DEF HasRowAfter
<1>5. ASSUME NEW url \in Url, AddMedia(w, url) PROVE KeptInv'
  <2>1. PICK row \in RowFor(url), pc \in {"retry", "enqueue", "playlist"} :
          /\ media' = media \cup {row}
          /\ request' = [request EXCEPT ![w] = Thread(pc, row)]
    BY <1>5 DEF AddMedia, GetOrAddMediaByURL, Proceed
  <2>2. UNCHANGED <<queueVars, threadVars, snapshot, aborted>>
    BY <1>5 DEF AddMedia, mainVars
  <2>3. HasRowAfter(row) /\ \A r \in media : HasRowAfter(r)
    BY <2>1 DEF HasRowAfter
  <2>4. \A y : HasInHand(y)' => y = row \/ HasInHand(y)
    BY <1>1, <1>2, <2>1, <2>2 DEF HasInHand, queueVars, threadVars
  <2> QED
    BY <1>3, <2>2, <2>3, <2>4, CopiesKeepRows
<1>6. CASE RetryFailed(w)
  <2> DEFINE c == request[w].media
             m == [c EXCEPT !.status = "Initial"]
  <2>1. /\ c \in MediaInfoId /\ m \in MediaInfoId
        /\ m.id = c.id /\ m.url = c.url
    BY <1>6 DEF RetryFailed, TypeInv, CopiesInHand, HasCopy, AtWork, MediaInfoId,
                MediaStatus
  <2>2. HasInHand(c) /\ c # NoMedia
    BY <1>6, <2>1, NoMediaAssumption DEF RetryFailed, HasInHand
  <2>3. HasRow(m)
    BY <1>3, <2>1, <2>2, CopiesAreInHand DEF HasRow
  <2>4. \/ \E id \in FinalIds(m) :
             /\ UpdateMediaInfo(m, id)
             /\ request' = [request EXCEPT ![w] = Thread("enqueue", [m EXCEPT !.id = id])]
             /\ UNCHANGED <<queueVars, threadVars, snapshot, aborted>>
        \/ UpdateMediaInfoThrows(m) \/ UpdateMediaInfoAborts(m)
    BY <1>6 DEF RetryFailed, Proceed, mainVars
  <2> HIDE DEF m, c
  <2>5. /\ UpdateMediaInfo(m, m.id)
        /\ request' = [request EXCEPT ![w] = Thread("enqueue", [m EXCEPT !.id = m.id])]
        /\ UNCHANGED <<queueVars, threadVars, snapshot, aborted>>
    BY <2>1, <2>3, <2>4, WriteKeepsRows
    DEF UpdateMediaInfoThrows, UpdateMediaInfoAborts
  <2>6. PICK z : z = [m EXCEPT !.id = m.id]
    OBVIOUS
  <2>7. z.id = c.id /\ z.url = c.url
    BY <2>1, <2>6 DEF MediaInfoId
  <2>8. \A r \in media : HasRowAfter(r)
    BY <2>1, <2>3, <2>5, WriteKeepsRows
  <2>9. \A y : HasInHand(y)' => y = z \/ HasInHand(y)
    BY <1>1, <1>2, <2>5, <2>6 DEF HasInHand, queueVars, threadVars
  <2> QED
    BY <1>3, <2>2, <2>5, <2>7, <2>8, <2>9, CopiesKeepRows
<1>7. CASE Enqueue(w) \/ RacedEnqueue(w)
  <2> DEFINE c == request[w].media
  <2>1. c \in MediaInfoId /\ metadataQueue \in Seq(MediaInfoId)
    BY <1>7 DEF Enqueue, RacedEnqueue, TypeInv, DownloaderTypeOK, CopiesInHand,
                HasCopy, AtWork
  <2>2. HasInHand(c)
    BY <1>7 DEF Enqueue, RacedEnqueue, HasInHand
  <2>3. \A y \in ToSet(metadataQueue') : y \in ToSet(metadataQueue) \/ y = c
    <3>1. \/ metadataQueue' = Append(metadataQueue, c)
          \/ metadataQueue' = metadataQueue
      BY <1>7 DEF Enqueue, RacedEnqueue
    <3>2. ToSet(Append(metadataQueue, c)) = ToSet(metadataQueue) \cup {c}
      BY <2>1, QueueHolds
    <3> QED
      BY <3>1, <3>2
  <2>4. /\ metadataThread' = metadataThread \/ metadataThread'.media = NoMedia
        /\ UNCHANGED <<media, downloaderQueue, downloaderThread, aborted>>
        /\ snapshot' \subseteq snapshot
        /\ request' = [request EXCEPT ![w] = Thread("playlist", c)]
    BY <1>1, <1>7 DEF Enqueue, RacedEnqueue, Notified, Popping, Proceed, dbVars,
                      threadVars, mainVars
  <2>5. ASSUME NEW y, HasInHand(y)', y # NoMedia PROVE HasInHand(y)
    BY <1>1, <1>2, <2>2, <2>3, <2>4, <2>5 DEF HasInHand
  <2> QED
    BY <1>3, <1>4, <2>4, <2>5, CopiesKeepRows
<1>8. CASE QueueForPlayback(w)
  <2>1. /\ request' = [request EXCEPT ![w] = Idle]
        /\ UNCHANGED <<media, queueVars, threadVars, snapshot, aborted>>
    BY <1>8 DEF QueueForPlayback, AddToPlaylist, Answer, dbVars, mainVars
  <2>2. \A y : HasInHand(y)' => HasInHand(y)
    BY <1>1, <1>2, <2>1 DEF HasInHand, queueVars, threadVars
  <2> QED
    BY <1>3, <1>4, <2>1, <2>2, CopiesKeepRows
<1> QED
  BY <1>5, <1>6, <1>7, <1>8 DEF RequestStep

(* The metadata thread: what it learns is the URL it had.                  *)
LEMMA MetadataKeepsRows ==
  ASSUME TypeInv, KeptInv, NoAliases, MetadataStep
  PROVE  KeptInv'
<1>1. \A pc, m : Thread(pc, m).pc = pc /\ Thread(pc, m).media = m
  BY DEF Thread
<1>2. (\A x \in Copies \ {NoMedia} : HasRow(x)) /\ aborted # "no row"
  BY DEF KeptInv
<1>3. UNCHANGED media => \A r \in media : HasRowAfter(r)
  BY DEF HasRowAfter
<1>4. CASE MetadataPop
  <2>1. /\ metadataQueue \in Seq(MediaInfoId)
        /\ UNCHANGED <<media, request, aborted>>
        /\ UNCHANGED <<snapshot, downloaderQueue, downloaderThread>>
    BY <1>4 DEF MetadataPop, TypeInv, DownloaderTypeOK, dbVars, requestVars, mainVars
  <2>2. /\ \A y \in ToSet(metadataQueue') : y \in ToSet(metadataQueue)
        /\ \/ metadataThread'.media = NoMedia
           \/ metadataThread'.media \in ToSet(metadataQueue)
    <3>1. \/ /\ metadataQueue' = metadataQueue
             /\ metadataThread' \in {Absent, Waiting}
          \/ /\ metadataQueue # <<>>
             /\ metadataQueue' = Tail(metadataQueue)
             /\ metadataThread' = Thread("fetch", Head(metadataQueue))
      BY <1>4 DEF MetadataPop
    <3>2. ASSUME metadataQueue # <<>>
          PROVE  ToSet(metadataQueue)
                   = ToSet(Tail(metadataQueue)) \cup {Head(metadataQueue)}
      BY <2>1, <3>2, QueueHolds
    <3>3. Absent.media = NoMedia /\ Waiting.media = NoMedia
      BY <1>1 DEF Absent, Waiting
    <3>4. CASE metadataQueue' = metadataQueue
      BY <3>1, <3>3, <3>4, <1>1, <3>2
    <3>5. CASE metadataQueue # <<>> /\ metadataQueue' = Tail(metadataQueue)
      <4>1. ToSet(metadataQueue') = ToSet(Tail(metadataQueue))
        BY <3>5
      <4> QED
        BY <1>1, <3>1, <3>2, <3>3, <3>5, <4>1
    <3> QED
      BY <3>1, <3>4, <3>5
  <2>3. \A y : HasInHand(y)' /\ y # NoMedia => HasInHand(y)
    BY <2>1, <2>2 DEF HasInHand
  <2> QED
    BY <1>2, <1>3, <2>1, <2>3, CopiesKeepRows
<1>5. CASE MetadataUpdate
  <2> DEFINE c == metadataThread.media
  <2>1. c \in MediaInfoId
    BY <1>5 DEF MetadataUpdate, TypeInv, CopiesInHand, HasCopy, AtWork
  <2>2. PICK m \in Fetched(c) :
          \/ \E id \in FinalIds(m) :
               /\ UpdateMediaInfo(m, id)
               /\ metadataThread' = AfterMetadata([m EXCEPT !.id = id])
               /\ UNCHANGED <<queueVars, request, snapshot, downloaderThread, aborted>>
          \/ UpdateMediaInfoThrows(m) \/ UpdateMediaInfoAborts(m)
    BY <1>5 DEF MetadataUpdate, requestVars, mainVars
  <2>3. m \in MediaInfoId /\ m.id = c.id /\ m.url = c.url
    <3>1. m \in MediaInfoId
      BY <2>1, FetchedIsRow
    <3>2. c.url \in Url /\ Canonical[c.url] = c.url
      BY <2>1 DEF NoAliases, MediaInfoId
    <3> QED
      BY <2>1, <3>1, <3>2 DEF Fetched, MediaInfoId
  <2>4. HasInHand(c) /\ c # NoMedia
    BY <2>1, NoMediaAssumption DEF HasInHand
  <2>5. HasRow(m)
    BY <1>2, <2>3, <2>4, CopiesAreInHand DEF HasRow
  <2> HIDE DEF c
  <2>6. /\ UpdateMediaInfo(m, m.id)
        /\ metadataThread' = AfterMetadata([m EXCEPT !.id = m.id])
        /\ UNCHANGED <<queueVars, request, snapshot, downloaderThread, aborted>>
    BY <2>2, <2>3, <2>5, WriteKeepsRows
    DEF UpdateMediaInfoThrows, UpdateMediaInfoAborts
  <2>7. \/ metadataThread'.media = m
        \/ metadataThread'.media = NoMedia
    BY <1>1, <2>3, <2>6 DEF AfterMetadata, Popping, MediaInfoId
  <2>8. \A r \in media : HasRowAfter(r)
    BY <2>3, <2>5, <2>6, WriteKeepsRows
  <2>9. \A y : HasInHand(y)' => y = m \/ y = NoMedia \/ HasInHand(y)
    BY <2>6, <2>7 DEF HasInHand, queueVars
  <2> QED
    BY <1>2, <2>3, <2>4, <2>6, <2>8, <2>9, CopiesKeepRows
<1>6. CASE MetadataPush
  <2> DEFINE c == metadataThread.media
  <2>1. c \in MediaInfoId /\ downloaderQueue \in Seq(MediaInfoId)
    BY <1>6 DEF MetadataPush, TypeInv, DownloaderTypeOK, CopiesInHand, HasCopy, AtWork
  <2>2. ToSet(downloaderQueue') = ToSet(downloaderQueue) \cup {c}
    BY <1>6, <2>1, QueueHolds DEF MetadataPush
  <2>3. /\ downloaderThread' = downloaderThread \/ downloaderThread'.media = NoMedia
        /\ metadataThread'.media = NoMedia
        /\ UNCHANGED <<media, request, metadataQueue, snapshot, aborted>>
    BY <1>1, <1>6 DEF MetadataPush, Notified, Popping, dbVars, requestVars, mainVars
  <2>4. \A y : HasInHand(y)' /\ y # NoMedia => HasInHand(y)
    BY <2>2, <2>3 DEF HasInHand
  <2> QED
    BY <1>2, <1>3, <2>3, <2>4, CopiesKeepRows
<1> QED
  BY <1>4, <1>5, <1>6 DEF MetadataStep

(* The downloader thread.                                                  *)
LEMMA DownloadKeepsRows ==
  ASSUME TypeInv, KeptInv, NoAliases, DownloadStep
  PROVE  KeptInv'
<1>1. \A pc, m : Thread(pc, m).pc = pc /\ Thread(pc, m).media = m
  BY DEF Thread
<1>2. (\A x \in Copies \ {NoMedia} : HasRow(x)) /\ aborted # "no row"
  BY DEF KeptInv
<1>3. UNCHANGED media => \A r \in media : HasRowAfter(r)
  BY DEF HasRowAfter
<1>4. CASE DownloadPop
  <2>1. /\ downloaderQueue \in Seq(MediaInfoId)
        /\ UNCHANGED <<media, request, aborted>>
        /\ UNCHANGED <<snapshot, metadataQueue, metadataThread>>
    BY <1>4 DEF DownloadPop, TypeInv, DownloaderTypeOK, dbVars, requestVars, mainVars
  <2>2. /\ \A y \in ToSet(downloaderQueue') : y \in ToSet(downloaderQueue)
        /\ \/ downloaderThread'.media = NoMedia
           \/ downloaderThread'.media \in ToSet(downloaderQueue)
    <3>1. \/ /\ downloaderQueue' = downloaderQueue
             /\ downloaderThread' \in {Absent, Waiting}
          \/ /\ downloaderQueue # <<>>
             /\ downloaderQueue' = Tail(downloaderQueue)
             /\ downloaderThread' = Thread("fetch", Head(downloaderQueue))
      BY <1>4 DEF DownloadPop
    <3>2. ASSUME downloaderQueue # <<>>
          PROVE  ToSet(downloaderQueue)
                   = ToSet(Tail(downloaderQueue)) \cup {Head(downloaderQueue)}
      BY <2>1, <3>2, QueueHolds
    <3>3. Absent.media = NoMedia /\ Waiting.media = NoMedia
      BY <1>1 DEF Absent, Waiting
    <3>4. CASE downloaderQueue' = downloaderQueue
      BY <3>1, <3>3, <3>4, <1>1, <3>2
    <3>5. CASE downloaderQueue # <<>> /\ downloaderQueue' = Tail(downloaderQueue)
      <4>1. ToSet(downloaderQueue') = ToSet(Tail(downloaderQueue))
        BY <3>5
      <4> QED
        BY <1>1, <3>1, <3>2, <3>3, <3>5, <4>1
    <3> QED
      BY <3>1, <3>4, <3>5
  <2>3. \A y : HasInHand(y)' /\ y # NoMedia => HasInHand(y)
    BY <2>1, <2>2 DEF HasInHand
  <2> QED
    BY <1>2, <1>3, <2>1, <2>3, CopiesKeepRows
<1>5. CASE DownloadUpdate
  <2> DEFINE c == downloaderThread.media
  <2>1. c \in MediaInfoId
    BY <1>5 DEF DownloadUpdate, TypeInv, CopiesInHand, HasCopy, AtWork
  <2>2. PICK m \in Downloaded(c) :
          \/ /\ \E id \in FinalIds(m) : UpdateMediaInfo(m, id)
             /\ \/ Gone /\ aborted' = "no player"
                \/ /\ downloaderThread' = Popping
                   /\ UNCHANGED <<queueVars, request, snapshot, metadataThread, aborted>>
          \/ UpdateMediaInfoThrows(m) \/ UpdateMediaInfoAborts(m)
    BY <1>5 DEF DownloadUpdate, Die, requestVars, mainVars
  <2>3. m \in MediaInfoId /\ m.id = c.id /\ m.url = c.url
    <3>1. PICK url \in {c.url, Canonical[c.url]}, status \in {"Ready", "Failed"} :
            m = [c EXCEPT !.url = url, !.status = status]
      BY DEF Downloaded
    <3>2. c.url \in Url /\ Canonical[c.url] = c.url
      BY <2>1 DEF NoAliases, MediaInfoId
    <3>3. m \in MediaInfoId
      BY <2>1, FetchedIsRow
    <3> QED
      BY <2>1, <3>1, <3>2, <3>3 DEF MediaInfoId
  <2>4. HasInHand(c) /\ c # NoMedia
    BY <2>1, NoMediaAssumption DEF HasInHand
  <2>5. HasRow(m)
    BY <1>2, <2>3, <2>4, CopiesAreInHand DEF HasRow
  <2>6. /\ UpdateMediaInfo(m, m.id)
        /\ \/ Gone /\ aborted' = "no player"
           \/ /\ downloaderThread' = Popping
              /\ UNCHANGED <<queueVars, request, snapshot, metadataThread, aborted>>
    BY <2>2, <2>3, <2>5, WriteKeepsRows
    DEF UpdateMediaInfoThrows, UpdateMediaInfoAborts
  <2>7. CASE Gone /\ aborted' = "no player"
    BY <2>7, GoneKeepsRows
  <2>8. CASE /\ downloaderThread' = Popping
             /\ UNCHANGED <<queueVars, request, snapshot, metadataThread, aborted>>
    <3>1. \A r \in media : HasRowAfter(r)
      BY <2>3, <2>5, <2>6, WriteKeepsRows
    <3>2. \A y : HasInHand(y)' /\ y # NoMedia => HasInHand(y)
      BY <1>1, <2>8 DEF HasInHand, queueVars, Popping
    <3> QED
      BY <1>2, <2>8, <3>1, <3>2, CopiesKeepRows
  <2> QED
    BY <2>6, <2>7, <2>8
<1> QED
  BY <1>4, <1>5 DEF DownloadStep

(* The main thread and the environment.                                    *)
LEMMA MainKeepsRows ==
  ASSUME TypeInv, KeptInv, NoAliases,
         MainStep \/ StartServer \/ Shutdown \/ Crash \/ PlayNext \/ PassTime
           \/ UNCHANGED vars
  PROVE  KeptInv'
<1>1. (\A x \in Copies \ {NoMedia} : HasRow(x)) /\ aborted # "no row"
  BY DEF KeptInv
<1>2. ASSUME UNCHANGED <<media, aborted>>,
             \A y : HasInHand(y)' /\ y # NoMedia => HasInHand(y) \/ y \in media
      PROVE  KeptInv'
  <2>1. \A r \in media : HasRowAfter(r)
    BY <1>2 DEF HasRowAfter
  <2> QED
    BY <1>1, <1>2, <2>1, CopiesKeepRows
<1>3. CASE LoadMedia
  <2>1. /\ UNCHANGED <<media, queueVars, threadVars, request, aborted>>
        /\ snapshot' \subseteq media
    BY <1>3 DEF LoadMedia, dbVars, requestVars
  <2>2. \A y : HasInHand(y)' => HasInHand(y) \/ y \in media
    BY <2>1 DEF HasInHand, queueVars, threadVars
  <2> QED
    BY <1>2, <2>1, <2>2
<1>4. CASE StartThreads
  <2> DEFINE of(status) == {r \in snapshot : r.status = status}
  <2>1. \A status : of(status) \subseteq MediaInfoId /\ IsFiniteSet(of(status))
    <3>1. snapshot \subseteq MediaInfoId /\ IsFiniteSet(snapshot)
      BY DEF TypeInv, DownloaderTypeOK, CopiesInHand
    <3>2. \A status : of(status) \subseteq snapshot
      OBVIOUS
    <3> HIDE DEF of
    <3> QED
      BY <3>1, <3>2, FS_Subset
  <2>2. PICK rows \in SetToSeqs(of("Initial")) : metadataQueue' = metadataQueue \o rows
    BY <1>4 DEF StartThreads
  <2>3. downloaderQueue' \in SetToSeqs(of("Downloading"))
    BY <1>4 DEF StartThreads
  <2>4. \A status : of(status) \subseteq snapshot
    OBVIOUS
  <2> HIDE DEF of
  <2>5. ToSet(metadataQueue') = ToSet(metadataQueue) \cup of("Initial")
    <3>1. rows \in Seq(MediaInfoId) /\ ToSet(rows) = of("Initial")
      BY <2>1, EnumerationIsSeq, EnumerationHolds
    <3>2. metadataQueue \in Seq(MediaInfoId)
      BY DEF TypeInv, DownloaderTypeOK
    <3> QED
      BY <2>2, <3>1, <3>2, QueueHolds
  <2>6. ToSet(downloaderQueue') = of("Downloading")
    BY <2>1, <2>3, EnumerationHolds
  <2>7. /\ metadataThread'.media = NoMedia /\ downloaderThread'.media = NoMedia
        /\ snapshot' = {} /\ UNCHANGED <<media, request, aborted>>
    BY <1>4 DEF StartThreads, dbVars, requestVars, Popping, Thread
  <2>8. \A y : HasInHand(y)' /\ y # NoMedia => HasInHand(y)
    BY <2>4, <2>5, <2>6, <2>7 DEF HasInHand
  <2> QED
    BY <1>2, <2>7, <2>8
<1>5. CASE StopMetadata \/ StopDownloader
  <2>1. /\ UNCHANGED <<media, queueVars, snapshot, request, aborted>>
        /\ metadataThread' = metadataThread \/ metadataThread'.media = NoMedia
        /\ downloaderThread' = downloaderThread \/ downloaderThread'.media = NoMedia
    BY <1>5 DEF StopMetadata, StopDownloader, Notified, Popping, Thread, dbVars,
                requestVars, mainVars
  <2>2. \A y : HasInHand(y)' /\ y # NoMedia => HasInHand(y)
    BY <2>1 DEF HasInHand, queueVars
  <2> QED
    BY <1>2, <2>1, <2>2
<1>6. CASE Joined \/ Crash
  BY <1>1, <1>6, GoneKeepsRows DEF Joined, Crash, Die
<1>7. CASE StartServer \/ Shutdown \/ PlayNext \/ PassTime \/ UNCHANGED vars
  <2>1. UNCHANGED <<media, queueVars, metadataThread, downloaderThread, request,
                    snapshot, aborted>>
    <3>1. CASE StartServer \/ Shutdown
      BY <3>1 DEF StartServer, Shutdown, dbVars, requestVars, threadVars
    <3>2. CASE PlayNext
      BY <3>2 DEF PlayNext, PopNextPlaylistItem, requestVars, threadVars, mainVars
    <3>3. CASE PassTime
      BY <3>3 DEF PassTime, Tick, tables, requestVars, threadVars, mainVars
    <3>4. CASE UNCHANGED vars
      BY <3>4 DEF vars, dbVars, requestVars, threadVars, mainVars
    <3> QED
      BY <1>7, <3>1, <3>2, <3>3, <3>4
  <2>2. \A y : HasInHand(y)' => HasInHand(y)
    BY <2>1 DEF HasInHand, queueVars
  <2> QED
    BY <1>2, <2>1, <2>2
<1> QED
  BY <1>3, <1>4, <1>5, <1>6, <1>7 DEF MainStep

(* Every step keeps the rows of the copies in hand.                        *)
LEMMA KeptInvStep == TypeInv /\ KeptInv /\ [Next]_vars => KeptInv'
<1>1. ASSUME TypeInv, KeptInv, [Next]_vars, NoAliases PROVE KeptInv'
  BY <1>1, RequestKeepsRows, MetadataKeepsRows, DownloadKeepsRows, MainKeepsRows
  DEF Next, Ended
<1>2. ~NoAliases => KeptInv'
  BY DEF KeptInv
<1> QED
  BY <1>1, <1>2

(* Nothing is in hand before the program has been started.                 *)
LEMMA KeptInvInit == Init => KeptInv
<1> SUFFICES ASSUME Init PROVE KeptInv
  OBVIOUS
<1>1. /\ \A w \in Worker : request[w].pc = "idle"
      /\ metadataThread.media = NoMedia /\ downloaderThread.media = NoMedia
      /\ snapshot = {} /\ aborted = "no"
  BY DEF Init, AllIdle, Idle, Absent, Thread
<1>2. ToSet(metadataQueue) = {} /\ ToSet(downloaderQueue) = {}
  BY DEF Init, ToSet
<1>3. \A x : HasInHand(x) => x = NoMedia
  BY <1>1, <1>2 DEF HasInHand
<1> QED
  BY <1>1, <1>3, CopiesAreInHand DEF KeptInv

(* It takes an alias to fail the assertion at Database.cpp:433: where each *)
(* URL is the canonical one of its video, the row of a copy is there when  *)
(* the copy is written back, however long that takes.                      *)
THEOREM OnlyAliasesLoseRows ==
  Spec => []((\A url \in Url : Canonical[url] = url) => RowStillThere)
<1>1. KeptInv => ((\A url \in Url : Canonical[url] = url) => RowStillThere)
  BY DEF KeptInv, NoAliases, RowStillThere
<1> QED
  BY <1>1, KeptInvInit, KeptInvStep, DownloaderTypeInvariant, PTL DEF Spec

=============================================================================
