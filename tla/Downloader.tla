----------------------------- MODULE Downloader -----------------------------
(***************************************************************************)
(* How a video gets from a submitted URL into the cache: the HTTP workers  *)
(* that handle POST /addMedia (WebServer.cpp, Utuputki.cpp), and the       *)
(* metadata and downloader threads with their queues (Downloader.cpp),     *)
(* over the tables of Database.                                            *)
(*                                                                         *)
(* Each action is what one thread does between two points where another    *)
(* can get in: a transaction, or a section under metadataMutex or          *)
(* downloaderMutex.  Threads carry copies of media rows across them.       *)
(*                                                                         *)
(* youtube-dl is external: asked about a URL it either fails or answers    *)
(* with the URL that is canonical for the video (webpage_url).             *)
(***************************************************************************)
EXTENDS Database, SequencesExt

CONSTANTS
  Worker,         \* threads of the HTTP server
  Canonical,      \* Canonical[url]: webpage_url of the video url names
  MaxRequests,    \* bound of the number of POST /addMedia requests
  MaxStarts,      \* bound of the number of times the program is started
  EarlyRequests,  \* may a request arrive before startThreads has returned?
  NoMedia         \* no copy of a media row

ASSUME CanonicalAssumption ==
  /\ Canonical \in [Url -> Url]
  /\ \A url \in Url : Canonical[Canonical[url]] = Canonical[url]

ASSUME DownloaderBounds ==
  MaxRequests \in Nat /\ MaxStarts \in Nat /\ EarlyRequests \in BOOLEAN

ASSUME NoMediaAssumption == NoMedia \notin MediaInfoId

VARIABLES
  phase,             \* of the main thread
  request,           \* what each worker is doing
  metadataQueue, metadataThread, shutdownMetadata,
  downloaderQueue, downloaderThread, shutdownDownloader,
  snapshot,          \* rows startThreads has read and not yet queued
  requests, starts,  \* so far
  aborted            \* the assertion that ended the process, if one did

queueVars == <<metadataQueue, downloaderQueue>>
threadVars == <<metadataThread, shutdownMetadata,
                downloaderThread, shutdownDownloader>>
mainVars == <<phase, snapshot, starts, aborted>>
requestVars == <<request, requests>>
vars == <<dbVars, queueVars, threadVars, mainVars, requestVars>>

Thread(pc, m) == [pc |-> pc, media |-> m]
Idle    == Thread("idle", NoMedia)
Waiting == Thread("waiting", NoMedia)    \* in condition_variable::wait
Popping == Thread("pop", NoMedia)        \* about to take the mutex and look
Absent  == Thread("none", NoMedia)       \* not started, or exited

Phase == {"down", "serving", "loading", "running", "closing", "stopping"}
Pending == {"Initial", "Downloading"}

AllIdle == [w \in Worker |-> Idle]

Init ==
  /\ DbInit
  /\ phase = "down" /\ snapshot = {}
  /\ request = AllIdle
  /\ metadataQueue = <<>> /\ downloaderQueue = <<>>
  /\ metadataThread = Absent /\ downloaderThread = Absent
  /\ shutdownMetadata = FALSE /\ shutdownDownloader = FALSE
  /\ requests = 0 /\ starts = 0 /\ aborted = "no"

(* The process is gone: only the database remains.                         *)
Gone ==
  /\ phase' = "down" /\ snapshot' = {}
  /\ request' = AllIdle
  /\ metadataQueue' = <<>> /\ downloaderQueue' = <<>>
  /\ metadataThread' = Absent /\ downloaderThread' = Absent
  /\ shutdownMetadata' = FALSE /\ shutdownDownloader' = FALSE
  /\ UNCHANGED <<requests, starts>>

Die(why) == Gone /\ aborted' = why

-----------------------------------------------------------------------------
(* POST /addMedia.  A URL whose host is not whitelisted is refused before  *)
(* it reaches any state: Url holds the others.                             *)

Serving ==
  \/ phase \in {"running", "closing"}
  \/ EarlyRequests /\ phase \in {"serving", "loading"}

Proceed(w, pc, m) == request' = [request EXCEPT ![w] = Thread(pc, m)]
Answer(w) == request' = [request EXCEPT ![w] = Idle]

AddMedia(w, url) ==
  /\ Serving /\ request[w] = Idle /\ requests < MaxRequests
  /\ requests' = requests + 1
  /\ \E row \in RowFor(url) :
       /\ GetOrAddMediaByURL(url, row)
       /\ Proceed(w, CASE row.status = "Failed"  -> "retry"
                       [] row.status = "Initial" -> "enqueue"
                       [] OTHER                  -> "playlist", row)
  /\ UNCHANGED <<queueVars, threadVars, mainVars>>

(* A Failed media is reset and tried again, with the copy that was read.   *)
RetryFailed(w) ==
  LET m == [request[w].media EXCEPT !.status = "Initial"] IN
  /\ request[w].pc = "retry"
  /\ \/ \E id \in FinalIds(m) :
          /\ UpdateMediaInfo(m, id)
          /\ Proceed(w, "enqueue", [m EXCEPT !.id = id])
          /\ UNCHANGED <<requests, queueVars, threadVars, mainVars>>
     \/ /\ UpdateMediaInfoThrows(m)          \* 500
        /\ Answer(w)
        /\ UNCHANGED <<requests, dbVars, queueVars, threadVars, mainVars>>
     \/ /\ UpdateMediaInfoAborts(m)
        /\ Die("no row")
        /\ UNCHANGED dbVars

(* notify_one: the thread is woken if it waits, and nothing happens if not *)
Notified(thread) == IF thread = Waiting THEN Popping ELSE thread

(* Mutant: the look at the queue comes after the push.                     *)
Enqueue_LooksLate(w) ==
  /\ request[w].pc = "enqueue"
  /\ metadataQueue' = Append(metadataQueue, request[w].media)
  /\ metadataThread' = IF metadataQueue' = <<>> THEN Notified(metadataThread)
                                                ELSE metadataThread
  /\ Proceed(w, "playlist", request[w].media)
  /\ UNCHANGED <<dbVars, requests, downloaderQueue, downloaderThread,
                 shutdownMetadata, shutdownDownloader, mainVars>>

(* addMedia pushes, and notifies only if the queue was empty.              *)
Enqueue(w) ==
  /\ request[w].pc = "enqueue"
  /\ metadataQueue' = Append(metadataQueue, request[w].media)
  /\ metadataThread' = IF metadataQueue = <<>> THEN Notified(metadataThread)
                                               ELSE metadataThread
  /\ Proceed(w, "playlist", request[w].media)
  /\ UNCHANGED <<dbVars, requests, downloaderQueue, downloaderThread,
                 shutdownMetadata, shutdownDownloader, mainVars>>

(* startThreads pushes to the same list without the mutex: a data race, in *)
(* which this push or one of startThreads may get lost.                    *)
RacedEnqueue(w) ==
  /\ request[w].pc = "enqueue" /\ phase = "loading"
  /\ \/ UNCHANGED <<metadataQueue, snapshot>>
     \/ \E r \in snapshot :
          /\ r.status = "Initial"
          /\ snapshot' = snapshot \ {r}
          /\ metadataQueue' = Append(metadataQueue, request[w].media)
  /\ Proceed(w, "playlist", request[w].media)
  /\ UNCHANGED <<dbVars, requests, downloaderQueue, threadVars,
                 phase, starts, aborted>>

(* Mutant: a request whose row is gone is not answered.                    *)
QueueForPlayback_NoAnswer(w) ==
  /\ request[w].pc = "playlist"
  /\ AddToPlaylist(request[w].media.id)
  /\ Answer(w)
  /\ UNCHANGED <<requests, queueVars, threadVars, mainVars>>

(* Utuputki::addToPlaylist: getMediaInfo and then the insert both need the *)
(* row; without it the request ends with status 500.                       *)
QueueForPlayback(w) ==
  /\ request[w].pc = "playlist"
  /\ \/ AddToPlaylist(request[w].media.id)
     \/ ~Known(request[w].media.id) /\ UNCHANGED dbVars
  /\ Answer(w)
  /\ UNCHANGED <<requests, queueVars, threadVars, mainVars>>

-----------------------------------------------------------------------------
(* The metadata thread.                                                    *)

MetadataPop ==
  /\ metadataThread.pc = "pop"
  /\ \/ /\ shutdownMetadata
        /\ metadataThread' = Absent
        /\ UNCHANGED metadataQueue
     \/ /\ ~shutdownMetadata /\ metadataQueue # <<>>
        /\ metadataThread' = Thread("fetch", Head(metadataQueue))
        /\ metadataQueue' = Tail(metadataQueue)
     \/ /\ ~shutdownMetadata /\ metadataQueue = <<>>
        /\ metadataThread' = Waiting
        /\ UNCHANGED metadataQueue
  /\ UNCHANGED <<dbVars, requestVars, downloaderQueue, downloaderThread,
                 shutdownMetadata, shutdownDownloader, mainVars>>

(* Mutant: the row keeps the URL that was submitted.                       *)
Fetched_KeepsUrl(m) ==
  {[m EXCEPT !.status = status] : status \in {"Downloading", "Failed"}}

(* What extract_info and metadataFromPython make of copy m: metadata with  *)
(* the canonical URL; or an exception, from extract_info or, the URL       *)
(* already set, from a missing field; or a length above maxLength.         *)
Fetched(m) ==
  {[m EXCEPT !.url = Canonical[m.url], !.status = "Downloading"]} \cup
  {[m EXCEPT !.url = url, !.status = "Failed"] : url \in {m.url, Canonical[m.url]}}

(* Mutant: the downloader is not told.                                     *)
AfterMetadata_Stops(m) == Popping

(* The copy goes on to the downloader even if updateMediaInfo threw.       *)
AfterMetadata(m) ==
  IF m.status = "Downloading" THEN Thread("push", m) ELSE Popping

MetadataUpdate ==
  /\ metadataThread.pc = "fetch"
  /\ \E m \in Fetched(metadataThread.media) :
       \/ \E id \in FinalIds(m) :
            /\ UpdateMediaInfo(m, id)
            /\ metadataThread' = AfterMetadata([m EXCEPT !.id = id])
            /\ UNCHANGED <<requestVars, queueVars, downloaderThread,
                           shutdownMetadata, shutdownDownloader, mainVars>>
       \/ /\ UpdateMediaInfoThrows(m)
          /\ metadataThread' = AfterMetadata(m)
          /\ UNCHANGED <<dbVars, requestVars, queueVars, downloaderThread,
                         shutdownMetadata, shutdownDownloader, mainVars>>
       \/ /\ UpdateMediaInfoAborts(m)
          /\ Die("no row")
          /\ UNCHANGED dbVars

MetadataPush ==
  /\ metadataThread.pc = "push"
  /\ downloaderQueue' = Append(downloaderQueue, metadataThread.media)
  /\ downloaderThread' = Notified(downloaderThread)
  /\ metadataThread' = Popping
  /\ UNCHANGED <<dbVars, requestVars, metadataQueue,
                 shutdownMetadata, shutdownDownloader, mainVars>>

-----------------------------------------------------------------------------
(* The downloader thread.                                                  *)

DownloadPop ==
  /\ downloaderThread.pc = "pop"
  /\ \/ /\ shutdownDownloader
        /\ downloaderThread' = Absent
        /\ UNCHANGED downloaderQueue
     \/ /\ ~shutdownDownloader /\ downloaderQueue # <<>>
        /\ downloaderThread' = Thread("fetch", Head(downloaderQueue))
        /\ downloaderQueue' = Tail(downloaderQueue)
     \/ /\ ~shutdownDownloader /\ downloaderQueue = <<>>
        /\ downloaderThread' = Waiting
        /\ UNCHANGED downloaderQueue
  /\ UNCHANGED <<dbVars, requestVars, metadataQueue, metadataThread,
                 shutdownMetadata, shutdownDownloader, mainVars>>

(* Mutant: the status of a playlist item (Playlist.h) in a media row.      *)
Downloaded_Finished(m) ==
  {[m EXCEPT !.status = status] : status \in {"Finished", "Failed"}}

(* The file is in the cache afterwards, or something failed.  Metadata     *)
(* that is too old is fetched again first, which sets the URL.             *)
Downloaded(m) ==
  {[m EXCEPT !.url = url, !.status = status] :
     url \in {m.url, Canonical[m.url]}, status \in {"Ready", "Failed"}}

(* Utuputki::updateMediaInfo tells the player about a Ready media; once    *)
(* the player is destroyed its assert(impl) fails.                         *)
PlayerAlive == phase \notin {"closing", "stopping"}

DownloadUpdate ==
  /\ downloaderThread.pc = "fetch"
  /\ \E m \in Downloaded(downloaderThread.media) :
       \/ /\ \E id \in FinalIds(m) : UpdateMediaInfo(m, id)
          /\ IF m.status = "Ready" /\ ~PlayerAlive
             THEN Die("no player")
             ELSE /\ downloaderThread' = Popping
                  /\ UNCHANGED <<requestVars, queueVars, metadataThread,
                                 shutdownMetadata, shutdownDownloader, mainVars>>
       \/ /\ UpdateMediaInfoThrows(m)
          /\ downloaderThread' = Popping
          /\ UNCHANGED <<dbVars, requestVars, queueVars, metadataThread,
                         shutdownMetadata, shutdownDownloader, mainVars>>
       \/ /\ UpdateMediaInfoAborts(m)
          /\ Die("no row")
          /\ UNCHANGED dbVars

-----------------------------------------------------------------------------
(* The main thread: startServer, startThreads, player.run, destructors.    *)

StartServer ==
  /\ phase = "down" /\ starts < MaxStarts
  /\ phase' = "serving" /\ starts' = starts + 1
  /\ UNCHANGED <<dbVars, requestVars, queueVars, threadVars, snapshot, aborted>>

(* Mutant: downloads that a crash interrupted are not taken up again.      *)
LoadMedia_OnlyInitial ==
  /\ phase = "serving"
  /\ phase' = "loading"
  /\ snapshot' = {r \in media : r.status = "Initial"}
  /\ UNCHANGED <<dbVars, requestVars, queueVars, threadVars, starts, aborted>>

(* startThreads reads all media in one transaction ...                     *)
LoadMedia ==
  /\ phase = "serving"
  /\ phase' = "loading"
  /\ snapshot' = {r \in media : r.status \in Pending}
  /\ UNCHANGED <<dbVars, requestVars, queueVars, threadVars, starts, aborted>>

(* ... queues them by status, in the order of a SELECT without ORDER BY,   *)
(* and starts the threads.                                                 *)
StartThreads ==
  /\ phase = "loading"
  /\ phase' = "running" /\ snapshot' = {}
  /\ \E rows \in SetToSeqs({r \in snapshot : r.status = "Initial"}) :
       metadataQueue' = metadataQueue \o rows
  /\ downloaderQueue' \in SetToSeqs({r \in snapshot : r.status = "Downloading"})
  /\ metadataThread' = Popping /\ downloaderThread' = Popping
  /\ UNCHANGED <<dbVars, requestVars, shutdownMetadata, shutdownDownloader,
                 starts, aborted>>

(* player.run() returned; the destructors run in the reverse order of the  *)
(* members: player, webServer, downloader.                                 *)
Shutdown ==
  /\ phase = "running"
  /\ phase' = "closing"
  /\ UNCHANGED <<dbVars, requestVars, queueVars, threadVars,
                 snapshot, starts, aborted>>

(* ~WebServer waits for its workers, ~DownloaderImpl stops one thread ...  *)
StopMetadata ==
  /\ phase = "closing" /\ \A w \in Worker : request[w] = Idle
  /\ phase' = "stopping"
  /\ shutdownMetadata' = TRUE
  /\ metadataThread' = Notified(metadataThread)
  /\ UNCHANGED <<dbVars, requestVars, queueVars, downloaderThread,
                 shutdownDownloader, snapshot, starts, aborted>>

(* Mutant: the flag is set and nobody is woken.                            *)
StopDownloader_Silent ==
  /\ phase = "stopping" /\ ~shutdownDownloader
  /\ shutdownDownloader' = TRUE
  /\ UNCHANGED <<dbVars, requestVars, queueVars, downloaderThread,
                 metadataThread, shutdownMetadata, mainVars>>

(* ... then the other, and joins both.                                     *)
StopDownloader ==
  /\ phase = "stopping" /\ ~shutdownDownloader
  /\ shutdownDownloader' = TRUE
  /\ downloaderThread' = Notified(downloaderThread)
  /\ UNCHANGED <<dbVars, requestVars, queueVars, metadataThread,
                 shutdownMetadata, mainVars>>

Joined ==
  /\ phase = "stopping" /\ shutdownDownloader
  /\ metadataThread = Absent /\ downloaderThread = Absent
  /\ Gone
  /\ UNCHANGED <<dbVars, aborted>>

(* The process is killed, or the machine fails.                            *)
Crash ==
  /\ phase # "down"
  /\ Die(aborted)
  /\ UNCHANGED dbVars

(* The player takes the next video.                                        *)
PlayNext ==
  /\ phase = "running"
  /\ \E item \in NextItems \ {NoItem} : PopNextPlaylistItem(item)
  /\ UNCHANGED <<requestVars, queueVars, threadVars, mainVars>>

PassTime ==
  /\ Tick
  /\ UNCHANGED <<requestVars, queueVars, threadVars, mainVars>>

(* Stopped for good: the bound on starts is reached.                       *)
Ended == phase = "down" /\ starts = MaxStarts /\ UNCHANGED vars

-----------------------------------------------------------------------------
RequestStep(w) ==
  RetryFailed(w) \/ Enqueue(w) \/ RacedEnqueue(w) \/ QueueForPlayback(w)

MetadataStep == MetadataPop \/ MetadataUpdate \/ MetadataPush
DownloadStep == DownloadPop \/ DownloadUpdate

MainStep == LoadMedia \/ StartThreads \/ StopMetadata \/ StopDownloader \/ Joined

Next ==
  \/ \E w \in Worker : (\E url \in Url : AddMedia(w, url)) \/ RequestStep(w)
  \/ MetadataStep \/ DownloadStep
  \/ MainStep \/ StartServer \/ Shutdown \/ Crash
  \/ PlayNext \/ PassTime \/ Ended

Spec == Init /\ [][Next]_vars

(* A thread that can go on eventually does, and youtube-dl answers.  When  *)
(* requests arrive, when the program is started, stopped or killed, and    *)
(* what youtube-dl answers is left open.                                   *)
Fairness ==
  /\ \A w \in Worker : WF_vars(RequestStep(w))
  /\ WF_vars(MetadataStep) /\ WF_vars(DownloadStep) /\ WF_vars(MainStep)

FairSpec == Spec /\ Fairness

-----------------------------------------------------------------------------
ThreadState ==
  [pc : {"idle", "retry", "enqueue", "playlist", "none", "pop", "waiting",
         "fetch", "push"}, media : MediaInfoId \cup {NoMedia}]

DownloaderTypeOK ==
  /\ DbTypeOK
  /\ phase \in Phase
  /\ request \in [Worker -> ThreadState]
  /\ metadataQueue \in Seq(MediaInfoId) /\ downloaderQueue \in Seq(MediaInfoId)
  /\ metadataThread \in ThreadState /\ downloaderThread \in ThreadState
  /\ shutdownMetadata \in BOOLEAN /\ shutdownDownloader \in BOOLEAN
  /\ snapshot \subseteq MediaInfoId
  /\ requests \in 0 .. MaxRequests /\ starts \in 0 .. MaxStarts
  /\ aborted \in {"no", "no row", "no player"}

(* No thread sleeps while there is something for it to do, although        *)
(* addMedia notifies only when the queue was empty and the destructor      *)
(* notifies once.                                                          *)
NoLostWakeup ==
  /\ metadataThread = Waiting => metadataQueue = <<>> /\ ~shutdownMetadata
  /\ downloaderThread = Waiting => downloaderQueue = <<>> /\ ~shutdownDownloader

(* However many URLs name a video and whatever races they are submitted    *)
(* in, at most one of its rows gets to be downloaded or played.            *)
OneRowPerVideo ==
  \A r, s \in media :
    /\ {r.status, s.status} \subseteq {"Downloading", "Ready"}
    /\ Canonical[r.url] = Canonical[s.url]
    => r = s

Copies ==
  ToSet(metadataQueue) \cup ToSet(downloaderQueue) \cup snapshot \cup
  {metadataThread.media, downloaderThread.media} \cup
  {request[w].media : w \in {v \in Worker : request[v].pc \in {"retry", "enqueue"}}}

Owned(r) == \E m \in Copies \ {NoMedia} : m.id = r.id

(* A media that is not finished and that nothing has in hand.              *)
Forgotten(r) == r.status \in Pending /\ ~Owned(r)

(* A merge of row id into another one that the history does not let go:    *)
(* updateMediaInfo throws, for a copy with its URL or the canonical one.   *)
Refused(id) ==
  /\ Played(id)
  /\ \E m \in Copies \ {NoMedia}, s \in media :
       m.id = id /\ s.id # id /\ s.url \in {m.url, Canonical[m.url]}

(* The phases in which the threads have been given what the tables say.    *)
Loaded == {"loading", "running", "closing"}

(* While the program runs, the only step that lets an unfinished media     *)
(* drop out of every queue, thread and request is a refused merge, or a    *)
(* push that races with startThreads; a crash forgets all until the next   *)
(* start, which queues again what the tables say.                          *)
OnlyRefusedIsForgotten ==
  [][phase' \in Loaded =>
       \A s \in media' : Forgotten(s)' =>
         \/ \E r \in media : r.id = s.id /\ Forgotten(r)
         \/ Refused(s.id)
         \/ \E w \in Worker : RacedEnqueue(w)]_vars

(* So a media that has never been played is not forgotten, unless requests *)
(* come before startThreads has returned.  (Whether the row that was in    *)
(* the way of a merge is still there later is another matter: a stale copy *)
(* can give that one back a third URL of the same video.)                  *)
PendingIsOwned ==
  phase \in Loaded => \A r \in media : Forgotten(r) => Played(r.id)

(* Every unfinished media that is in hand, or has never been played, ends  *)
(* up Ready, Failed, merged into another row or refused, if the program is *)
(* not stopped.                                                            *)
Unfinished(id) == \E r \in media : /\ r.id = id /\ r.status \in Pending
                                   /\ Owned(r) \/ ~Played(id)

Settles ==
  \A id \in MediaId : Unfinished(id) ~> ~Unfinished(id) \/ phase # "running"

(* Every request is answered.                                              *)
Answered == \A w \in Worker : request[w] # Idle ~> request[w] = Idle

(* The destructors return: neither join waits for ever.                    *)
ShutdownCompletes == phase = "closing" ~> phase = "down"

(* Database.cpp:433: assert(!oldResult.empty()).                           *)
RowStillThere == aborted # "no row"

(* Player.cpp:313: assert(impl).                                           *)
PlayerStillThere == aborted # "no player"

=============================================================================
