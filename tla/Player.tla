------------------------------- MODULE Player -------------------------------
(***************************************************************************)
(* Playing the playlist: the loop of Player.cpp in the main thread, the    *)
(* "now playing" state and the skip votes of Utuputki.cpp, and everything  *)
(* that wakes the loop: the end of what VLC plays, skips, a downloaded     *)
(* video, signals.  The tables are those of Database.                      *)
(*                                                                         *)
(* A section under helpMutex or nowPlayingMutex is one action.  VLC is     *)
(* external: it reports the end of what it plays from a thread of its own, *)
(* and the report may still be on its way when the loop has moved on.      *)
(***************************************************************************)
EXTENDS Database

CONSTANTS
  Client,        \* addresses that requests come from
  MaxRequests,   \* bounds of the number of POST /skip requests,
  MaxUpdates,    \* of updates by the downloader, of signals
  MaxSignals,
  MaxCrashes     \* and of the times the process dies

ASSUME PlayerBounds ==
  /\ MaxRequests \in Nat /\ MaxUpdates \in Nat /\ MaxCrashes \in Nat
  /\ MaxSignals \in Nat
  /\ IsFiniteSet(Client)

ASSUME SkipsFit == Cardinality(Client) < MaxSkips

VARIABLES
  player,         \* the loop: [pc, item, reason, skipCount]
  onStandby, skipped, shutdownFlag,
  screen,         \* what VLC is playing: "off", "standby", "video"
  endReports,     \* end-of-media callbacks of VLC on their way
  nowPlaying, skips,
  clients,        \* that are counted as active
  voter,          \* what the request of each client is doing
  notifying,      \* the downloader is about to call notifyMediaUpdate
  signals,        \* shutdownCounter
  handling,       \* a signal handler is about to lock helpMutex
  requests, updates, crashes  \* so far

loopVars == <<player, onStandby, skipped, screen, endReports>>
voteVars == <<nowPlaying, skips, clients, voter, requests>>
updateVars == <<notifying, updates>>
stopVars == <<shutdownFlag, signals, handling>>
vars == <<dbVars, loopVars, voteVars, stopVars, updateVars, crashes>>

Loop(pc, item) == [pc |-> pc, item |-> item, reason |-> "NULL", skipCount |-> 0]
NotVoting == [pc |-> "idle", media |-> 0, needed |-> 0]

(* The tables as an earlier run left them: two known media, nothing queued *)
Library == {m \in SUBSET MediaInfoId :
              /\ Cardinality(m) = Cardinality(Url)
              /\ \A r, s \in m : r # s => r.id # s.id /\ r.url # s.url
              /\ \A r \in m : r.id <= Cardinality(Url)
              /\ \A r \in m : r.status \in {"Downloading", "Ready"}}

Init ==
  /\ media \in Library
  /\ playlist = {} /\ history = {} /\ now = 0
  /\ player = Loop("check", NoItem)
  /\ onStandby = TRUE /\ skipped = FALSE /\ shutdownFlag = FALSE
  /\ screen = "off" /\ endReports = 0
  /\ nowPlaying = NoItem /\ skips = {}
  /\ clients = {} /\ voter = [c \in Client |-> NotVoting]
  /\ notifying = FALSE
  /\ signals = 0 /\ handling = FALSE
  /\ requests = 0 /\ updates = 0 /\ crashes = 0

-----------------------------------------------------------------------------
(* The loop.                                                               *)

CheckShutdown ==
  /\ player.pc = "check"
  /\ player' = IF shutdownFlag THEN Loop("exited", NoItem) ELSE Loop("pop", NoItem)
  /\ screen' = IF shutdownFlag THEN "off" ELSE screen
  /\ UNCHANGED <<dbVars, onStandby, skipped, endReports, voteVars, stopVars,
                 updateVars, crashes>>

(* Utuputki::popNextPlaylistItem: the transaction ...                      *)
PopNext ==
  /\ player.pc = "pop"
  /\ \E item \in NextItems :
       PopNextPlaylistItem(item) /\ player' = Loop("publish", item)
  /\ UNCHANGED <<onStandby, skipped, screen, endReports, voteVars, stopVars,
                 updateVars, crashes>>

(* ... and then nowPlaying, under its mutex.                               *)
Publish ==
  /\ player.pc = "publish"
  /\ nowPlaying' = player.item
  /\ player' = [player EXCEPT !.pc = "start"]
  /\ UNCHANGED <<dbVars, onStandby, skipped, screen, endReports,
                 skips, clients, voter, requests, stopVars, updateVars, crashes>>

(* Under helpMutex: start the video or the standby image, and wait.        *)
StartMedia ==
  /\ player.pc = "start"
  /\ onStandby' = (player.item = NoItem)
  /\ screen' = IF player.item = NoItem THEN "standby" ELSE "video"
  /\ skipped' = FALSE
  /\ player' = [player EXCEPT !.pc = "waiting"]
  /\ UNCHANGED <<dbVars, endReports, voteVars, stopVars, updateVars, crashes>>

(* helpCV.notify_one(); nothing happens when the loop does not wait.       *)
WakeLoop ==
  player' = IF player.pc = "waiting" THEN [player EXCEPT !.pc = "woken"] ELSE player

(* A condition variable may also wake for no reason.                       *)
SpuriousWakeup ==
  /\ player.pc = "waiting" /\ WakeLoop
  /\ UNCHANGED <<dbVars, onStandby, skipped, screen, endReports, voteVars,
                 stopVars, updateVars, crashes>>

(* After the wait `skipped' is read, the mutex already released.           *)
Reason == IF skipped THEN "Skipped" ELSE "Completed"

(* Mutant: after the standby image the flag is not looked at again.        *)
AfterWait_PopsAgain ==
  /\ player.pc = "woken"
  /\ player' = IF player.item = NoItem
               THEN Loop("pop", NoItem)
               ELSE [player EXCEPT !.pc = "finish", !.reason = Reason]
  /\ UNCHANGED <<dbVars, onStandby, skipped, screen, endReports, voteVars,
                 stopVars, updateVars, crashes>>

AfterWait ==
  /\ player.pc = "woken"
  /\ player' = IF player.item = NoItem
               THEN Loop("check", NoItem)
               ELSE [player EXCEPT !.pc = "finish", !.reason = Reason]
  /\ UNCHANGED <<dbVars, onStandby, skipped, screen, endReports, voteVars,
                 stopVars, updateVars, crashes>>

(* Mutants: the votes stay for the next video; the video stays published.  *)
StopPublishing_KeepsVotes ==
  /\ player.pc = "finish"
  /\ player' = [player EXCEPT !.pc = "record", !.skipCount = Cardinality(skips)]
  /\ nowPlaying' = NoItem
  /\ UNCHANGED <<dbVars, onStandby, skipped, screen, endReports, skips, clients,
                 voter, requests, stopVars, updateVars, crashes>>

StopPublishing_Never ==
  /\ player.pc = "finish"
  /\ player' = [player EXCEPT !.pc = "record", !.skipCount = Cardinality(skips)]
  /\ UNCHANGED <<dbVars, onStandby, skipped, screen, endReports, voteVars,
                 stopVars, updateVars, crashes>>

(* Utuputki::playlistItemFinished: the votes, under nowPlayingMutex ...    *)
StopPublishing ==
  /\ player.pc = "finish"
  /\ player' = [player EXCEPT !.pc = "record", !.skipCount = Cardinality(skips)]
  /\ nowPlaying' = NoItem
  /\ skips' = {}
  /\ UNCHANGED <<dbVars, onStandby, skipped, screen, endReports, clients, voter,
                 requests, stopVars, updateVars, crashes>>

(* Mutant: twice the clients.                                              *)
NeededSkips_Doubled(active) == (Cardinality(active) + 1) * 2

(* calculateNeededSkips: half of the active clients, and at least one.     *)
NeededSkips(active) ==
  LET half == (Cardinality(active) + 1) \div 2 IN IF half < 1 THEN 1 ELSE half

(* Mutant: a skipped video is not recorded.                                *)
RecordFinished_NotSkipped ==
  /\ player.pc = "record"
  /\ IF player.reason = "Skipped"
     THEN UNCHANGED dbVars
     ELSE PlaylistItemFinished(player.item.id, player.reason, player.skipCount,
                               NeededSkips(clients))
  /\ player' = Loop("check", NoItem)
  /\ UNCHANGED <<onStandby, skipped, screen, endReports, voteVars, stopVars,
                 updateVars, crashes>>

(* ... and then the history row, with the clients active by now.           *)
RecordFinished ==
  /\ player.pc = "record"
  /\ PlaylistItemFinished(player.item.id, player.reason, player.skipCount,
                          NeededSkips(clients))
  /\ player' = Loop("check", NoItem)
  /\ UNCHANGED <<onStandby, skipped, screen, endReports, voteVars, stopVars,
                 updateVars, crashes>>

-----------------------------------------------------------------------------
(* VLC reaches the end of what it plays, a video or the standby image      *)
(* (Player.cpp:102).  The bound on endReports is one.                      *)
EndReached ==
  /\ screen # "off"
  /\ endReports = 0
  /\ screen' = "off"
  /\ endReports' = 1
  /\ UNCHANGED <<dbVars, player, onStandby, skipped, voteVars, stopVars,
                 updateVars, crashes>>

(* Mutant: the end of the standby image is ignored.                        *)
VideoFinishCallback_IgnoresStandby ==
  /\ endReports > 0
  /\ endReports' = endReports - 1
  /\ IF onStandby THEN UNCHANGED player ELSE WakeLoop
  /\ UNCHANGED <<dbVars, onStandby, skipped, screen, voteVars, stopVars,
                 updateVars, crashes>>

VideoFinishCallback ==
  /\ endReports > 0
  /\ endReports' = endReports - 1
  /\ WakeLoop
  /\ UNCHANGED <<dbVars, onStandby, skipped, screen, voteVars, stopVars,
                 updateVars, crashes>>

-----------------------------------------------------------------------------
(* POST /skip.  The client counts as active; the page it clicked on may be *)
(* of any age.  The votes needed are counted before the vote is cast.      *)
SkipVideo(c, id) ==
  /\ voter[c].pc = "idle" /\ requests < MaxRequests
  /\ requests' = requests + 1
  /\ clients' = clients \cup {c}
  /\ voter' = [voter EXCEPT ![c] = [pc |-> "vote", media |-> id,
                                    needed |-> NeededSkips(clients')]]
  /\ UNCHANGED <<dbVars, loopVars, nowPlaying, skips, stopVars, updateVars, crashes>>

(* Under nowPlayingMutex: only a vote for what is playing counts.          *)
CastVote(c) ==
  /\ voter[c].pc = "vote"
  /\ IF nowPlaying # NoItem /\ nowPlaying.media = voter[c].media
     THEN /\ skips' = skips \cup {c}
          /\ nowPlaying' = [nowPlaying EXCEPT !.skipCount = Cardinality(skips'),
                                              !.skipsNeeded = voter[c].needed]
          /\ voter' = [voter EXCEPT ![c] =
                         IF Cardinality(skips') >= voter[c].needed
                         THEN [@ EXCEPT !.pc = "skip"] ELSE NotVoting]
     ELSE /\ voter' = [voter EXCEPT ![c] = NotVoting]
          /\ UNCHANGED <<nowPlaying, skips>>
  /\ UNCHANGED <<dbVars, loopVars, clients, requests, stopVars, updateVars, crashes>>

(* Player::skipCurrent, with nowPlayingMutex released.                     *)
SkipCurrent(c) ==
  /\ voter[c].pc = "skip"
  /\ skipped' = TRUE
  /\ WakeLoop
  /\ voter' = [voter EXCEPT ![c] = NotVoting]
  /\ UNCHANGED <<dbVars, onStandby, screen, endReports, nowPlaying, skips, clients,
                 requests, stopVars, updateVars, crashes>>

(* Any other request makes its client active; silence makes it inactive.   *)
Visit(c) ==
  /\ clients' = clients \cup {c}
  /\ UNCHANGED <<dbVars, loopVars, nowPlaying, skips, voter, requests, stopVars,
                 updateVars, crashes>>

TimeOut(c) ==
  /\ c \in clients
  /\ clients' = clients \ {c}
  /\ UNCHANGED <<dbVars, loopVars, nowPlaying, skips, voter, requests, stopVars,
                 updateVars, crashes>>

-----------------------------------------------------------------------------
(* POST /addMedia of a known media: the player is not told.                *)
QueueMedia(id) ==
  /\ Cardinality(playlist) + Cardinality(history) < MaxHistoryId
  /\ AddToPlaylist(id)
  /\ UNCHANGED <<loopVars, voteVars, stopVars, updateVars, crashes>>

(* The downloader updates a media, and may find that it is another one     *)
(* (Downloader shows when and how), ...                                    *)
MediaUpdated(m, id) ==
  /\ ~notifying /\ updates < MaxUpdates
  /\ m.status # "Initial"
  /\ updates' = updates + 1
  /\ UpdateMediaInfo(m, id)
  /\ notifying' = (m.status = "Ready")
  /\ UNCHANGED <<loopVars, voteVars, stopVars, crashes>>

(* ... and tells the player when it is Ready.                              *)
NotifyMediaUpdate ==
  /\ notifying
  /\ notifying' = FALSE
  /\ IF onStandby THEN WakeLoop ELSE UNCHANGED player
  /\ UNCHANGED <<dbVars, onStandby, skipped, screen, endReports, voteVars,
                 stopVars, updates, crashes>>

-----------------------------------------------------------------------------
(* SIGINT or SIGHUP: the handler sets the flag ...                         *)
Signal ==
  /\ ~handling /\ signals < MaxSignals /\ player.pc # "exited"
  /\ signals' = signals + 1
  /\ shutdownFlag' = TRUE
  /\ handling' = TRUE
  /\ UNCHANGED <<dbVars, loopVars, voteVars, updateVars, crashes>>

(* ... and then wakes the loop if it is to stop at once.                   *)
SignalNotify ==
  /\ handling
  /\ handling' = FALSE
  /\ IF signals > 1 \/ onStandby THEN WakeLoop ELSE UNCHANGED player
  /\ UNCHANGED <<dbVars, onStandby, skipped, screen, endReports, voteVars,
                 shutdownFlag, signals, updateVars, crashes>>

(* The process dies and is started again: the tables remain.               *)
Crash ==
  /\ crashes < MaxCrashes
  /\ crashes' = crashes + 1
  /\ player' = Loop("check", NoItem)
  /\ onStandby' = TRUE /\ skipped' = FALSE /\ shutdownFlag' = FALSE
  /\ screen' = "off" /\ endReports' = 0
  /\ nowPlaying' = NoItem /\ skips' = {}
  /\ clients' = {} /\ voter' = [c \in Client |-> NotVoting]
  /\ notifying' = FALSE
  /\ signals' = 0 /\ handling' = FALSE
  /\ UNCHANGED <<dbVars, requests, updates>>

PassTime ==
  /\ Tick
  /\ UNCHANGED <<loopVars, voteVars, stopVars, updateVars, crashes>>

(* run() has returned: the end of what is modelled here.                   *)
Ended == player.pc = "exited" /\ UNCHANGED vars

-----------------------------------------------------------------------------
LoopStep ==
  \/ CheckShutdown \/ PopNext \/ Publish \/ StartMedia
  \/ AfterWait \/ StopPublishing \/ RecordFinished

VoteStep(c) == CastVote(c) \/ SkipCurrent(c)

Next ==
  \/ LoopStep \/ SpuriousWakeup
  \/ EndReached \/ VideoFinishCallback
  \/ \E c \in Client : \/ \E id \in MediaId : SkipVideo(c, id)
                       \/ VoteStep(c) \/ Visit(c) \/ TimeOut(c)
  \/ \E id \in MediaId : QueueMedia(id)
  \/ \E m \in MediaInfoId : \E id \in FinalIds(m) : MediaUpdated(m, id)
  \/ NotifyMediaUpdate
  \/ Signal \/ SignalNotify \/ Crash \/ PassTime \/ Ended

Spec == Init /\ [][Next]_vars

(* The loop and the callbacks get to run, and what VLC plays ends.         *)
(* Requests, signals, crashes and spurious wakeups may never come.         *)
Fairness ==
  /\ WF_vars(LoopStep) /\ WF_vars(EndReached) /\ WF_vars(VideoFinishCallback)
  /\ WF_vars(NotifyMediaUpdate) /\ WF_vars(SignalNotify)
  /\ \A c \in Client : WF_vars(VoteStep(c))

FairSpec == Spec /\ Fairness

-----------------------------------------------------------------------------
PlayerTypeOK ==
  /\ DbTypeOK
  /\ player \in [pc : {"check", "pop", "publish", "start", "waiting", "woken",
                       "finish", "record", "exited"},
                 item : HistoryItem \cup {NoItem},
                 reason : FinishReason, skipCount : SkipCount]
  /\ {onStandby, skipped, shutdownFlag, notifying, handling} \subseteq BOOLEAN
  /\ screen \in {"off", "standby", "video"} /\ endReports \in 0 .. 1
  /\ nowPlaying \in HistoryItem \cup {NoItem}
  /\ skips \subseteq Client /\ clients \subseteq Client
  /\ voter \in [Client -> [pc : {"idle", "vote", "skip"},
                           media : {0} \cup MediaId, needed : SkipCount]]
  /\ signals \in 0 .. MaxSignals /\ requests \in 0 .. MaxRequests
  /\ updates \in 0 .. MaxUpdates /\ crashes \in 0 .. MaxCrashes

(* The assertions of Utuputki.cpp (137, 139, 181): nothing is published    *)
(* over another video, no vote is left over from the one before, and the   *)
(* count in nowPlaying is that of the votes.                               *)
PublishedState ==
  /\ player.pc = "publish" => nowPlaying = NoItem /\ skips = {}
  /\ nowPlaying = NoItem => skips = {}
  /\ nowPlaying # NoItem => nowPlaying.skipCount = Cardinality(skips)

(* What is published as now playing is an open row of the history.         *)
PublishedIsOpen ==
  nowPlaying # NoItem =>
    \E h \in history : /\ h.id = nowPlaying.id /\ h.media = nowPlaying.media
                       /\ h.finishReason = "NULL"

(* A history row is left open only by a crash while it was playing, once   *)
(* per crash.                                                              *)
OpenRows == {h \in history : h.finishReason = "NULL"}

FewOpenRows ==
  Cardinality(OpenRows) <= crashes + (IF player.item = NoItem THEN 0 ELSE 1)

(* The record of a finished video never changes again.                     *)
ClosedForGood ==
  [][\A h \in history : h.finishReason # "NULL" => h \in history']_vars

(* A Ready media on the playlist is eventually played, unless the program  *)
(* is stopped (or the media is downloaded again, or fails).                *)
Playable(id) == \E p \in ReadyItems : p.media = id
ReadyGetsPlayed ==
  \A id \in MediaId : Playable(id) ~> ~Playable(id) \/ shutdownFlag

(* A signal ends the loop, if nothing kills the process first.             *)
SignalStops == shutdownFlag ~> player.pc = "exited" \/ ~shutdownFlag

(* README.md:51: "twice terminates immediately": with both signals         *)
(* delivered the loop does not go on waiting for a video to end.           *)
TwiceIsImmediate ==
  signals = 2 /\ ~handling => ~(player.pc = "waiting" /\ screen = "video")

(* Utuputki.cpp:221-225: a vote for another video than the one that plays  *)
(* has no effect; so what is recorded as Skipped had a vote against it.    *)
SkippedWasVoted ==
  \A h \in history : h.finishReason = "Skipped" => h.skipCount > 0

=============================================================================
