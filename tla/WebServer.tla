------------------------------ MODULE WebServer ------------------------------
(***************************************************************************)
(* The web server's own state (WebServer.cpp): the table of clients whose  *)
(* number decides how many votes skip a video, and the playlist page with  *)
(* the times it forecasts.                                                 *)
(*                                                                         *)
(* The page is put together from two reads, nowPlaying and the playlist,   *)
(* with nothing held in between, while the player moves entries from one   *)
(* to the other.  Numbers on the page are unsigned: modulo WordSize.  Time *)
(* is in seconds; what Database and Player show in detail is left out.     *)
(***************************************************************************)
EXTENDS Integers, FiniteSetsExt, Functions

CONSTANTS
  Client,         \* addresses that requests come from
  ClientTimeout,  \* clientTimeoutSeconds (with 0 no client would count)
  RefreshSeconds, \* 60, the page is never reloaded later than that
  WordSize,       \* 2^32, the number of values of an unsigned int
  MaxLength,      \* bounds of the length of a video,
  MaxQueued,      \* of the number of videos queued
  MaxTime,        \* and of time
  NoVideo         \* the empty optional

Word == 0 .. (WordSize - 1)

ASSUME WebServerBounds ==
  /\ ClientTimeout \in Nat \ {0}
  /\ MaxQueued \in Nat /\ MaxTime \in Nat
  /\ WordSize \in Nat /\ RefreshSeconds \in 1 .. (WordSize - 1)
  /\ MaxLength \in Word       \* MediaInfo::length is an unsigned int

(* A word of seconds, 136 years, is more than the program runs.            *)
ASSUME TimeFits == MaxTime <= WordSize

VARIABLES
  clock,
  clients,            \* address -> lastActive
  nextClientCleanup,
  lastRequest,        \* address -> time of its last request, for the properties
  playlist,           \* entries that wait
  playing,            \* the entry the player has popped
  nowPlaying,         \* the same once it is published
  queued,             \* number of entries so far
  page                \* the playlist page that is being put together

clientVars == <<clients, nextClientCleanup, lastRequest>>
playVars == <<playlist, playing, nowPlaying, queued>>
vars == <<clock, clientVars, playVars, page>>

Time == 0 .. MaxTime
Entry == [id : 1 .. MaxQueued, length : 0 .. MaxLength]
Video == [entry : Entry, startTime : Time]

ASSUME NoVideoAssumption == NoVideo \notin Video

(* A page before anything has been read: asked is the time at which the    *)
(* elapsed time was taken, now that of the start times.                    *)
Blank(pc, time) ==
  [pc |-> pc, began |-> time, video |-> NoVideo, asked |-> time, left |-> 0,
   refresh |-> RefreshSeconds, waiting |-> {}, start |-> <<>>, now |-> time]

Init ==
  /\ clock = 0
  /\ clients = <<>> /\ nextClientCleanup = clock + ClientTimeout
  /\ lastRequest = <<>>
  /\ playlist = {} /\ playing = NoVideo /\ nowPlaying = NoVideo /\ queued = 0
  /\ page = Blank("idle", 0)

-----------------------------------------------------------------------------
(* The clients.  All of this is under clientsMutex.                        *)

Stamped(table, c) ==
  [x \in DOMAIN table \cup {c} |-> IF x = c THEN clock ELSE table[x]]

(* Mutant: a client already in the table keeps its first time.             *)
Seen_First(c) == IF c \in DOMAIN clients THEN clients ELSE Stamped(clients, c)

Seen(c) == Stamped(clients, c)

(* cleanupClients does nothing until it is due.                            *)
CleanupDue == clock >= nextClientCleanup

Cleaned(table) ==
  IF CleanupDue
  THEN Restrict(table, {c \in DOMAIN table : table[c] >= clock - ClientTimeout})
  ELSE table

(* Mutant: the next clean-up comes a timeout late.                         *)
NextCleanup_Doubled ==
  IF CleanupDue THEN clock + 2 * ClientTimeout ELSE nextClientCleanup

NextCleanup == IF CleanupDue THEN clock + ClientTimeout ELSE nextClientCleanup

(* What every request does first.                                          *)
Process(c) ==
  /\ clients' = Cleaned(Seen(c))
  /\ nextClientCleanup' = NextCleanup
  /\ lastRequest' = Stamped(lastRequest, c)

CleanupClients ==
  /\ clients' = Cleaned(clients)
  /\ nextClientCleanup' = NextCleanup
  /\ UNCHANGED lastRequest

(* The clients a caller of getNumActiveClients would count now.            *)
ActiveClients == DOMAIN Cleaned(clients)

(* Any request that does not ask for the playlist page.                    *)
Request(c) ==
  /\ Process(c)
  /\ UNCHANGED <<clock, playVars, page>>

(* skipVideo and playlistItemFinished ask how many votes are needed.       *)
GetNumActiveClients ==
  /\ CleanupClients
  /\ UNCHANGED <<clock, playVars, page>>

-----------------------------------------------------------------------------
(* GET /playlist.                                                          *)

GetPlaylistPage(c) ==
  /\ page.pc \in {"idle", "done"}
  /\ Process(c)
  /\ page' = Blank("nowPlaying", clock)
  /\ UNCHANGED <<clock, playVars>>

(* int64_t seconds, and then unsigned int.                                 *)
Elapsed(video) == (clock - video.startTime) % WordSize

(* Mutant: the difference has a sign.                                      *)
Left_Signed(video) == video.entry.length - Elapsed(video)

Left(video) == (video.entry.length - Elapsed(video)) % WordSize

(* std::min(refreshSeconds, left + 1) of unsigned numbers.                 *)
RefreshAfter(left) == Min({RefreshSeconds, (left + 1) % WordSize})

(* Mutant: a video is added to the sum before it is shown.                 *)
CumulativeLength_WithOwn(waiting, e) ==
  MapThenSumSet(LAMBDA f : f.length, {f \in waiting : f.id <= e.id})

(* The lengths of the entries before e.                                    *)
CumulativeLength(waiting, e) ==
  MapThenSumSet(LAMBDA f : f.length, {f \in waiting : f.id < e.id})

Shown(waiting) ==
  [page EXCEPT !.waiting = waiting, !.now = clock, !.pc = "done",
     !.start = [e \in waiting |-> (page.left + CumulativeLength(waiting, e)) % WordSize],
     !.refresh = IF page.video = NoVideo /\ waiting # {} THEN 1 ELSE @]

(* Mutant: what is playing is read after the playlist.                     *)
ReadNowPlaying_Last ==
  /\ \/ page.pc = "nowPlaying" /\ page' = Shown(playlist)
     \/ /\ page.pc = "done" /\ page.video = NoVideo
        /\ page' = [page EXCEPT !.video = nowPlaying]
  /\ UNCHANGED <<clock, clientVars, playVars>>

(* Utuputki::getNowPlaying: the copy, under nowPlayingMutex ...            *)
ReadNowPlaying ==
  /\ page.pc = "nowPlaying"
  /\ page' = [page EXCEPT !.video = nowPlaying,
                          !.pc = IF nowPlaying = NoVideo THEN "playlist" ELSE "left"]
  /\ UNCHANGED <<clock, clientVars, playVars>>

(* ... the votes it needs, and, with no mutex, what is left of it.         *)
ReadClock ==
  /\ page.pc = "left"
  /\ CleanupClients
  /\ page' = [page EXCEPT !.asked = clock, !.left = Left(page.video),
                          !.refresh = RefreshAfter(Left(page.video)),
                          !.pc = "playlist"]
  /\ UNCHANGED <<clock, playVars>>

(* Utuputki::getPlaylist, one transaction, and the start times.            *)
ReadPlaylist ==
  /\ page.pc = "playlist"
  /\ page' = Shown(playlist)
  /\ UNCHANGED <<clock, clientVars, playVars>>

-----------------------------------------------------------------------------
(* What the rest of the program does meanwhile.  Database and Player have  *)
(* the details; an entry is taken from the playlist in one step and        *)
(* published in the next.                                                  *)

AddToPlaylist(length) ==
  /\ queued < MaxQueued
  /\ queued' = queued + 1
  /\ playlist' = playlist \cup {[id |-> queued', length |-> length]}
  /\ UNCHANGED <<clock, clientVars, playing, nowPlaying, page>>

(* A video that fails or is merged with another one.                       *)
RemoveFromPlaylist(e) ==
  /\ playlist' = playlist \ {e}
  /\ UNCHANGED <<clock, clientVars, playing, nowPlaying, queued, page>>

(* The first Ready entry, which may be any; the loop plays one at a time.  *)
PopNextPlaylistItem(e) ==
  /\ playing = NoVideo
  /\ playlist' = playlist \ {e}
  /\ playing' = [entry |-> e, startTime |-> clock]
  /\ UNCHANGED <<clock, clientVars, nowPlaying, queued, page>>

Publish ==
  /\ playing # NoVideo /\ nowPlaying = NoVideo
  /\ nowPlaying' = playing
  /\ UNCHANGED <<clock, clientVars, playlist, playing, queued, page>>

(* The video ends, sooner or later than its length says.                   *)
PlaylistItemFinished ==
  /\ nowPlaying # NoVideo
  /\ nowPlaying' = NoVideo /\ playing' = NoVideo
  /\ UNCHANGED <<clock, clientVars, playlist, queued, page>>

Tick ==
  /\ clock < MaxTime
  /\ clock' = clock + 1
  /\ UNCHANGED <<clientVars, playVars, page>>

-----------------------------------------------------------------------------
PageStep == ReadNowPlaying \/ ReadClock \/ ReadPlaylist

Next ==
  \/ \E c \in Client : Request(c) \/ GetPlaylistPage(c)
  \/ GetNumActiveClients
  \/ PageStep
  \/ \E length \in 0 .. MaxLength : AddToPlaylist(length)
  \/ \E e \in playlist : RemoveFromPlaylist(e) \/ PopNextPlaylistItem(e)
  \/ Publish \/ PlaylistItemFinished
  \/ Tick

Spec == Init /\ [][Next]_vars

-----------------------------------------------------------------------------
ClientsTypeOK ==
  /\ clock \in Time
  /\ DOMAIN clients \subseteq Client
  /\ clients \in [DOMAIN clients -> Time]
  /\ DOMAIN lastRequest \subseteq Client
  /\ lastRequest \in [DOMAIN lastRequest -> Time]
  /\ nextClientCleanup \in ClientTimeout .. (MaxTime + ClientTimeout)

PlayTypeOK ==
  /\ playlist \subseteq Entry /\ queued \in 0 .. MaxQueued
  /\ playing \in Video \cup {NoVideo} /\ nowPlaying \in Video \cup {NoVideo}

PageTypeOK ==
  /\ page.pc \in {"idle", "nowPlaying", "left", "playlist", "done"}
  /\ page.video \in Video \cup {NoVideo}
  /\ page.waiting \subseteq Entry
  /\ page.start \in [page.waiting -> Word]
  /\ page.left \in Word /\ page.refresh \in 0 .. RefreshSeconds
  /\ {page.began, page.asked, page.now} \subseteq Time

WebServerTypeOK == ClientsTypeOK /\ PlayTypeOK /\ PageTypeOK

(* cleanupClients (WebServer.cpp:931): whenever the votes needed are       *)
(* computed, every client that has made a request within the timeout       *)
(* counts, however the clean-ups fell between its requests ...             *)
RecentCount ==
  \A c \in DOMAIN lastRequest :
    clock - lastRequest[c] <= ClientTimeout => c \in ActiveClients

(* ... and none that has been silent for two timeouts does.                *)
SilentDoNotCount ==
  \A c \in ActiveClients :
    /\ c \in DOMAIN lastRequest
    /\ clock - lastRequest[c] < 2 * ClientTimeout

(* PlaylistHandler::handleGet (WebServer.cpp:563): what the page shows as  *)
(* playing it does not show as waiting too, although the two are read one  *)
(* after the other.                                                        *)
ShownOnce ==
  page.pc = "done" /\ page.video # NoVideo => page.video.entry \notin page.waiting

Follows(e, f) == e.id < f.id /\ \A g \in page.waiting : ~(e.id < g.id /\ g.id < f.id)
First(e) == \A f \in page.waiting : e.id <= f.id
PlannedEnd == IF page.video = NoVideo THEN page.asked
              ELSE page.video.startTime + page.video.entry.length

(* When the page says that the current video ends.  `left' has wrapped     *)
(* around when the video had overrun as the page asked (WebServer.cpp:583):*)
(* the whole playlist is announced a word of seconds late.                 *)
ShownEnd == IF page.asked <= PlannedEnd THEN PlannedEnd ELSE PlannedEnd + WordSize

(* The start times on the page (WebServer.cpp:604): each video starts when *)
(* the one before it ends, modulo a word, and the first one when the page  *)
(* says that the current one does, or at once when there is none: never    *)
(* before, and after it by no more than the time it took to put the page   *)
(* together, whatever the player does meanwhile.                           *)
BackToBack ==
  page.pc = "done" =>
    /\ \A e, f \in page.waiting :
         Follows(e, f) => page.start[f] = (page.start[e] + e.length) % WordSize
    /\ \A e \in page.waiting : First(e) =>
         page.now + page.start[e] \in ShownEnd .. (ShownEnd + page.now - page.began)

(* WebServer.cpp:587: "make sure we autorefresh just after finishing this  *)
(* one": within a second of the end of the video by its length, or at once *)
(* when it should have ended already.                                      *)
RefreshesAfterEnd ==
  page.pc = "done" /\ page.video # NoVideo =>
    page.refresh <= 1 + Max({0, PlannedEnd - page.asked})
=============================================================================
