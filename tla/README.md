# TLA+ verification of utuputki

Utuputki is a video jukebox: users paste video URLs into a web page, the
server fetches them with youtube-dl and shows them one after the other on a
screen, and enough users together can skip what is playing. This directory
holds TLA+ modules for the parts of `src/utuputki` that keep state, TLC
configurations that check them on small instances, and TLAPS proofs of theorems
that hold for instances of every size.

## 1. The system

| component | source | state | operations | called by |
|---|---|---|---|---|
| Database | `Database.cpp`, `create_database.sql` | the tables `media`, `playlist`, `history`; ids are SQLite row ids | `getOrAddMediaByURL`, `addToPlaylist`, `updateMediaInfo`, `popNextPlaylistItem`, `playlistItemFinished`, and reads; one transaction each, under `dbMutex` | every thread, through Utuputki |
| Downloader | `Downloader.cpp` | `metadataQueue`, `downloaderQueue`, their mutexes and condition variables, two shutdown flags; each thread holds a *copy* of a media row | `addMedia` (in an HTTP worker), `startThreads`, `metadataThreadFunc`, `downloaderThreadFunc`, the destructor | HTTP workers, main thread |
| Player | `Player.cpp` | `onStandby`, `skipped`, `shutdownFlag`; `helpMutex` and `helpCV` | `run` (main thread), `videoFinishCallback` (a VLC thread), `skipCurrent` (HTTP worker), `notifyMediaUpdate` (downloader thread), `shutdown` (signal handler) | as named |
| Utuputki | `Utuputki.cpp`, `main.cpp` | `nowPlaying`, `skips` under `nowPlayingMutex`; `shutdownCounter`, `reExecFlag`; owns the others | forwards between the components; `skipVideo`, `popNextPlaylistItem`, `playlistItemFinished`, signal handlers, re-execution, order of destruction | HTTP workers, main thread, signals |
| HTTP library | `civetweb.c`, `CivetServer.cpp` | the ring of accepted connections, `stop_flag`; a master thread and workers | `mg_start`, `accept_new_connection`, `produce_socket`, `consume_socket`, `mg_stop` | WebServer, which it calls back in its workers |
| WebServer | `WebServer.cpp` | `clients`: address to time of last request, and `nextClientCleanup`, under `clientsMutex` | request handlers (`/addMedia`, `/skip`, `/playlist`, lists), `getNumActiveClients`, `cleanupClients` | the HTTP library's workers; the main thread counts clients |
| Config, Logger, Utils, embed | | none after start | pure functions and output | |

How they interact:

    browser --POST /addMedia--> Downloader.addMedia --> Database (row Initial)
                                     | metadataQueue
                                     v
                              metadata thread --> Database (Downloading, or merged)
                                     | downloaderQueue
                                     v
                              downloader thread --> Database (Ready) --> Player.notifyMediaUpdate
    browser --POST /skip--> Utuputki.skipVideo (votes) --> Player.skipCurrent
    VLC --end reached--> Player loop --> Database (history), next item from playlist
    SIGINT / SIGHUP --> Player.shutdown --> run() returns --> destructors, perhaps exec

What is hard here:

* **Copies of rows.** A worker or a thread reads a row in one transaction and
  writes it back in a later one. In between other threads change it, *merge* it
  into another row (when youtube-dl says two URLs are one video) and delete it,
  and SQLite may give its id to a new row.
* **One event, several critical sections.** The end of a video changes
  `nowPlaying`, the votes and the history one after the other; a skip is
  decided under one mutex and carried out under another.
* **Condition variables.** Queues are notified only when they were empty; the
  player waits without a predicate, so a notification before the wait is lost
  and a late or spurious one ends what is playing.
* **Crash, shutdown, restart.** The queues die with the process and are rebuilt
  from the table; the destructors join threads that may be asleep, and destroy
  the player before the threads that call it.
* **Signals and the end of the process.** A handler runs on whatever thread it
  interrupts, and takes a mutex; the flag for re-execution is set after the
  wakeup; handlers are restored and members destroyed while the threads of the
  HTTP library and the downloader still run, and their queues may be full.
* **Two reads and unsigned seconds.** The playlist page reads what is playing and
  what waits one after the other, and computes with a time left that is
  negative when a video overruns its length. Clients are only removed at
  clean-ups that any request may find due.

What makes each component correct:

* Database: the constraints of the schema survive every merge; a media is on
  the playlist at most once; an entry keeps its place until it is played,
  fails, or turns out to be an earlier one.
* Downloader: no thread sleeps while it has work; only one row per video is
  downloaded, whatever the race; unfinished media is never forgotten and is
  finished in the end, across crashes; requests are answered; shutdown ends.
* Player and Utuputki: what is published as playing is an open history row; no
  vote leaks from one video to the next; history rows are closed once and only
  a crash leaves one open; queued Ready media gets played; signals stop the loop.
* The whole process: what the users submit is shown once at most and in order,
  across merges, failures and crashes; the threads find what they use while the
  members are destroyed; a signal ends the process; no connection is forgotten
  or served twice.
* WebServer: whoever was active lately counts and whoever is gone does not; the
  page shows nothing twice and its times follow from each other, also when
  the unsigned arithmetic wraps.

`PROJECT.json` lists the components with what is left out of each, the hazards
at their lines, and the source lines every definition stands for.

## 2. The modules

| module | models | extends |
|---|---|---|
| `Database` | the tables and the methods, for any callers | |
| `DatabaseProofs` | theorems about `DbSpec` | `Database`, `TLAPS` |
| `Downloader` | HTTP workers in `addMedia`, both threads, start, shutdown, crash | `Database` |
| `DownloaderProofs` | theorems about `Downloader`'s `Spec` | `Downloader`, `DatabaseProofs` |
| `OwnershipProofs` | theorems about who has which media in hand | `DownloaderProofs` |
| `Player` | the loop, VLC's reports, votes, signals, crash | `Database` |
| `PlayerProofs` | theorems about `Player`'s `Spec` | `Player`, `DatabaseProofs` |
| `Screening` | abstract: what is promised to those who submit videos | |
| `PlayerScreening` | `Player` as an implementation of `Screening` | `Player` |
| `ScreeningProofs` | the refinement theorem | `PlayerScreening`, `PlayerProofs` |
| `WebServer` | the table of clients, the playlist page | |
| `WebServerProofs` | theorems about `WebServer`'s `Spec` | `WebServer`, `TLAPS` |
| `ConnectionQueue` | abstract: a bounded queue that hands connections to workers | |
| `WorkerPool` | the threads of the HTTP library and their ring buffer, an implementation of `ConnectionQueue` | |
| `WorkerPoolProofs` | theorems about `PoolSpec`, and its refinement | `WorkerPool`, `TLAPS` |
| `Lifecycle` | the process from `main` to exit or exec: signals, the player's wait, destructors, the worker pool | `WorkerPool` |
| `LifecycleProofs` | theorems about `Lifecycle`'s `Spec` | `Lifecycle`, `WorkerPoolProofs` |
| `MCDatabase`, `MCDownloader`, `MCPlayer`, `MCWebServer`, `MCLifecycle` | symmetry sets and the alias table for TLC | the above |

### Database

A table is a set of records with the columns the control depends on. Each
method is one action (all of them run under `dbMutex` in a transaction), with
the returned value as a parameter: `GetOrAddMediaByURL(url, row)`,
`UpdateMediaInfo(m, id)` where `m` is the caller's copy and `id` the id it has
afterwards. `updateMediaInfo` has three outcomes, and each is an operator: it
commits, it throws because SQLite refuses to delete a row the history refers
to (`UpdateMediaInfoThrows`), or the assertion at line 433 ends the process
(`UpdateMediaInfoAborts`). `IsNewRowId` is SQLite's rule for new ids: largest
plus one, so the id of a deleted last row comes back. `queueTime` counts whole
seconds, so `ORDER BY queueTime` may take either of two rows of one second.
`DbNext` lets any caller call anything with any copy of a row: what holds there
holds for whatever the threads do.

Left out: payload columns, migrations of the schema, `SQLITE_BUSY` and disk
errors; the exception in `popNextPlaylistItem` (a playlist entry without a
media row) cannot occur while the foreign keys hold, which is proved. The clock
does not run backwards.

### Downloader

| state | code |
|---|---|
| `phase` | where the main thread is: `down`, `serving` (web server started), `loading` (in `startThreads`), `running` (`player.run`), `closing` (`~WebServer`), `stopping` (`~DownloaderImpl`) |
| `request[w]` | a worker in `addMedia`: `retry` (has read a Failed row), `enqueue`, `playlist`; with its copy |
| `metadataThread`, `downloaderThread` | `pop`, `waiting` in the condition variable, `fetch`, `push`, with a copy; `none` before start and after exit |
| `snapshot` | what `startThreads` has read and not queued yet |
| `aborted` | the assertion that ended the process |

An action is what a thread does between two points where another can get in: a
transaction or a section under a mutex. `Notified` is `notify_one`, which does
nothing to a thread that does not wait. A spurious wakeup of a queue's wait
goes back to `pop`, finds what it found before, and is left out. `RacedEnqueue`
is the data race between a worker's push and `startThreads`: besides the two
serialised orders, one of the two pushes may be lost.
`getMediaInfo` and the insert of `addToPlaylist` are one action, since both
fail for the same missing row and nothing else is done between them.
youtube-dl is external: `Canonical[url]` is the `webpage_url` it answers with,
which names itself; it may also fail at any time, before or after the URL has
been set. What it costs to download and files on disk are left out.

The player is a one-line environment here (`PlayNext`), and the downloader is
one in `Player` (`MediaUpdated`); both take their steps from `Database`.

### Player

| state | code |
|---|---|
| `player` | the loop: `pc`, the local `currentlyPlaying`, the `HistoryStatus` and skip count on their way to the history |
| `onStandby`, `skipped`, `shutdownFlag` | members of the same name |
| `screen`, `endReports` | what VLC plays, and `onEndReached` callbacks that are on their way |
| `nowPlaying`, `skips` | members of `UtuputkiImpl` |
| `voter[c]` | a worker in `skipVideo` for client `c`: `vote` (the number of votes needed is computed), `skip` (enough votes, the mutex released) |
| `notifying`, `signals`, `handling` | a downloader thread between the update and `notifyMediaUpdate`; `shutdownCounter`; a handler between setting the flag and `helpMutex` |

`WakeLoop` is `notify_one` on `helpCV`. The wait has no predicate, so a spurious
wakeup (`SpuriousWakeup`) and an end report of the video before
(`VideoFinishCallback` after `StartMedia`) both end the current one, as they do
in the code. A client becomes inactive in `TimeOut(c)`, at any time; when it does is the
subject of `WebServer`.

`MediaUpdated` is any update the database allows, merges included. `Screening` is
what all of this is for: a line of submissions with the time they were made, the
media that can be shown, what is on the screen, what has been shown and what was
cut off. `PlayerScreening` maps `playlist` to the line, `player.item` to the
screen, closed rows of `history` to what was shown and the other open rows to
what was cut off; `ShownInOrder` says that every step of `Player` is then a step
of `Screening` or none. `updateMediaInfo` becomes `Learn`, in which two places in
the line become the earlier one; a crash becomes `CutOff`, after which the same
submission is not shown again.

Left out: `EncounteredError` of VLC, which the code does not subscribe to (a
file VLC cannot open is played until it is skipped), and what happens after
`run()` returns.

### WebServer

| state | code |
|---|---|
| `clients`, `nextClientCleanup` | members of the same name |
| `lastRequest` | no state of the program: when each client made its last request |
| `playlist`, `playing`, `nowPlaying` | the table; what the loop has popped; `nowPlaying` of Utuputki |
| `page` | a worker in `PlaylistHandler::handleGet`: what it has read, `left`, the refresh and the start times; `began`, `asked` and `now` are the times at which it was asked for and read the clock |

`Process(c)` is what every handler does first. `CleanupClients` happens in it, in
`getNumActiveClients` and so in `getNowPlaying`; `ActiveClients` is what a caller
would count. `PopNextPlaylistItem` and `Publish` are separate, as in `Player`. An
entry of the playlist is an id, in the order of the queue, and a length: the
playlist changes here in the ways that `Database` shows it may. `WordSize` stands
for 2^32; `Elapsed`, `Left`, the refresh and the start times are modulo it.

Left out: `X-Forwarded-For` (it only decides what a client's name is), the HTML
and JSON output, and pages other than the playlist, which have no state. The
clock of the system does not run backwards; if it is set back, clients stay
longer and times on the page are off by as much.

### WorkerPool

| state | code |
|---|---|
| `sqHead`, `sqTail`, `squeue` | `sq_head`, `sq_tail`, `squeue` of `mg_context`; a connection is its number |
| `stopFlag` | `stop_flag`, which is written and read without the mutex |
| `master` | `accept` (in its loop), `produce` (has accepted a connection), `blocked` (waits on `sq_empty`), `join`, `exited`; and the connection |
| `worker[w]` | `consume` (about to look at the queue), `waiting` (on `sq_full`), `return` (has unlocked and not read `stop_flag` yet), `busy` (in a handler), `exited`; and the connection |

A section under `thread_mutex` is one action. That `consume_socket` reads
`stop_flag` once more after the unlock is a step of its own (`ReturnSocket`), and
it matters: see `MasterForsaken` below. `ServedInOrder` maps the ring to the
sequence of `ConnectionQueue`: entry `i` is at `(sqTail + i - 1) % QueueSize`.

Left out: what happens inside a connection (keep-alive, TLS, parsing), failures
of `accept`, failures to create threads, the build with `ALTERNATIVE_QUEUE`.

### Lifecycle

| state | code |
|---|---|
| `main` | where the main thread is: `startServer` and `startThreads`, the loop of the player (`check`, `lock`, `starting` with `helpMutex` held, `waiting`, `woken`, `relocked` with the mutex held again), `returned`, `~Utuputki` (`restore`, `clear`), the destructors |
| `stack[t]` | the handlers that interrupt thread `t`, innermost last: main, or a member of `OtherThread`, which stands for the thread VLC calls back on, a worker or one of the downloader |
| `calling`, `calls` | what such a thread does while it holds `helpMutex`: `wake` (`videoFinishCallback`, `skipCurrent`) or `update` (`notifyMediaUpdate`); how often it did so other than at the end of a video |
| `helpMutex` | who holds it: a thread's own code (depth 0) or a handler on it |
| `left` | how many of the members of `UtuputkiImpl` are still there, in the order of their declaration |
| `global`, `handlesInt` | `UtuputkiImpl::global` is set; SIGINT still has utuputki's handler |
| `shutdownFlag`, `onStandby`, `shutdownCounter`, `reExecFlag`, `reExec` | of the same name |
| `hangup` | no state of the program: a SIGHUP came before main looked at `reExecFlag` (`sent`), and main looked while it was still in its handler on another thread (`overtaken`) |

Here the loop of the player is reduced to what can wake it. A video that ends
(`EndReached`) finds the loop waiting, because the loop holds `helpMutex` from the
start of the video to the wait. Late reports, skips and updates (`CallPlayer`)
come at any time, as long as their thread is there; each holds the mutex for two
steps, so that a signal may come in between. Counting and setting `shutdownFlag` go with the delivery of a
signal, and the handler's last read of `global` goes with its last step. When
the process dies (`Dies`), what it had in mind is reset.

When `execl` fails, main returns (`execFailed`).

Left out: failures during construction (`main` then ends with an exception), and
what `execl` starts. Which worker or download a thread of `OtherThread` is, is not
tied to the worker pool: the steps of both are interleaved freely.

## 3. What the runs check

TLC explores every reachable state of an instance. All runs have deadlock
checking on: a state with no step but `Ended` would be reported.

| run | shows | instance | states |
|---|---|---|---|
| `database` | `TableConstraints`, `PlaylistUnique`, `NoEntryPushedBack` | 3 URLs and media ids, 3 entries, 1 played, 2 points in time; any caller | 143 000 |
| `downloader` | `NoLostWakeup`, `OneRowPerVideo`, `OnlyRefusedIsForgotten` | 2 workers, 2 URLs of one video, 3 requests, from the very start of the program on (`EarlyRequests`) | 1 570 000 |
| `downloader_liveness` | `PendingIsOwned`, `Settles`, `Answered`, `ShutdownCompletes` | the same with two starts and requests only after `startThreads` | 273 000 |
| `player` | `PublishedState`, `PublishedIsOpen`, `FewOpenRows`, `ClosedForGood` | 2 media, 3 clients with 2 skip requests and any number of others, a crash | 3 230 000 |
| `player_liveness` | `ReadyGetsPlayed`, `SignalStops`, `ShownInOrder` | 2 media, 2 points in time, no clients, an update or merge by the downloader, a signal, a crash | 735 000 |
| `lifecycle` | `NoConnectionForgotten`, `UsersOutlived`, `HangupReexecs`, `NoOtherDeadlock`, `ServedInOrder`, `SignalsEnd` | 2 workers, a queue of 2; 5 connections and a signal, or a connection, 2 signals and a call of the player; on main and 2 other threads | 884 000 |
| `webserver` | `RecentCount`, `SilentDoNotCount`, `ShownOnce`, `BackToBack` | 2 clients, 3 videos of 0 or 1 second, words of 16 values, a timeout of 1 and 3 seconds in all | 3 410 000 |

Why these bounds are enough to be interesting:

* Three media ids with two URLs let the id of a merged row be given out again;
  three URLs in `database` let two merges follow each other on queued rows.
  Two points in time give both equal and different queue times.
* Three requests by two workers give the races that matter: alias against
  canonical URL, the same alias twice, and a retry of a Failed media by two
  workers. They do not give all of them: a run of an earlier `PendingIsOwned` with
  three URLs of one video, five requests and one worker found a played row that
  had been refused a merge and was forgotten although nothing stood in the way
  any more (a stale copy had given the other row a third URL). It now speaks of
  rows that have not been played, and is proved.
* Two starts give every crash or shutdown and the restart after it.
* Three clients are the least with which one vote is not enough:
  `calculateNeededSkips` is half of the active clients rounded up. The votes needed change
  between two votes as clients come and go. `player` has no signals: what they
  do to the tables is what `SpuriousWakeup` does; `player_liveness` has one, and
  `lifecycle` two.
* In `lifecycle` each worker can hold a connection while two wait in the queue
  and the master waits with another: five is the least for `MasterForsaken`. A
  queue of two gets out of order when an index goes wrong, and wraps after three
  connections. What needs many connections and what needs two signals are
  explored side by side (`Mixes`), since the handlers of two signals meet the
  player and the destructors, not the queue. Two threads beside main let one
  hold `helpMutex` while a handler on the other waits for it.
* `player_liveness` was also run with two signals and a crash, for `ShownInOrder`
  alone (1.2 million states).
* In `webserver` a video may overrun its length by up to three seconds, and three
  entries let the start times wrap around between two of those that wait. Each
  client can be stamped, missed by a clean-up, removed and come back.
* Bounds on counters (`MaxRequests`, `MaxUpdates`, `MaxCrashes`, `MaxStarts`, `MaxTime` and
  the row ids) stop the environment, never the program, except that no row can
  be inserted once the ids are used up; the instances have as many ids as their
  requests can use, apart from `playlist` and `history` ids in `downloader` (2
  and 1), where a further entry changes nothing for the queues.

`EarlyRequests` is what the code really does (the web server is started
before `startThreads`), and then the race may lose a push for good. The
liveness run sets it to FALSE to ask whether anything *else* forgets a media.
One exception remains, `Refused`: a row that has been played and now turns out to
be an alias cannot be deleted (foreign key of `history`), `updateMediaInfo`
throws, and the row stays as it is until the next start.
`OnlyRefusedIsForgotten` says of every step, with early requests too, that it
forgets nothing else; `PendingIsOwned` and `Settles` except rows that have been
played. The comment at `Database.cpp:454` ("history can't contain the new id
yet") rules such a row out; it takes one queued three times whose second fetch
fails, so that its old URL comes back after it has been played.

`NoOtherDeadlock` says of each state of the process that some thread can go on, by
guards that TLC was once made to compare with ENABLED of the actions (they are
the same in all 884 000 states); the run without either of its two exceptions
fails. TLC's own check of deadlocks could not show it, since a connection, a
signal or a spurious wakeup can come to threads that hang. `SelfDeadlock` was seen
with each kind of holder: main before and after the wait, a callback of VLC or a
skip, an update, and another handler.

`HangupReexecs` names one way to lose a SIGHUP: a handler on another thread has
woken main and main reads `reExecFlag` before the handler sets it. The run fails
without this exception, with a single signal already.

### Fairness

* Worker, metadata, downloader and main thread: weak fairness of their steps
  (`RequestStep`, `MetadataStep`, `DownloadStep`, `MainStep`). They are threads
  of the operating system, mutexes are held for short sections only, and
  youtube-dl is assumed to answer or to fail (it has timeouts of its own).
  What it answers is left open.
* Player: the loop, the callback thread, workers and signal handlers get to
  run (`LoopStep`, `VideoFinishCallback`, `NotifyMediaUpdate`, `VoteStep`,
  `SignalNotify`), and what VLC plays ends (`EndReached`). The last includes
  the standby image: the comment at `Player.cpp:102` says its end is
  reported "sometime". `ReadyGetsPlayed` depends on it, because
  `addToPlaylist` does not notify the player and a `notifyMediaUpdate` between
  `popNextPlaylistItem` and the wait is lost; if VLC never reported it, a media
  that was Ready when it was queued would not be played.
* Lifecycle: each thread gets to run (main, the master, each worker, the
  handlers on a thread, a thread that is in the player), a request's handler
  returns, what VLC plays ends (some thread takes `EndReached`), and
  the downloader's threads see that they shall stop, which `ShutdownCompletes` of
  `Downloader` shows. `SignalsEnd` has two exceptions, and the run shows that they
  are the only ones. `SelfDeadlock`: a handler waits for `helpMutex`, which the
  thread it interrupts holds, itself or in another handler. `MasterForsaken`:
  the master waits on `sq_empty` because the queue is full, every worker has
  taken its last connection and reads `stop_flag` only now, so none will signal;
  `mg_stop` waits for ever. The comment at `civetweb.c:19772` means to rule this out.
* Requests, signals, connections, starts, crashes, spurious wakeups: none. They need not happen.

### Where the code and its statements part

Each of these runs ends in a counterexample of one property.

| run | what happens |
|---|---|
| `row_gone` | the URL of an alias is submitted twice while its row is Initial, so it is queued twice. The first copy merges the row into the canonical one and deletes it; `updateMediaInfo` of the second copy fails `assert(!oldResult.empty())` (`Database.cpp:433`). If a new URL is submitted in between, SQLite gives it the deleted id and the second copy instead merges this unrelated video away, and its playlist entry shows the other video. |
| `player_gone` | a download that succeeds during shutdown notifies a player that has been destroyed: `assert(impl)` (`Player.cpp:313`) |
| `player_twice` | README: a second signal "terminates immediately"; both signals between the look at the flag and the wait are lost and the video plays to its end |
| `page_refresh` | "make sure we autorefresh just after finishing this one" (`WebServer.cpp:587`): `left` is unsigned, so a video that has overrun by two seconds has 2^32 - 2 seconds left, and the page is reloaded after 60 seconds instead of at once (with one second over, `left + 1` is 0 and it is reloaded without pause) |
| `player_skip` | a skip is decided for one video and carried out, with the mutex released, when the next one is on; it is recorded as Skipped with no votes |

## 4. What is proved

TLAPS checks `DatabaseProofs`: for any sets of URLs and any bounds, and for any
sequence of calls by any callers,

* `TypeCorrect`: `DbSpec => []DbTypeOK`
* `ConstraintsHold`: `DbSpec => []TableConstraints`
* `QueuedOnce`: `DbSpec => []PlaylistUnique`
* `PlacesKept`: `DbSpec => NoEntryPushedBack`

Assumptions: `BoundsAssumption` (the bounds are natural numbers; the ids start at
1) and `NoItemAssumption` (the empty optional is no history item).

The inductive invariant is `DbInv == DbTypeOK /\ TableConstraints /\
PlaylistUnique`. None of the parts is inductive alone: `updateMediaInfo` keeps
foreign keys because it repoints *the* entry of the merged row, and it drops at
most one of two entries, so it needs `PlaylistUnique` for the ids involved; that
in turn needs the rows found by id to be the only ones (`PrimaryKeys`). There is
a lemma per method (`GetOrAddKeepsInv`, `AddToPlaylistKeepsInv`, `UpdateKeepsInv`,
`PopKeepsInv`, `FinishedKeepsInv`, `TickKeepsInv`), on the method's action and
not on `DbNext`, so that a module that composes the database with its
callers can use them. The action property has one lemma per method as well;
the case of a merge looks at which of the two entries `Surplus` drops.

`DownloaderProofs`: for any sets of URLs and workers, any aliases and any bounds,

* `DownloaderTypeCorrect`: `Spec => []DownloaderTypeOK`
* `DownloaderUsesDatabase`: `Spec => DbSpec`
* `DownloaderKeepsTables`: `Spec => [](TableConstraints /\ PlaylistUnique) /\ NoEntryPushedBack`
* `NoWakeupIsLost`: `Spec => []NoLostWakeup`
* `OneRowIsKept`: `Spec => []OneRowPerVideo`

Further assumptions: `CanonicalAssumption` (the `webpage_url` of a `webpage_url` is
itself), `DownloaderBounds`, `NoMediaAssumption`.

`TypeInv == DbInv /\ DownloaderTypeOK /\ CopiesInHand` says in addition that whoever
is at work has a media row in hand: `DownloaderTypeOK` alone allows a thread that
fetches nothing. Each action has a lemma that it keeps `TypeInv` and is a step
of the database or none, and the refinement is the conjunction of these; the
theorems of the database then hold in the composition without being proved
again. `WakeupInv` adds to `NoLostWakeup` that there are no threads before
`startThreads` has ended, which is what makes its unnotified pushes harmless.
`OneRowPerVideo` follows from the UNIQUE url and `NamedInv`: a row that is
Downloading or Ready has a canonical URL, and so have the copies that can still
be written over such a row: those read by `startThreads`, on the downloader's
queue, or in a thread past its metadata.

`OwnershipProofs`, under the same assumptions:

* `OnlyRefusedAreForgotten`: `Spec => OnlyRefusedIsForgotten`
* `PendingAreOwned`: `Spec => [](~EarlyRequests => PendingIsOwned)`
* `OnlyAliasesLoseRows`: `Spec => []((\A url \in Url : Canonical[url] = url) => RowStillThere)`

The action property has a lemma for each kind of step (`RequestForgetsNothing`,
`MetadataForgetsNothing`, `DownloadForgetsNothing`, `MainForgetsNothing`): whoever has
a copy in hand passes it on, writes it back as Ready or Failed, or has its merge
refused; `NothingIsDropped` is the argument for steps that leave the rows alone,
and `QueueHolds` says what a queue holds before and after a push or a pop. It
rests on `HandsInv`: `startThreads` reads only unfinished rows, a thread about to
look at its queue has nothing in hand, and nothing is queued for the downloader
before the threads are started. `PendingIsOwned` is then inductive with `BusyInv`:
it speaks of the phases after `LoadMedia`, which takes every unfinished row
(`LoadMediaTakesAll`) and is the only way into them (`LoadedByLoadMedia`);
without early requests no worker is busy before that, so no push can race; and
what was refused has been played, and stays so (`PlayedStays`: rows never leave
the history). `OnlyAliasesLoseRows` is
the counterpart of the run `row_gone`: where each URL names itself, `KeptInv`
holds, that every copy has a row with its id and URL, because then a write back
finds only its own row (`WriteKeepsRows`) and no merge ever deletes one.

`PlayerProofs`: for any number of clients and media and any bounds,

* `PlayerTypeCorrect`: `Spec => []PlayerTypeOK`
* `PlayerUsesDatabase`: `Spec => [][DbNext]_dbVars`
* `PublishedStateHolds`: `Spec => []PublishedState`
* `PublishedRowIsOpen`: `Spec => []PublishedIsOpen`
* `ClosedRowsStay`: `Spec => ClosedForGood`
* `FewRowsStayOpen`: `Spec => []FewOpenRows`

Further assumptions: `PlayerBounds`, and `SkipsFit` (the votes of all clients fit
where votes are counted). `PlayerInv == DbInv /\ PlayerTypeOK /\ LoopInv /\
VotesInv`: `PublishedIsOpen` is not inductive, because what is published comes
from the loop's local `player.item`. `LoopInv` says where in the loop the two
agree and that `player.item` always has an open row; that no other step touches
this row needs the keys of `DbInv`. `VotesInv` ties `skips` to `nowPlaying`. The
tables keep `DbInv` by the lemmas of `DatabaseProofs`. `HistorySteps` shows that
there are three kinds of steps: one inserts an open row, one closes the open
row of the loop's item, all others leave the history as it is and drop the
loop's item only in a crash. The last two theorems follow from it.

`WebServerProofs`: for any clients, timeout, word size and bounds,

* `RecentClientsCount`: `Spec => []RecentCount`
* `SilentClientsDoNot`: `Spec => []SilentDoNotCount`
* `PageShowsOnce`: `Spec => []ShownOnce`
* `WebServerTypesOK`: `Spec => []WebServerTypeOK`
* `StartTimesBackToBack`: `Spec => []BackToBack`
* `OnlyOverrunsMissTheEnd`: `Spec => [](page.asked <= PlannedEnd + 1 => RefreshesAfterEnd)`

under `WebServerBounds` (which says that a stated length fits a word, as
`MediaInfo::length` does) and, for the start times, `TimeFits` (the program runs for
no more than a word of seconds, 136 years). `ClientsInv` relates the table, the requests and
`nextClientCleanup`: who is missing has been silent for longer than the timeout,
and who is there was active less than two timeouts before the next clean-up.
`PageInv` says that an entry which has left the playlist does not come back
(new ones have larger ids) and that what a page has read as playing had left.
`StartsInv` says what `left` was computed from, that ids are unique and that the
playlist is finite. `CumulativeLength` is a fold over a set, and the prover has no
induction over data; `TotalIsSeconds` avoids it by counting the pairs of an entry
and a second of its length, and by looking at a smallest set for which the fold
would differ from that count (`WFMin`, a first-order theorem). Then adding one entry
to a finite set adds its length, and the start times follow by `SumOfRemainder`;
the first one by `LeftOnTime`, or by `LeftOverrun`, which shows that `left` is a
whole word of seconds too much for a video that has overrun.
`RefreshInv` ties the refresh to `left`; the last theorem is the counterpart of the
run `page_refresh` and shows that two seconds, the overrun of its
counterexample, are the least.

`ScreeningProofs`: `PlayerImplementsScreening`, `Spec => ShownInOrder`, under the
assumptions above and `NothingAssumption` (an empty screen is no screening). There
is a lemma for each kind of step. An update by the downloader is a step `Learn`:
`SurplusKeepsFirst` shows that of two entries that become one a first one stays,
whichever the transaction drops among equals. A pop is a step `Begin`: its row id
is above all others in the history, hence new. `RecordEnds` and `CrashCutsOff`
need `ItemInv`, which strengthens `LoopInv`: until it is recorded, the loop's item
is in the history as it was inserted, its time of queueing included.

`WorkerPoolProofs`: for any number of workers and connections and any ring,

* `PoolTypeCorrect`: `PoolSpec => []PoolTypeOK`
* `NoConnectionIsForgotten`: `PoolSpec => []NoConnectionForgotten`
* `PoolImplementsQueue`: `PoolSpec => ServedInOrder`

under `PoolBounds`. `PoolInv` adds to the two invariants `RingInv` (no more is in
the ring than fits, and each slot in use holds a connection) and `HandsInv` (who
has a connection in hand, by where it is). `NoConnectionForgotten` is a statement
about two counts: a signal moves one sleeper to those who consume when one
connection is added, and a worker that takes one leaves them with it. `Slot`
bounds the remainders (the indices in use go round at most once), `Wrapped` says
that wrapping both indices moves no slot, `Produced` that a new connection
overwrites none that waits; from these follow `Put` and `Take` of the queue.

`LifecycleProofs`: for any number of workers, other threads, connections, calls of
the player and signals,

* `LifecycleTypeCorrect`: `Spec => []LifecycleTypeOK`
* `LifecycleHasPool`: `Spec => PoolSpec`, and from it
  `LifecycleForgetsNone`: `Spec => []NoConnectionForgotten` and
  `LifecycleServesInOrder`: `Spec => ServedInOrder`
* `UsersAreOutlived`: `Spec => []UsersOutlived`
* `HangupIsNotLost`: `Spec => []HangupReexecs`
* `OnlyKnownDeadlocks`: `Spec => []NoOtherDeadlock`

under `PoolBounds` and `LifecycleBounds`. `DestroyInv` says how many members are
left by where main is, and that the ones a worker needs only go when `stopFlag` is
2, when `StoppedInv` has all workers gone for good. (`UsersOutlived` is about four
members. The others go first; what that does is `UsedAfterDestruction`.)
`HangupInv` follows a SIGHUP from its handler, on whichever stack and under
whatever other handlers, to `reExecFlag` and to main's own `reExec`; the step that
reads the flag is where it may be overtaken. `StackInv` says that the stacks are
sequences of handlers.
`OnlyKnownDeadlocks` takes three more invariants. `HolderInv`: `helpMutex` is held by
main before or after its wait, by another thread in the player, or by a handler
between its lock and its wakeup.
`WaitingInv`: main joins the server when `stopFlag` is set, and the downloader's
threads exist when it joins those. `JoinInv`: the master joins the workers when
none sleeps any more. `HolderGoesOn` shows that where the mutex is held its
holder, or the innermost handler above it, can go on, or waits for it
(`SelfDeadlock`); `StopGoesOn` that once `stopFlag` is 1 the master or a worker can go
on, by the counts of `NoConnectionForgotten`, unless the master is forsaken.

Every invariant and every action property of the passing runs is proved. Only
model-checked are the liveness properties: `Settles`, `Answered`,
`ShutdownCompletes`, `ReadyGetsPlayed`, `SignalStops` and `SignalsEnd` need fairness,
and so ENABLED, which the prover does not handle. `NoOtherDeadlock` is the part of
`SignalsEnd` that can be said without it.

Beyond these runs: `startThreads` fills the queues without their mutex because
"the other threads are not started yet" (`Downloader.cpp:639`), but HTTP workers
are, since `run` starts the web server first, and they push to the same list
(`RacedEnqueue`). While the members are destroyed, a worker may use the player,
the clients or the templates after they are gone, against the assertions at
`WebServer.cpp:308` and `Player.cpp:313` and `320`, and a SIGHUP finds `global` cleared
(`UsedAfterDestruction` and `NullGlobal` in `Lifecycle`). A page asked
for when the current video has overrun announces the whole playlist 2^32 seconds
late; `BackToBack` states that as it is (`ShownEnd`).

## 5. Plan

Done: `Database`, `Downloader`, `Player`, `WebServer` with their proofs;
`Screening` and `ConnectionQueue` as abstract specifications, with the
refinements proved; `WorkerPool` and `Lifecycle` with their proofs.

What is left to prove: when each of the other counterexamples cannot happen, as
`OnlyAliasesLoseRows` and `OnlyOverrunsMissTheEnd` do for two of them; and what
`Screening` and `ConnectionQueue` promise, from their own specifications.

Not modelled, and why:

* HTML, JSON and log output, the command line and the migration of the schema:
  text or one-off code without interleavings.
* `Config`: read once, before any thread exists, by functions without state.
* `src/foreign`: third-party code, 99 % of the repository's lines. Only the part
  of civetweb in which utuputki's requests run is modelled; SQLite's row ids and
  foreign keys, `notify_one`, libVLC's end events and youtube-dl's answer are
  external definitions. The date, JSON and template libraries are stateless here.
