--------------------------- MODULE WebServerProofs ---------------------------
(***************************************************************************)
(* Theorems about WebServer: which clients count, for any number of        *)
(* clients and any timeout; and of the playlist page, that it shows no     *)
(* entry twice, that its start times follow from each other, and when it   *)
(* is loaded again.                                                        *)
(***************************************************************************)
EXTENDS WebServer, FiniteSetTheorems, TLAPS

(* The table of clients agrees with the requests that were made; who is    *)
(* missing has been silent for longer than the timeout, and who is there   *)
(* was active less than two timeouts before the next clean-up.             *)
ClientsInv ==
  /\ ClientsTypeOK
  /\ \A c \in DOMAIN lastRequest : lastRequest[c] <= clock
  /\ \A c \in DOMAIN clients :
       c \in DOMAIN lastRequest /\ clients[c] = lastRequest[c]
  /\ \A c \in DOMAIN lastRequest :
       c \in DOMAIN clients \/ clock - lastRequest[c] > ClientTimeout
  /\ nextClientCleanup <= clock + ClientTimeout
  /\ \A c \in DOMAIN clients : clients[c] >= nextClientCleanup - 2 * ClientTimeout

-----------------------------------------------------------------------------
(* What a request does to the table: Process (WebServer.cpp:317).          *)
LEMMA ProcessKeepsClients ==
  ASSUME NEW c \in Client, ClientsInv, Process(c), UNCHANGED clock
  PROVE  ClientsInv'
<1> USE WebServerBounds DEF ClientsInv, ClientsTypeOK, Time
<1>1. DOMAIN Seen(c) = DOMAIN clients \cup {c}
  BY DEF Seen, Stamped
<1>2. \A x \in DOMAIN Seen(c) : Seen(c)[x] = IF x = c THEN clock ELSE clients[x]
  BY DEF Seen, Stamped
<1>3. DOMAIN lastRequest' = DOMAIN lastRequest \cup {c}
  BY DEF Process, Stamped
<1>4. \A x \in DOMAIN lastRequest' :
        lastRequest'[x] = IF x = c THEN clock ELSE lastRequest[x]
  BY DEF Process, Stamped
<1>5. lastRequest' \in [DOMAIN lastRequest' -> Time]
  BY DEF Process, Stamped
<1>6. DOMAIN lastRequest' \subseteq Client
  BY <1>3
<1>7. \A x \in DOMAIN lastRequest' : lastRequest'[x] <= clock'
  BY <1>3, <1>4
<1>8. CASE CleanupDue
  <2>1. nextClientCleanup' = clock + ClientTimeout
    BY <1>8 DEF Process, NextCleanup
  <2>2. clients' = [x \in {y \in DOMAIN Seen(c) :
                             Seen(c)[y] >= clock - ClientTimeout} |-> Seen(c)[x]]
    BY <1>8 DEF Process, Cleaned, Restrict
  <2>3. DOMAIN clients' = {y \in DOMAIN Seen(c) : Seen(c)[y] >= clock - ClientTimeout}
    BY <2>2
  <2>4. \A x \in DOMAIN clients' : clients'[x] = Seen(c)[x]
    BY <2>2, <2>3
  <2>5. clients' \in [DOMAIN clients' -> Time]
    BY <1>1, <1>2, <2>2, <2>3
  <2>6. DOMAIN clients' \subseteq Client
    BY <1>1, <2>3
  <2>7. \A x \in DOMAIN clients' :
          x \in DOMAIN lastRequest' /\ clients'[x] = lastRequest'[x]
    BY <1>1, <1>2, <1>3, <1>4, <2>3, <2>4
  <2>8. \A x \in DOMAIN lastRequest' :
          x \in DOMAIN clients' \/ clock' - lastRequest'[x] > ClientTimeout
    <3> TAKE x \in DOMAIN lastRequest'
    <3>1. CASE x = c
      BY <3>1, <1>1, <1>2, <2>3
    <3>2. CASE x # c /\ x \in DOMAIN clients
      <4>1. clients[x] \in Time /\ clients[x] = lastRequest[x]
        BY <3>2
      <4>2. Seen(c)[x] = clients[x] /\ x \in DOMAIN Seen(c)
        BY <3>2, <1>1, <1>2
      <4> QED
        BY <3>2, <4>1, <4>2, <1>3, <1>4, <2>3
    <3>3. CASE x # c /\ x \notin DOMAIN clients
      BY <3>3, <1>3, <1>4
    <3> QED
      BY <3>1, <3>2, <3>3
  <2>9. \A x \in DOMAIN clients' : clients'[x] >= nextClientCleanup' - 2 * ClientTimeout
    <3> TAKE x \in DOMAIN clients'
    <3>1. clients'[x] \in Time /\ clients'[x] >= clock - ClientTimeout
      BY <2>3, <2>4, <2>5
    <3> QED
      BY <3>1, <2>1
  <2> QED
    BY <1>5, <1>6, <1>7, <2>1, <2>5, <2>6, <2>7, <2>8, <2>9
<1>9. CASE ~CleanupDue
  <2>1. clients' = Seen(c) /\ nextClientCleanup' = nextClientCleanup
    BY <1>9 DEF Process, Cleaned, NextCleanup
  <2>2. clients' \in [DOMAIN clients' -> Time]
    BY <2>1 DEF Seen, Stamped
  <2>3. DOMAIN clients' \subseteq Client
    BY <1>1, <2>1
  <2>4. \A x \in DOMAIN clients' :
          x \in DOMAIN lastRequest' /\ clients'[x] = lastRequest'[x]
    BY <1>1, <1>2, <1>3, <1>4, <2>1
  <2>5. \A x \in DOMAIN lastRequest' :
          x \in DOMAIN clients' \/ clock' - lastRequest'[x] > ClientTimeout
    BY <1>1, <1>3, <1>4, <2>1
  <2>6. \A x \in DOMAIN clients' : clients'[x] >= nextClientCleanup' - 2 * ClientTimeout
    <3> TAKE x \in DOMAIN clients'
    <3>1. CASE x = c
      BY <3>1, <1>1, <1>2, <2>1
    <3>2. CASE x # c
      BY <3>2, <1>1, <1>2, <2>1
    <3> QED
      BY <3>1, <3>2
  <2> QED
    BY <1>5, <1>6, <1>7, <2>1, <2>2, <2>3, <2>4, <2>5, <2>6
<1> QED
  BY <1>8, <1>9

(* A clean-up on its own (WebServer.cpp:931).                              *)
LEMMA CleanupKeepsClients ==
  ASSUME ClientsInv, CleanupClients, UNCHANGED clock
  PROVE  ClientsInv'
<1> USE WebServerBounds DEF ClientsInv, ClientsTypeOK, Time
<1>1. CASE CleanupDue
  <2>1. nextClientCleanup' = clock + ClientTimeout /\ lastRequest' = lastRequest
    BY <1>1 DEF CleanupClients, NextCleanup
  <2>2. clients' = [x \in {y \in DOMAIN clients :
                             clients[y] >= clock - ClientTimeout} |-> clients[x]]
    BY <1>1 DEF CleanupClients, Cleaned, Restrict
  <2>3. DOMAIN clients' = {y \in DOMAIN clients : clients[y] >= clock - ClientTimeout}
    BY <2>2
  <2>4. \A x \in DOMAIN clients' : clients'[x] = clients[x]
    BY <2>2, <2>3
  <2>5. clients' \in [DOMAIN clients' -> Time]
    BY <2>2, <2>3
  <2>6. \A x \in DOMAIN lastRequest' :
          x \in DOMAIN clients' \/ clock' - lastRequest'[x] > ClientTimeout
    <3> TAKE x \in DOMAIN lastRequest'
    <3>1. CASE x \in DOMAIN clients
      <4>1. clients[x] \in Time /\ clients[x] = lastRequest[x]
        BY <3>1
      <4> QED
        BY <3>1, <4>1, <2>1, <2>3
    <3>2. CASE x \notin DOMAIN clients
      BY <3>2, <2>1
    <3> QED
      BY <3>1, <3>2
  <2>7. \A x \in DOMAIN clients' : clients'[x] >= nextClientCleanup' - 2 * ClientTimeout
    <3> TAKE x \in DOMAIN clients'
    <3>1. clients'[x] \in Time /\ clients'[x] >= clock - ClientTimeout
      BY <2>3, <2>4, <2>5
    <3> QED
      BY <3>1, <2>1
  <2> QED
    BY <2>1, <2>3, <2>4, <2>5, <2>6, <2>7
<1>2. CASE ~CleanupDue
  BY <1>2 DEF CleanupClients, Cleaned, NextCleanup
<1> QED
  BY <1>1, <1>2

(* Nobody has made a request yet.                                          *)
LEMMA ClientsInitially == Init => ClientsInv
BY WebServerBounds DEF Init, ClientsInv, ClientsTypeOK, Time

(* Every step: only requests and clean-ups touch the table, and time.      *)
LEMMA ClientsStep == ClientsInv /\ [Next]_vars => ClientsInv'
<1> SUFFICES ASSUME ClientsInv, [Next]_vars
             PROVE  ClientsInv'
  OBVIOUS
<1>1. ASSUME NEW c \in Client, Request(c) \/ GetPlaylistPage(c)
      PROVE  ClientsInv'
  <2>1. Process(c) /\ UNCHANGED clock
    BY <1>1 DEF Request, GetPlaylistPage
  <2> QED
    BY <2>1, ProcessKeepsClients
<1>2. ASSUME GetNumActiveClients \/ ReadClock
      PROVE  ClientsInv'
  <2>1. CleanupClients /\ UNCHANGED clock
    BY <1>2 DEF GetNumActiveClients, ReadClock
  <2> QED
    BY <2>1, CleanupKeepsClients
<1>3. CASE Tick
  BY <1>3, WebServerBounds DEF Tick, clientVars, ClientsInv, ClientsTypeOK, Time
<1>4. CASE UNCHANGED <<clock, clientVars>>
  BY <1>4 DEF clientVars, ClientsInv, ClientsTypeOK
<1> QED
  BY <1>1, <1>2, <1>3, <1>4
  DEF Next, vars, PageStep, ReadNowPlaying, ReadPlaylist, AddToPlaylist,
      RemoveFromPlaylist, PopNextPlaylistItem, Publish, PlaylistItemFinished

(* The invariant of the table of clients (WebServer.cpp:317-335, 917-959). *)
THEOREM ClientsInvariant == Spec => []ClientsInv
BY ClientsInitially, ClientsStep, PTL DEF Spec

(* Whenever the votes needed are computed, every client that has made a    *)
(* request within the timeout counts.                                      *)
THEOREM RecentClientsCount == Spec => []RecentCount
<1>1. ClientsInv => RecentCount
  BY WebServerBounds
  DEF ClientsInv, ClientsTypeOK, Time, RecentCount, ActiveClients, Cleaned, Restrict
<1> QED
  BY <1>1, ClientsInvariant, PTL

(* No client counts that has been silent for two timeouts.                 *)
THEOREM SilentClientsDoNot == Spec => []SilentDoNotCount
<1>1. ClientsInv => SilentDoNotCount
  <2> SUFFICES ASSUME ClientsInv, NEW c \in ActiveClients
               PROVE  c \in DOMAIN lastRequest
                      /\ clock - lastRequest[c] < 2 * ClientTimeout
    BY DEF SilentDoNotCount
  <2> USE WebServerBounds DEF ClientsInv, ClientsTypeOK, Time, ActiveClients, Cleaned,
                              CleanupDue, Restrict
  <2>1. c \in DOMAIN clients /\ clients[c] \in Time /\ clients[c] = lastRequest[c]
    OBVIOUS
  <2>2. CASE CleanupDue
    BY <2>1, <2>2
  <2>3. CASE ~CleanupDue
    BY <2>1, <2>3
  <2> QED
    BY <2>1, <2>2, <2>3
<1> QED
  BY <1>1, ClientsInvariant, PTL

-----------------------------------------------------------------------------
(* An entry that has left the playlist does not come back: new ones have   *)
(* larger ids.  What the page has read as playing had left it before.      *)
HasLeft(video) == video.entry \notin playlist /\ video.entry.id <= queued

PageInv ==
  /\ PlayTypeOK
  /\ page = [pc |-> page.pc, began |-> page.began, video |-> page.video,
             asked |-> page.asked, left |-> page.left, refresh |-> page.refresh,
             waiting |-> page.waiting, start |-> page.start, now |-> page.now]
  /\ page.video \in Video \cup {NoVideo}
  /\ \A e \in playlist : e.id <= queued
  /\ \A video \in {playing, nowPlaying, page.video} \ {NoVideo} : HasLeft(video)
  /\ ShownOnce

(* No page has been asked for yet.                                         *)
LEMMA PageInitially == Init => PageInv
BY WebServerBounds
DEF Init, Blank, PageInv, PlayTypeOK, ShownOnce

(* The page's own steps.                                                   *)
LEMMA PageStepKeepsPage ==
  ASSUME PageInv, PageStep PROVE PageInv'
<1> USE DEF PageInv, HasLeft
<1>1. CASE ReadNowPlaying
  BY <1>1 DEF ReadNowPlaying, playVars, PlayTypeOK, ShownOnce
<1>2. CASE ReadClock
  BY <1>2 DEF ReadClock, playVars, PlayTypeOK, ShownOnce
<1>3. CASE ReadPlaylist
  <2>1. page.video # NoVideo => page.video.entry \notin playlist
    OBVIOUS
  <2>2. page'.waiting = playlist /\ page'.video = page.video
    BY <1>3 DEF ReadPlaylist, Shown
  <2>3. ShownOnce'
    BY <2>1, <2>2 DEF ShownOnce
  <2> QED
    BY <1>3, <2>2, <2>3 DEF ReadPlaylist, Shown, playVars, PlayTypeOK
<1> QED
  BY <1>1, <1>2, <1>3 DEF PageStep

(* The steps of the player and of whoever queues videos.                   *)
LEMMA PlayKeepsPage ==
  ASSUME PageInv, clock \in Time, UNCHANGED page,
         \/ \E length \in 0 .. MaxLength : AddToPlaylist(length)
         \/ \E e \in playlist : RemoveFromPlaylist(e) \/ PopNextPlaylistItem(e)
         \/ Publish \/ PlaylistItemFinished
  PROVE  PageInv'
<1> USE WebServerBounds DEF PageInv, HasLeft, PlayTypeOK, Video, Entry
<1>1. ShownOnce'
  BY DEF ShownOnce
<1>2. ASSUME NEW length \in 0 .. MaxLength, AddToPlaylist(length)
      PROVE  PageInv'
  <2>1. queued' = queued + 1 /\ queued' \in 1 .. MaxQueued
    BY <1>2 DEF AddToPlaylist
  <2>2. playlist' = playlist \cup {[id |-> queued', length |-> length]}
    BY <1>2 DEF AddToPlaylist
  <2>3. playing' = playing /\ nowPlaying' = nowPlaying
    BY <1>2 DEF AddToPlaylist
  <2>4. playlist' \subseteq Entry
    BY <2>1, <2>2
  <2>5. \A e \in playlist' : e.id <= queued'
    BY <2>1, <2>2
  <2>6. \A video \in {playing, nowPlaying, page.video} \ {NoVideo} : HasLeft(video)'
    <3> TAKE video \in {playing, nowPlaying, page.video} \ {NoVideo}
    <3>1. video.entry \in Entry /\ HasLeft(video)
      OBVIOUS
    <3>2. video.entry.id # queued'
      BY <3>1, <2>1
    <3> QED
      BY <3>1, <3>2, <2>1, <2>2
  <2> QED
    BY <1>1, <2>1, <2>3, <2>4, <2>5, <2>6
<1>3. ASSUME NEW e \in playlist, RemoveFromPlaylist(e)
      PROVE  PageInv'
  BY <1>1, <1>3 DEF RemoveFromPlaylist
<1>4. ASSUME NEW e \in playlist, PopNextPlaylistItem(e)
      PROVE  PageInv'
  <2>1. playlist' = playlist \ {e}
    BY <1>4 DEF PopNextPlaylistItem
  <2>2. playing' = [entry |-> e, startTime |-> clock]
    BY <1>4 DEF PopNextPlaylistItem
  <2>3. nowPlaying' = nowPlaying /\ queued' = queued
    BY <1>4 DEF PopNextPlaylistItem
  <2>4. playing' \in Video /\ e.id <= queued
    BY <2>2
  <2>5. playing'.entry \notin playlist' /\ playing'.entry.id <= queued'
    BY <2>1, <2>2, <2>3, <2>4
  <2>6. \A video \in {nowPlaying, page.video} \ {NoVideo} : HasLeft(video)'
    BY <2>1, <2>3
  <2>7. PlayTypeOK'
    BY <2>1, <2>3, <2>4
  <2>8. \A f \in playlist' : f.id <= queued'
    BY <2>1, <2>3
  <2> QED
    BY <1>1, <2>3, <2>5, <2>6, <2>7, <2>8
<1>5. CASE Publish
  BY <1>1, <1>5 DEF Publish
<1>6. CASE PlaylistItemFinished
  BY <1>1, <1>6 DEF PlaylistItemFinished
<1> QED
  BY <1>2, <1>3, <1>4, <1>5, <1>6

(* Every step; a request for the page starts with a blank one.             *)
LEMMA PageInvStep ==
  ASSUME PageInv, ClientsInv, [Next]_vars PROVE PageInv'
<1>1. ASSUME NEW c \in Client, GetPlaylistPage(c)
      PROVE  PageInv'
  BY <1>1 DEF GetPlaylistPage, Blank, playVars, PageInv, PlayTypeOK, HasLeft, ShownOnce
<1>2. CASE UNCHANGED <<playVars, page>>
  BY <1>2 DEF playVars, PageInv, PlayTypeOK, HasLeft, ShownOnce
<1>3. clock \in Time
  BY DEF ClientsInv, ClientsTypeOK
<1> QED
  BY <1>1, <1>2, <1>3, PageStepKeepsPage, PlayKeepsPage
  DEF Next, vars, Request, GetNumActiveClients, Tick, AddToPlaylist,
      RemoveFromPlaylist, PopNextPlaylistItem, Publish, PlaylistItemFinished

(* What the playlist page shows as playing it does not show as waiting.    *)
THEOREM PageShowsOnce == Spec => []ShownOnce
<1>1. PageInv => ShownOnce
  BY DEF PageInv
<1>2. PageInv /\ ClientsInv /\ [Next]_vars => PageInv'
  BY PageInvStep
<1> QED
  BY <1>1, <1>2, PageInitially, ClientsInvariant, PTL DEF Spec
-----------------------------------------------------------------------------
(* The start times are sums modulo WordSize, and the sum is a fold over a  *)
(* set.  What a fold of lengths computes is found by counting: the seconds *)
(* of the entries of S, each counted once for each entry.                  *)
TotalLength(S) == MapThenSumSet(LAMBDA f : f.length, S)
Seconds(S) == {p \in S \X (0 .. MaxLength) : p[2] < p[1].length}

(* One entry has as many seconds as its length says.                       *)
LEMMA SecondsOfOne ==
  ASSUME NEW e \in Entry
  PROVE  IsFiniteSet(Seconds({e})) /\ Cardinality(Seconds({e})) = e.length
<1> USE WebServerBounds DEF Word
<1>0. e.length \in Nat
  BY DEF Entry
<1>1. IsFiniteSet(1 .. e.length) /\ Cardinality(1 .. e.length) = e.length
  BY <1>0, FS_Interval
<1> DEFINE f == [i \in 1 .. e.length |-> <<e, i - 1>>]
<1>2. f \in [1 .. e.length -> Seconds({e})]
  BY DEF Seconds, Entry
<1>3. \A a, b \in 1 .. e.length : f[a] = f[b] => a = b
  OBVIOUS
<1>4. \A t \in Seconds({e}) : \E i \in 1 .. e.length : f[i] = t
  <2> TAKE t \in Seconds({e})
  <2>1. t = <<e, t[2]>> /\ t[2] \in Nat /\ t[2] < e.length
    BY DEF Seconds
  <2>2. t[2] + 1 \in 1 .. e.length /\ t[2] + 1 - 1 = t[2]
    BY <2>1 DEF Entry
  <2>3. f[t[2] + 1] = t
    BY <2>1, <2>2
  <2> QED
    BY <2>2, <2>3
<1>5. f \in Bijection(1 .. e.length, Seconds({e}))
  BY <1>2, <1>3, <1>4 DEF Bijection, Injection, Surjection, IsInjective
<1>6. ExistsBijection(1 .. e.length, Seconds({e}))
  BY <1>5 DEF ExistsBijection
<1> QED
  BY <1>1, <1>6, FS_Bijection

(* There are finitely many of them.                                        *)
LEMMA SecondsFinite ==
  ASSUME NEW S \in SUBSET Entry, IsFiniteSet(S)
  PROVE  IsFiniteSet(Seconds(S)) /\ Cardinality(Seconds(S)) \in Nat
<1>1. IsFiniteSet(0 .. MaxLength)
  BY FS_Interval, WebServerBounds DEF Word
<1>2. IsFiniteSet(S \X (0 .. MaxLength))
  BY <1>1, FS_Product
<1>3. IsFiniteSet(Seconds(S))
  BY <1>2, FS_Subset DEF Seconds
<1> QED
  BY <1>3, FS_CardinalityType

(* An entry adds its length.                                               *)
LEMMA SecondsOfOneMore ==
  ASSUME NEW S \in SUBSET Entry, IsFiniteSet(S), NEW e \in S
  PROVE  Cardinality(Seconds(S)) = e.length + Cardinality(Seconds(S \ {e}))
<1>1. Seconds(S) = Seconds(S \ {e}) \cup Seconds({e})
  BY DEF Seconds
<1>2. Seconds(S \ {e}) \cap Seconds({e}) = {}
  BY DEF Seconds
<1>3. IsFiniteSet(S \ {e})
  BY FS_Subset
<1>4. IsFiniteSet(Seconds(S \ {e})) /\ Cardinality(Seconds(S \ {e})) \in Nat
  BY <1>3, SecondsFinite
<1>5. e.length \in Nat
  BY DEF Entry
<1>6. IsFiniteSet(Seconds({e})) /\ Cardinality(Seconds({e})) = e.length
  BY SecondsOfOne
<1>7. Cardinality(Seconds(S \ {e}) \cup Seconds({e}))
        = Cardinality(Seconds(S \ {e})) + Cardinality(Seconds({e}))
          - Cardinality(Seconds(S \ {e}) \cap Seconds({e}))
  BY <1>4, <1>6, FS_Union
<1>8. Cardinality(Seconds(S \ {e}) \cap Seconds({e})) = 0
  BY <1>2, FS_EmptySet
<1> QED
  BY <1>1, <1>4, <1>5, <1>6, <1>7, <1>8

(* The fold counts them: it takes the entries out one by one, and a set    *)
(* for which it did not count right would leave a smaller one after that.  *)
LEMMA TotalIsSeconds ==
  ASSUME NEW S \in SUBSET Entry, IsFiniteSet(S)
  PROVE  TotalLength(S) = Cardinality(Seconds(S))
<1> DEFINE some(s) == CHOOSE x \in s : TRUE
           unfolds(g) == g = [s \in SUBSET S |-> IF s = {} THEN 0
                              ELSE some(s).length + g[s \ {some(s)}]]
           iter == CHOOSE g : unfolds(g)
           count == [s \in SUBSET S |-> Cardinality(Seconds(s))]
<1>1. TotalLength(S) = iter[S]
  BY DEF TotalLength, MapThenSumSet, MapThenFoldSet
<1>2. \A s \in SUBSET S : s # {} => some(s) \in s
  OBVIOUS
<1>3. unfolds(count)
  <2>1. \A s \in SUBSET S : IsFiniteSet(s)
    BY FS_Subset
  <2>2. ASSUME NEW s \in SUBSET S, s # {}
        PROVE  count[s] = some(s).length + count[s \ {some(s)}]
    BY <1>2, <2>1, <2>2, SecondsOfOneMore
  <2>3. count[{}] = 0
    <3>1. Seconds({}) = {}
      BY DEF Seconds
    <3> QED
      BY <3>1, FS_EmptySet
  <2> QED
    BY <2>2, <2>3
<1>4. unfolds(iter)
  BY <1>3
<1> DEFINE wrong == {s \in SUBSET S : iter[s] # count[s]}
<1>5. wrong = {}
  <2> SUFFICES ASSUME wrong # {} PROVE FALSE
    OBVIOUS
  <2>1. IsWellFoundedOn(StrictSubsetOrdering(S), SUBSET S)
    BY FS_StrictSubsetOrderingWellFounded, FS_FiniteSubsetsOfFinite
  <2>2. wrong \subseteq SUBSET S
    OBVIOUS
  <2>3. PICK s \in wrong : \A t \in wrong : <<t, s>> \notin StrictSubsetOrdering(S)
    <3> HIDE DEF wrong
    <3> QED BY <2>1, <2>2, WFMin
  <2>4. s # {}
    BY <1>3, <1>4
  <2>5. s \ {some(s)} \in SUBSET S /\ s \ {some(s)} \notin wrong
    BY <1>2, <2>3, <2>4 DEF StrictSubsetOrdering
  <2>6. iter[s \ {some(s)}] = count[s \ {some(s)}]
    BY <2>5
  <2>7. iter[s] = count[s]
    <3>1. s \in SUBSET S
      OBVIOUS
    <3>2. iter[s] = some(s).length + iter[s \ {some(s)}]
      BY <1>4, <2>4, <3>1
    <3>3. count[s] = some(s).length + count[s \ {some(s)}]
      BY <1>3, <2>4, <3>1
    <3> QED
      BY <2>6, <3>2, <3>3
  <2> QED
    BY <2>7
<1> QED
  BY <1>1, <1>5

(* So no entries last no time, and it does not matter which one is taken   *)
(* out of the sum.                                                         *)
LEMMA TotalLengthFacts ==
  ASSUME NEW S \in SUBSET Entry, IsFiniteSet(S)
  PROVE  /\ TotalLength(S) \in Nat
         /\ S = {} => TotalLength(S) = 0
         /\ \A e \in S : TotalLength(S) = TotalLength(S \ {e}) + e.length
<1>1. TotalLength(S) \in Nat
  BY TotalIsSeconds, SecondsFinite
<1>2. ASSUME S = {} PROVE TotalLength(S) = 0
  <2>1. Seconds({}) = {}
    BY DEF Seconds
  <2> QED
    BY <1>2, <2>1, TotalIsSeconds, FS_EmptySet
<1>3. ASSUME NEW e \in S PROVE TotalLength(S) = TotalLength(S \ {e}) + e.length
  <2>1. S \ {e} \in SUBSET Entry /\ IsFiniteSet(S \ {e}) /\ e.length \in Nat
    BY FS_Subset DEF Entry
  <2>2. TotalLength(S \ {e}) = Cardinality(Seconds(S \ {e}))
    BY <2>1, TotalIsSeconds
  <2>3. Cardinality(Seconds(S \ {e})) \in Nat
    BY <2>1, SecondsFinite
  <2> QED
    BY <2>1, <2>2, <2>3, TotalIsSeconds, SecondsOfOneMore
<1> QED
  BY <1>1, <1>2, <1>3

-----------------------------------------------------------------------------
(* Arithmetic modulo a word of any size.                                   *)
LEMMA ProductIsLarger ==
  ASSUME NEW n \in Nat \ {0}, NEW k \in Int, k >= 1 PROVE n * k >= n
OBVIOUS

(* A number has one remainder.                                             *)
LEMMA RemainderUnique ==
  ASSUME NEW n \in Nat \ {0}, NEW u \in Int, NEW v \in Int,
         NEW s \in 0 .. (n - 1), NEW t \in 0 .. (n - 1), n * u + s = n * v + t
  PROVE  s = t
<1>1. n * (u - v) = t - s
  OBVIOUS
<1>2. u = v
  <2>1. CASE u - v >= 1
    <3>1. n * (u - v) >= n
      BY <2>1, ProductIsLarger
    <3> QED
      BY <1>1, <3>1
  <2>2. CASE v - u >= 1
    <3>1. n * (v - u) >= n
      BY <2>2, ProductIsLarger
    <3>2. n * (v - u) = s - t
      BY <1>1
    <3> QED
      BY <3>2, <3>1
  <2> QED
    BY <2>1, <2>2
<1> QED
  BY <1>2

(* And one it has.                                                         *)
LEMMA Remainder ==
  ASSUME NEW n \in Nat \ {0}, NEW i \in Int
  PROVE  i % n \in 0 .. n - 1 /\ \E q \in Int : i = n * q + (i % n)
<1>1. i % n \in 0 .. n - 1
  OBVIOUS
<1>2. i = n * (i \div n) + (i % n) /\ i \div n \in Int
  OBVIOUS
<1> QED
  BY <1>1, <1>2

(* An unsigned sum does not depend on when it is cut to a word.            *)
LEMMA SumOfRemainder ==
  ASSUME NEW n \in Nat \ {0}, NEW a \in Int, NEW b \in Int
  PROVE  ((a % n) + b) % n = (a + b) % n
<1> DEFINE r == a % n
           c == r + b
           d == a + b
           k == c % n
           l == d % n
<1>1. r \in 0 .. n - 1 /\ c \in Int /\ d \in Int
  BY Remainder
<1>2. PICK q \in Int : a = n * q + r
  BY Remainder
<1>3. PICK p \in Int : c = n * p + k
  BY <1>1, Remainder
<1>4. PICK x \in Int : d = n * x + l
  BY <1>1, Remainder
<1>5. k \in 0 .. n - 1 /\ l \in 0 .. n - 1
  BY <1>1, Remainder
<1>6. n * (q + p) = n * q + n * p
  OBVIOUS
<1>7. d = n * q + c
  BY <1>1, <1>2
<1>8. n * (q + p) + k = n * x + l
  <2> HIDE DEF c, d, k, l
  <2> QED
    BY <1>1, <1>3, <1>4, <1>5, <1>6, <1>7
<1>9. k = l
  <2> HIDE DEF c, d, k, l
  <2>1. q + p \in Int
    OBVIOUS
  <2> QED
    BY <2>1, <1>5, <1>8, RemainderUnique
<1> QED
  BY <1>9

-----------------------------------------------------------------------------
(* The playlist is finite and its ids are those of one entry each; what    *)
(* plays has begun.                                                        *)
EntriesInv ==
  /\ IsFiniteSet(playlist)
  /\ \A e, f \in playlist : e.id = f.id => e = f
  /\ \A video \in {playing, nowPlaying} \ {NoVideo} : video.startTime <= clock

(* How far the page has got: what has not been read yet is blank, and      *)
(* what has been read agrees with the moment at which it was.              *)
PageTimesInv ==
  /\ PageTypeOK
  /\ page.began <= page.asked /\ page.asked <= clock
  /\ page.pc \in {"idle", "nowPlaying"} => page.video = NoVideo
  /\ page.pc = "left" => page.video # NoVideo
  /\ page.video = NoVideo => page.left = 0 /\ page.asked = page.began
  /\ page.video # NoVideo => page.video.startTime <= clock
  /\ page.pc \in {"playlist", "done"} /\ page.video # NoVideo =>
       /\ page.video.startTime <= page.asked
       /\ page.left = (page.video.entry.length
                       - ((page.asked - page.video.startTime) % WordSize)) % WordSize
  /\ page.pc = "done" => page.asked <= page.now /\ page.now <= clock

StartsInv == EntriesInv /\ PageTimesInv /\ BackToBack

(* Nothing has been queued and no page asked for.                          *)
LEMMA StartsInitially == Init => StartsInv
<1> SUFFICES ASSUME Init PROVE StartsInv
  OBVIOUS
<1> USE WebServerBounds DEF Word, Time
<1>1. page = Blank("idle", 0) /\ clock = 0
  BY DEF Init
<1>2. EntriesInv
  BY FS_EmptySet DEF Init, EntriesInv
<1>3. PageTimesInv
  BY <1>1 DEF Blank, PageTimesInv, PageTypeOK
<1>4. BackToBack
  BY <1>1 DEF Blank, BackToBack
<1> QED
  BY <1>2, <1>3, <1>4 DEF StartsInv

(* Whoever queues, removes or plays an entry: new entries have new ids.    *)
LEMMA EntriesStep ==
  ASSUME EntriesInv, PageInv, ClientsInv, [Next]_vars PROVE EntriesInv'
<1> USE DEF EntriesInv
<1>1. clock \in Nat /\ clock' \in Nat /\ clock <= clock'
  <2>1. clock \in Nat
    BY WebServerBounds DEF ClientsInv, ClientsTypeOK, Time
  <2> QED
    BY <2>1
    DEF Next, vars, PageStep, ReadNowPlaying, ReadClock, ReadPlaylist, Request,
        GetPlaylistPage, GetNumActiveClients, AddToPlaylist, RemoveFromPlaylist,
        PopNextPlaylistItem, Publish, PlaylistItemFinished, Tick
<1>2. \A video \in Video : video.startTime \in Nat
  BY WebServerBounds DEF Video, Time
<1>3. playing \in Video \cup {NoVideo} /\ nowPlaying \in Video \cup {NoVideo}
  BY DEF PageInv, PlayTypeOK
<1>4. ASSUME NEW length \in 0 .. MaxLength, AddToPlaylist(length)
      PROVE  EntriesInv'
  <2> DEFINE new == [id |-> queued', length |-> length]
  <2>1. playlist' = playlist \cup {new} /\ queued' = queued + 1
    BY <1>4 DEF AddToPlaylist
  <2>2. \A e \in playlist : e.id # queued'
    BY <2>1 DEF PageInv, PlayTypeOK, Entry
  <2>3. IsFiniteSet(playlist')
    BY <2>1, FS_AddElement
  <2>4. \A e, f \in playlist' : e.id = f.id => e = f
    BY <2>1, <2>2
  <2> QED
    BY <1>4, <2>3, <2>4 DEF AddToPlaylist
<1>5. ASSUME NEW e \in playlist, RemoveFromPlaylist(e)
      PROVE  EntriesInv'
  <2>1. playlist' \subseteq playlist /\ IsFiniteSet(playlist')
    BY <1>5, FS_Subset DEF RemoveFromPlaylist
  <2> QED
    BY <1>5, <2>1 DEF RemoveFromPlaylist
<1>6. ASSUME NEW e \in playlist, PopNextPlaylistItem(e)
      PROVE  EntriesInv'
  <2>1. playlist' \subseteq playlist /\ IsFiniteSet(playlist')
    BY <1>6, FS_Subset DEF PopNextPlaylistItem
  <2>2. playing'.startTime = clock /\ clock' = clock /\ nowPlaying' = nowPlaying
    BY <1>6 DEF PopNextPlaylistItem
  <2> QED
    BY <1>1, <2>1, <2>2
<1>7. CASE Publish
  BY <1>7 DEF Publish
<1>8. CASE PlaylistItemFinished
  BY <1>8 DEF PlaylistItemFinished
<1>9. ASSUME UNCHANGED playVars PROVE EntriesInv'
  BY <1>1, <1>2, <1>3, <1>9 DEF playVars
<1> QED
  BY <1>4, <1>5, <1>6, <1>7, <1>8, <1>9
  DEF Next, vars, PageStep, ReadNowPlaying, ReadClock, ReadPlaylist, Request,
      GetPlaylistPage, GetNumActiveClients, Tick

(* What is left of a video on time is its planned end less the moment at   *)
(* which the page asked: the length fits a word.                           *)
LEMMA LeftOnTime ==
  ASSUME NEW length \in 0 .. MaxLength, NEW start \in Nat, NEW asked \in Nat,
         start <= asked, start + length >= asked
  PROVE  (length - ((asked - start) % WordSize)) % WordSize = start + length - asked
<1>1. WordSize \in Nat \ {0} /\ MaxLength \in 0 .. (WordSize - 1)
  BY WebServerBounds DEF Word
<1>2. asked - start \in Nat /\ asked - start < WordSize
  BY <1>1
<1>3. (asked - start) % WordSize = asked - start
  BY <1>1, <1>2
<1>4. start + length - asked \in Nat /\ start + length - asked < WordSize
  BY <1>1
<1>5. length - (asked - start) = start + length - asked
  BY <1>1
<1>6. (start + length - asked) % WordSize = start + length - asked
  BY <1>1, <1>4
<1> QED
  BY <1>3, <1>5, <1>6

(* What is left of a video that has overrun is a word of seconds more.     *)
LEMMA LeftOverrun ==
  ASSUME NEW length \in 0 .. MaxLength, NEW start \in Nat, NEW asked \in Nat,
         start + length < asked, asked <= WordSize
  PROVE  (length - ((asked - start) % WordSize)) % WordSize
           = start + length + WordSize - asked
<1>1. /\ WordSize \in Nat \ {0} /\ length \in Nat /\ length < WordSize
      /\ \A i \in 0 .. (WordSize - 1) : i % WordSize = i
  BY WebServerBounds DEF Word
<1>2. PICK elapsed \in Nat : elapsed = asked - start /\ length < elapsed
                            /\ elapsed <= WordSize
  BY <1>1
<1>3. CASE elapsed = WordSize
  <2>1. elapsed % WordSize = 0
    BY <1>1, <1>3
  <2>2. (length - (elapsed % WordSize)) % WordSize = length
    BY <1>1, <2>1
  <2> QED
    BY <1>1, <1>2, <1>3, <2>2
<1>4. CASE elapsed # WordSize
  <2>1. elapsed % WordSize = elapsed
    BY <1>1, <1>2, <1>4
  <2>2. PICK i \in Int, rest \in 0 .. (WordSize - 1) :
          i = length - elapsed /\ rest = length - elapsed + WordSize
    BY <1>1, <1>2
  <2>3. PICK q \in Int : i = WordSize * q + (i % WordSize)
    BY <1>1, <2>2, Remainder
  <2>4. i % WordSize \in 0 .. (WordSize - 1)
    BY <1>1, <2>2, Remainder
  <2>5. WordSize * (-1) + rest = WordSize * q + (i % WordSize) /\ -1 \in Int
    BY <1>1, <2>2, <2>3
  <2>6. rest = i % WordSize
    BY <1>1, <2>2, <2>4, <2>5, RemainderUnique
  <2> QED
    BY <1>1, <1>2, <2>1, <2>2, <2>6
<1> QED
  BY <1>3, <1>4

(* What the loop over the playlist (WebServer.cpp:604) makes of the sum.   *)
LEMMA PlaylistReadBackToBack ==
  ASSUME EntriesInv, PageTimesInv, PageInv, ClientsInv, ReadPlaylist
  PROVE  PageTimesInv' /\ BackToBack'
<1> DEFINE Before(e) == {g \in playlist : g.id < e.id}
           cut(n) == n % WordSize
<1>1. WordSize \in Nat \ {0} /\ clock \in Time
  BY WebServerBounds DEF ClientsInv, ClientsTypeOK
<1>2. page.pc = "playlist" /\ page.left \in Word /\ page.left \in Nat
  BY <1>1 DEF ReadPlaylist, PageTimesInv, PageTypeOK, Word
<1>3. playlist \subseteq Entry /\ IsFiniteSet(playlist)
  BY DEF PageInv, PlayTypeOK, EntriesInv
<1>4. /\ page'.pc = "done" /\ page'.waiting = playlist /\ page'.now = clock
      /\ page'.video = page.video /\ page'.left = page.left
      /\ page'.began = page.began /\ page'.asked = page.asked
      /\ page'.refresh \in {page.refresh, 1}
      /\ page'.start = [e \in playlist |->
                          (page.left + CumulativeLength(playlist, e)) % WordSize]
      /\ clock' = clock
  BY DEF ReadPlaylist, Shown, PageInv
<1>5. ASSUME NEW e \in playlist
      PROVE  /\ Before(e) \in SUBSET Entry /\ IsFiniteSet(Before(e))
             /\ CumulativeLength(playlist, e) = TotalLength(Before(e))
             /\ TotalLength(Before(e)) \in Nat /\ e.length \in Nat /\ e.id \in Nat
  <2>1. Before(e) \in SUBSET Entry /\ IsFiniteSet(Before(e))
    BY <1>3, FS_Subset
  <2>2. CumulativeLength(playlist, e) = TotalLength(Before(e))
    BY DEF CumulativeLength, TotalLength
  <2>3. e.length \in Nat /\ e.id \in Nat
    BY <1>3, WebServerBounds DEF Entry, Word
  <2> HIDE DEF Before
  <2> QED
    BY <2>1, <2>2, <2>3, TotalLengthFacts
<1> HIDE DEF Before
<1>6. ASSUME NEW e \in playlist
      PROVE  /\ page'.start[e] = (page.left + TotalLength(Before(e))) % WordSize
             /\ page'.start[e] \in Word
  <2>1. page.left + TotalLength(Before(e)) \in Int
    BY <1>2, <1>5
  <2>2. (page.left + TotalLength(Before(e))) % WordSize \in Word
    BY <1>1, <2>1, Remainder DEF Word
  <2> QED
    BY <1>4, <1>5, <2>2
<1>7. PageTimesInv'
  <2>1. page'.start \in [page'.waiting -> Word]
    BY <1>4, <1>6
  <2>2. page'.refresh \in 0 .. RefreshSeconds
    BY <1>4, WebServerBounds DEF PageTimesInv, PageTypeOK
  <2>3. PageTypeOK'
    BY <1>1, <1>3, <1>4, <2>1, <2>2 DEF PageTimesInv, PageTypeOK
  <2>4. page.video # NoVideo => page.video.startTime <= page.asked
    BY <1>2 DEF PageTimesInv
  <2>5. page.asked <= clock /\ page.began <= page.asked
    BY DEF PageTimesInv
  <2>6. page.video # NoVideo =>
          page.left = (page.video.entry.length
                       - ((page.asked - page.video.startTime) % WordSize)) % WordSize
    BY <1>2 DEF PageTimesInv
  <2>7. clock \in Nat
    BY <1>1, WebServerBounds DEF Time
  <2>8. page.video # NoVideo => page.video.startTime <= clock
    BY DEF PageTimesInv
  <2>9. page.video = NoVideo => page.left = 0 /\ page.asked = page.began
    BY DEF PageTimesInv
  <2> QED
    BY <1>4, <2>3, <2>4, <2>5, <2>6, <2>7, <2>8, <2>9 DEF PageTimesInv
<1>8. ASSUME NEW e \in playlist, NEW f \in playlist, Follows(e, f)'
      PROVE  page'.start[f] = (page'.start[e] + e.length) % WordSize
  <2>1. Before(f) \ {e} = Before(e)
    <3>1. \A g \in playlist : g.id \in Nat /\ (g.id = e.id => g = e)
      BY <1>5 DEF EntriesInv
    <3>2. e.id < f.id /\ \A g \in playlist : ~(e.id < g.id /\ g.id < f.id)
      BY <1>4, <1>8 DEF Follows
    <3>3. \A g \in playlist : g.id < f.id /\ g # e <=> g.id < e.id
      BY <3>1, <3>2
    <3> QED
      BY <3>3 DEF Before
  <2>2. e \in Before(f)
    BY <1>8 DEF Follows, Before
  <2>3. TotalLength(Before(f)) = TotalLength(Before(e)) + e.length
    BY <1>5, <2>1, <2>2, TotalLengthFacts
  <2> DEFINE sum == page.left + TotalLength(Before(e))
  <2>4. sum \in Int /\ e.length \in Int
    BY <1>2, <1>5
  <2>5. page.left + TotalLength(Before(f)) = sum + e.length
    BY <1>2, <1>5, <2>3
  <2>6. page'.start[e] = sum % WordSize /\ page'.start[f] = (sum + e.length) % WordSize
    BY <1>6, <2>5
  <2> HIDE DEF sum
  <2> QED
    BY <1>1, <2>4, <2>6, SumOfRemainder
<1>9. ASSUME NEW e \in playlist, First(e)'
      PROVE  page'.now + page'.start[e] \in
               ShownEnd' .. (ShownEnd' + page'.now - page'.began)
  <2>1. Before(e) = {}
    <3>1. \A g \in playlist : g.id \in Nat /\ e.id <= g.id
      BY <1>4, <1>5, <1>9 DEF First
    <3>2. \A g \in playlist : ~(g.id < e.id)
      BY <3>1
    <3> QED
      BY <3>2 DEF Before
  <2>2. TotalLength(Before(e)) = 0
    BY <1>5, <2>1, TotalLengthFacts
  <2>3. page'.start[e] = page.left
    <3>1. page.left < WordSize
      BY <1>1, <1>2 DEF Word
    <3>2. page.left % WordSize = page.left
      BY <1>1, <1>2, <3>1
    <3> QED
      BY <1>2, <1>6, <2>2, <3>2
  <2>4. /\ page.began \in Nat /\ page.asked \in Nat /\ clock \in Nat
        /\ page.began <= page.asked /\ page.asked <= clock
    BY <1>1, WebServerBounds DEF PageTimesInv, PageTypeOK, Time
  <2>5. CASE page.video = NoVideo
    BY <1>4, <2>3, <2>4, <2>5 DEF ShownEnd, PlannedEnd, PageTimesInv
  <2>6. CASE page.video # NoVideo
    <3>1. PICK length \in 0 .. MaxLength, start \in Nat :
            /\ length = page.video.entry.length /\ start = page.video.startTime
      BY <2>6, WebServerBounds DEF PageTimesInv, PageTypeOK, Video, Entry, Time
    <3>2. PlannedEnd' = start + length /\ length \in Nat /\ WordSize \in Nat
      BY <1>1, <1>4, <2>6, <3>1, WebServerBounds DEF PlannedEnd, Word
    <3>3. /\ start <= page.asked
          /\ page.left = (length - ((page.asked - start) % WordSize)) % WordSize
      BY <1>2, <2>6, <3>1 DEF PageTimesInv
    <3>4. CASE page.asked <= start + length
      <4>1. page.left = start + length - page.asked
        BY <2>4, <3>1, <3>3, <3>4, LeftOnTime
      <4>2. ShownEnd' = start + length
        BY <1>4, <3>2, <3>4 DEF ShownEnd
      <4> QED
        BY <1>4, <2>3, <2>4, <3>1, <3>2, <4>1, <4>2
    <3>5. CASE start + length < page.asked
      <4>1. page.asked <= WordSize
        BY WebServerBounds, TimeFits DEF PageTimesInv, PageTypeOK, Time
      <4>2. page.left = start + length + WordSize - page.asked
        BY <2>4, <3>1, <3>3, <3>5, <4>1, LeftOverrun
      <4>3. ShownEnd' = start + length + WordSize
        BY <1>4, <2>4, <3>1, <3>2, <3>5 DEF ShownEnd
      <4> QED
        BY <1>4, <2>3, <2>4, <3>1, <3>2, <4>2, <4>3
    <3> QED
      BY <2>4, <3>1, <3>2, <3>4, <3>5
  <2> QED
    BY <2>5, <2>6
<1> QED
  BY <1>4, <1>7, <1>8, <1>9 DEF BackToBack

(* min of two unsigned numbers is one of them.                             *)
LEMMA RefreshBounded ==
  ASSUME NEW left \in Nat
  PROVE  RefreshAfter(left) \in 0 .. RefreshSeconds
<1> DEFINE next == (left + 1) % WordSize
<1>1. RefreshSeconds \in Nat /\ next \in Nat
  BY WebServerBounds, Remainder DEF Word
<1> HIDE DEF next
<1>2. \E x \in {RefreshSeconds, next} : \A y \in {RefreshSeconds, next} : x <= y
  BY <1>1
<1>3. /\ Min({RefreshSeconds, next}) \in {RefreshSeconds, next}
      /\ \A y \in {RefreshSeconds, next} : Min({RefreshSeconds, next}) <= y
  BY <1>2 DEF Min
<1>4. Min({RefreshSeconds, next}) \in 0 .. RefreshSeconds
  BY <1>1, <1>3
<1> QED
  BY <1>4 DEF RefreshAfter, next

(* Every step: the page is written by its own thread only, and the time    *)
(* that passes meanwhile only makes it older.                              *)
LEMMA StartsStep ==
  ASSUME StartsInv, PageInv, ClientsInv, [Next]_vars PROVE StartsInv'
<1> USE DEF StartsInv
<1>1. EntriesInv'
  BY EntriesStep
<1>2. /\ clock \in Time /\ clock' \in Time /\ clock <= clock'
      /\ Time \subseteq Nat
  <2>1. clock \in Time /\ Time \subseteq Nat
    BY WebServerBounds DEF ClientsInv, ClientsTypeOK, Time
  <2>2. clock' \in Time
    BY ClientsStep DEF ClientsInv, ClientsTypeOK
  <2> QED
    BY <2>1, <2>2
    DEF Next, vars, PageStep, ReadNowPlaying, ReadClock, ReadPlaylist, Request,
        GetPlaylistPage, GetNumActiveClients, AddToPlaylist, RemoveFromPlaylist,
        PopNextPlaylistItem, Publish, PlaylistItemFinished, Tick
<1>3. ASSUME UNCHANGED page PROVE PageTimesInv' /\ BackToBack'
  <2>1. page.video # NoVideo => page.video.startTime \in Nat
    BY <1>2 DEF PageTimesInv, PageTypeOK, Video
  <2>2. page.asked \in Nat /\ page.now \in Nat
    BY <1>2 DEF PageTimesInv, PageTypeOK
  <2>3. PageTimesInv'
    BY <1>2, <1>3, <2>1, <2>2 DEF PageTimesInv, PageTypeOK
  <2>4. BackToBack'
    BY <1>3 DEF BackToBack, Follows, First, PlannedEnd, ShownEnd
  <2> QED
    BY <2>3, <2>4
<1>4. ASSUME NEW c \in Client, GetPlaylistPage(c)
      PROVE  PageTimesInv' /\ BackToBack'
  <2>1. page' = Blank("nowPlaying", clock) /\ clock' = clock
    BY <1>4 DEF GetPlaylistPage
  <2>2. PageTimesInv'
    BY <1>2, <2>1, WebServerBounds DEF Blank, PageTimesInv, PageTypeOK, Word
  <2>3. BackToBack'
    BY <2>1 DEF Blank, BackToBack
  <2> QED
    BY <2>2, <2>3
<1>5. CASE ReadNowPlaying
  <2>1. /\ page' = [page EXCEPT !.video = nowPlaying,
                      !.pc = IF nowPlaying = NoVideo THEN "playlist" ELSE "left"]
        /\ clock' = clock /\ page.video = NoVideo
    BY <1>5 DEF ReadNowPlaying, PageTimesInv
  <2>2. nowPlaying \in Video \cup {NoVideo}
    BY DEF PageInv, PlayTypeOK
  <2>3. nowPlaying # NoVideo => nowPlaying.startTime <= clock
    BY DEF EntriesInv
  <2>4. /\ page'.video = nowPlaying
        /\ page'.pc = IF nowPlaying = NoVideo THEN "playlist" ELSE "left"
        /\ page'.left = page.left /\ page'.asked = page.asked /\ page'.now = page.now
        /\ page'.began = page.began /\ page'.refresh = page.refresh
        /\ page'.waiting = page.waiting /\ page'.start = page.start
    BY <2>1 DEF PageInv
  <2>5. PageTypeOK'
    BY <2>2, <2>4 DEF PageTimesInv, PageTypeOK
  <2>6. PageTimesInv'
    BY <2>1, <2>3, <2>4, <2>5 DEF PageTimesInv
  <2>7. BackToBack'
    BY <2>4 DEF BackToBack
  <2> QED
    BY <1>1, <2>6, <2>7
<1>6. CASE ReadClock
  <2>1. /\ page.pc = "left" /\ page.video \in Video /\ page.video # NoVideo
        /\ page.video.startTime <= clock
    BY <1>6 DEF ReadClock, PageTimesInv, PageTypeOK
  <2>2. /\ page'.asked = clock /\ page'.left = Left(page.video)
        /\ page'.refresh = RefreshAfter(Left(page.video)) /\ page'.pc = "playlist"
        /\ page'.video = page.video /\ page'.now = page.now
        /\ page'.began = page.began
        /\ page'.waiting = page.waiting /\ page'.start = page.start
        /\ clock' = clock
    BY <1>6 DEF ReadClock, PageInv
  <2>3. Left(page.video) \in Word /\ Left(page.video) \in Nat
    <3>1. page.video.startTime \in Nat /\ page.video.entry.length \in Nat
      <4>1. page.video.entry \in Entry /\ page.video.startTime \in Time
        BY <2>1 DEF Video
      <4>2. page.video.entry.length \in 0 .. MaxLength
        BY <4>1 DEF Entry
      <4>3. page.video.entry.length \in Nat
        BY <4>2, WebServerBounds DEF Word
      <4>4. page.video.startTime \in Nat
        BY <1>2, <4>1
      <4> QED
        BY <4>3, <4>4
    <3>2. WordSize \in Nat \ {0}
      BY WebServerBounds
    <3>3. Elapsed(page.video) \in Int
      <4>1. clock - page.video.startTime \in Int
        BY <1>2, <3>1
      <4>2. (clock - page.video.startTime) % WordSize \in 0 .. (WordSize - 1)
        BY <3>2, <4>1, Remainder
      <4> QED
        BY <3>2, <4>2 DEF Elapsed
    <3>4. page.video.entry.length - Elapsed(page.video) \in Int
      BY <3>1, <3>3
    <3> QED
      <4>1. Left(page.video) \in 0 .. (WordSize - 1)
        BY <3>2, <3>4, Remainder DEF Left
      <4> QED
        BY <3>2, <4>1 DEF Word
  <2>4. page'.refresh \in 0 .. RefreshSeconds
    BY <2>2, <2>3, RefreshBounded
  <2>5. PageTypeOK'
    BY <1>2, <2>2, <2>3, <2>4 DEF PageTimesInv, PageTypeOK
  <2>6. page.began \in Nat /\ page.asked \in Nat
    BY <1>2 DEF PageTimesInv, PageTypeOK
  <2>7. PageTimesInv'
    BY <1>2, <2>1, <2>2, <2>5, <2>6 DEF PageTimesInv, Left, Elapsed
  <2>8. BackToBack'
    BY <2>2 DEF BackToBack
  <2> QED
    BY <1>1, <2>7, <2>8
<1>7. CASE ReadPlaylist
  BY <1>1, <1>7, PlaylistReadBackToBack
<1> QED
  BY <1>1, <1>3, <1>4, <1>5, <1>6, <1>7
  DEF Next, vars, PageStep, Request, GetNumActiveClients, AddToPlaylist,
      RemoveFromPlaylist, PopNextPlaylistItem, Publish, PlaylistItemFinished, Tick

(* The invariant of the playlist page (WebServer.cpp:563-615).             *)
THEOREM StartsInvariant == Spec => []StartsInv
<1>1. StartsInv /\ PageInv /\ ClientsInv /\ [Next]_vars => StartsInv'
  BY StartsStep
<1>2. PageInv /\ ClientsInv /\ [Next]_vars => PageInv'
  BY PageInvStep
<1> QED
  BY <1>1, <1>2, StartsInitially, PageInitially, ClientsInvariant, PTL DEF Spec

(* The start times and everything else on the page are of their types:     *)
(* words, whatever has overrun.                                            *)
THEOREM WebServerTypesOK == Spec => []WebServerTypeOK
<1>1. StartsInv /\ PageInv /\ ClientsInv => WebServerTypeOK
  BY DEF StartsInv, PageTimesInv, PageInv, ClientsInv, WebServerTypeOK
<1>2. PageInv /\ ClientsInv /\ [Next]_vars => PageInv'
  BY PageInvStep
<1> QED
  BY <1>1, <1>2, StartsInvariant, PageInitially, ClientsInvariant, PTL DEF Spec

(* Each video is announced for the end of the one before it, and the first *)
(* one for the end of the current one, late by no more than the time the   *)
(* page took to be put together; or, when the current one has overrun, all *)
(* of them a word of seconds later than that.                              *)
THEOREM StartTimesBackToBack == Spec => []BackToBack
<1>1. StartsInv => BackToBack
  BY DEF StartsInv
<1> QED
  BY <1>1, StartsInvariant, PTL

-----------------------------------------------------------------------------
(* The time after which the page is loaded again.  It is found together    *)
(* with `left', and stays when the page shows a current video.             *)
RefreshInv ==
  page.pc \in {"playlist", "done"} /\ page.video # NoVideo =>
    page.refresh = RefreshAfter(page.left)

(* Only ReadClock and ReadPlaylist lead to such a page.                    *)
LEMMA RefreshStep ==
  ASSUME StartsInv, PageInv, RefreshInv, [Next]_vars PROVE RefreshInv'
<1>1. CASE UNCHANGED page
  BY <1>1 DEF RefreshInv, RefreshAfter
<1>2. ASSUME NEW c \in Client, GetPlaylistPage(c) PROVE RefreshInv'
  BY <1>2 DEF GetPlaylistPage, Blank, RefreshInv
<1>3. CASE ReadNowPlaying
  <2>1. page'.video # NoVideo => page'.pc = "left"
    BY <1>3 DEF ReadNowPlaying, PageInv
  <2> QED
    BY <2>1 DEF RefreshInv
<1>4. CASE ReadClock
  <2>1. /\ page'.left = Left(page.video)
        /\ page'.refresh = RefreshAfter(Left(page.video))
    BY <1>4 DEF ReadClock, PageInv
  <2> QED
    BY <2>1 DEF RefreshInv, RefreshAfter
<1>5. CASE ReadPlaylist
  <2>1. /\ page.pc = "playlist" /\ page'.video = page.video /\ page'.left = page.left
        /\ page.video # NoVideo => page'.refresh = page.refresh
    BY <1>5 DEF ReadPlaylist, Shown, PageInv
  <2> QED
    BY <2>1 DEF RefreshInv, RefreshAfter
<1> QED
  BY <1>1, <1>2, <1>3, <1>4, <1>5
  DEF Next, vars, PageStep, Request, GetNumActiveClients, AddToPlaylist,
      RemoveFromPlaylist, PopNextPlaylistItem, Publish, PlaylistItemFinished, Tick

(* The refresh is no later than the second after `left', and 0 when adding *)
(* that second makes the word wrap around.                                 *)
LEMMA RefreshIsSoon ==
  ASSUME NEW left \in Word
  PROVE  RefreshAfter(left) <= IF left = WordSize - 1 THEN 0 ELSE left + 1
<1> DEFINE next == (left + 1) % WordSize
<1>1. /\ WordSize \in Nat /\ RefreshSeconds \in Nat /\ RefreshSeconds < WordSize
      /\ left \in Nat /\ left + 1 <= WordSize
  BY WebServerBounds DEF Word
<1>2. next = IF left = WordSize - 1 THEN 0 ELSE left + 1
  <2>1. CASE left = WordSize - 1
    BY <1>1, <2>1
  <2>2. CASE left # WordSize - 1
    <3>1. left + 1 \in 0 .. (WordSize - 1)
      BY <1>1, <2>2
    <3> QED
      BY <1>1, <2>2, <3>1
  <2> QED
    BY <2>1, <2>2
<1>3. next \in Nat
  BY <1>1, <1>2
<1> HIDE DEF next
<1>4. \E x \in {RefreshSeconds, next} : \A y \in {RefreshSeconds, next} : x <= y
  BY <1>1, <1>3
<1>5. Min({RefreshSeconds, next}) <= next
  BY <1>4 DEF Min
<1> QED
  BY <1>2, <1>5 DEF RefreshAfter, next

(* What is left one second after the end: the word before 0.               *)
LEMMA LeftOneSecondLate ==
  ASSUME NEW length \in 0 .. MaxLength, NEW elapsed \in Nat, elapsed = length + 1
  PROVE  (length - (elapsed % WordSize)) % WordSize = WordSize - 1
<1>1. /\ WordSize \in Nat \ {0} /\ length \in Nat /\ length + 1 <= WordSize
      /\ WordSize - 1 \in 0 .. (WordSize - 1)
  BY WebServerBounds DEF Word
<1>2. \A i \in 0 .. (WordSize - 1) : i % WordSize = i
  BY <1>1
<1>3. CASE elapsed = WordSize
  <2>1. elapsed % WordSize = 0
    BY <1>1, <1>3
  <2>2. length - (elapsed % WordSize) = WordSize - 1
    BY <1>1, <1>3, <2>1
  <2> QED
    BY <1>1, <1>2, <2>2
<1>4. CASE elapsed # WordSize
  <2>1. elapsed % WordSize = elapsed
    BY <1>1, <1>2, <1>4
  <2>2. length - (elapsed % WordSize) = -1
    BY <1>1, <2>1
  <2>3. (-1) % WordSize = WordSize - 1
    <3>1. -1 \in Int
      OBVIOUS
    <3>2. PICK q \in Int : -1 = WordSize * q + ((-1) % WordSize)
      BY <1>1, <3>1, Remainder
    <3>3. (-1) % WordSize \in 0 .. (WordSize - 1)
      BY <1>1, <3>1, Remainder
    <3>4. WordSize * (-1) + (WordSize - 1) = WordSize * q + ((-1) % WordSize)
      BY <1>1, <3>2
    <3> QED
      BY <1>1, <3>3, <3>4, RemainderUnique
  <2> QED
    BY <2>2, <2>3
<1> QED
  BY <1>3, <1>4

(* A page of a video that is over by a second at most.                     *)
LEMMA RefreshInTime ==
  ASSUME StartsInv, ClientsInv, RefreshInv,
         page.pc = "done", page.video # NoVideo, page.asked <= PlannedEnd + 1
  PROVE  page.refresh <= 1 + Max({0, PlannedEnd - page.asked})
<1>1. /\ WordSize \in Nat \ {0} /\ MaxLength \in 0 .. (WordSize - 1)
      /\ Time \subseteq Nat
  BY WebServerBounds DEF Word, Time
<1>2. PICK length \in 0 .. MaxLength, start \in Nat, asked \in Nat :
        /\ length = page.video.entry.length /\ start = page.video.startTime
        /\ asked = page.asked /\ start <= asked
  <2>1. page.video \in Video /\ page.asked \in Time
    BY DEF StartsInv, PageTimesInv, PageTypeOK
  <2>2. page.video.entry \in Entry /\ page.video.startTime \in Time
    BY <2>1 DEF Video
  <2>3. page.video.entry.length \in 0 .. MaxLength
    BY <2>2 DEF Entry
  <2>4. page.video.startTime <= page.asked
    BY DEF StartsInv, PageTimesInv
  <2> QED
    BY <1>1, <2>1, <2>2, <2>3, <2>4
<1>3. length \in Nat
  BY <1>1
<1>4. /\ page.left = (length - ((asked - start) % WordSize)) % WordSize
      /\ page.left \in Word /\ page.refresh = RefreshAfter(page.left)
      /\ page.refresh \in Int
  BY <1>2, WebServerBounds DEF StartsInv, PageTimesInv, PageTypeOK, RefreshInv
<1>5. PICK early \in Int : early = PlannedEnd - page.asked
                          /\ early = start + length - asked /\ early >= -1
  BY <1>2, <1>3 DEF PlannedEnd
<1>6. /\ early >= 0 => Max({0, early}) = early
      /\ early < 0 => Max({0, early}) = 0
  <2>1. \E x \in {0, early} : \A y \in {0, early} : x >= y
    OBVIOUS
  <2>2. /\ Max({0, early}) \in {0, early}
        /\ \A y \in {0, early} : Max({0, early}) >= y
    BY <2>1 DEF Max
  <2> QED
    BY <2>2
<1>7. CASE early >= 0
  <2>1. page.left = early
    <3>1. start + length >= asked
      BY <1>2, <1>3, <1>5, <1>7
    <3>2. page.left = start + length - asked
      BY <1>2, <1>4, <3>1, LeftOnTime
    <3> QED
      BY <1>5, <3>2
  <2>2. page.refresh <= IF early = WordSize - 1 THEN 0 ELSE early + 1
    BY <1>4, <2>1, RefreshIsSoon
  <2>3. page.refresh <= 1 + early
    BY <1>1, <1>4, <1>7, <2>2
  <2> QED
    BY <1>5, <1>6, <1>7, <2>3
<1>8. CASE early < 0
  <2>1. asked - start \in Nat /\ asked - start = length + 1
    BY <1>2, <1>3, <1>5, <1>8
  <2>2. page.left = WordSize - 1
    BY <1>4, <2>1, LeftOneSecondLate
  <2>3. page.refresh <= 0
    BY <1>4, <2>2, RefreshIsSoon
  <2> QED
    BY <1>4, <1>5, <1>6, <1>8, <2>3
<1> QED
  BY <1>7, <1>8

(* It takes an overrun of two seconds to miss the end (WebServer.cpp:587): *)
(* every page asked for before, or up to a second after the current video  *)
(* should have ended is loaded again when that one ends.                   *)
THEOREM OnlyOverrunsMissTheEnd ==
  Spec => [](page.asked <= PlannedEnd + 1 => RefreshesAfterEnd)
<1>1. Init => RefreshInv
  BY DEF Init, Blank, RefreshInv
<1>2. StartsInv /\ PageInv /\ RefreshInv /\ [Next]_vars => RefreshInv'
  BY RefreshStep
<1>3. PageInv /\ ClientsInv /\ [Next]_vars => PageInv'
  BY PageInvStep
<1>4. StartsInv /\ ClientsInv /\ RefreshInv =>
        (page.asked <= PlannedEnd + 1 => RefreshesAfterEnd)
  BY RefreshInTime DEF RefreshesAfterEnd
<1> QED
  BY <1>1, <1>2, <1>3, <1>4, StartsInvariant, PageInitially, ClientsInvariant, PTL
  DEF Spec
=============================================================================
