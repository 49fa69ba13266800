---------------------------- MODULE PlayerProofs ----------------------------
(***************************************************************************)
(* Proofs about Player, for any number of clients and media and any        *)
(* bounds: what is published is an open row of the history, votes belong   *)
(* to what is published, and only a crash leaves a row open.               *)
(***************************************************************************)
EXTENDS Player, DatabaseProofs, FiniteSetTheorems

(* The row of the history that was inserted for item, still open.          *)
OpenRow(h, item) ==
  h.id = item.id /\ h.media = item.media /\ h.finishReason = "NULL"
HasOpenRow(item) == \E h \in history : OpenRow(h, item)

(* nowPlaying is the loop's item, up to the counts of votes.               *)
SameItem == nowPlaying # NoItem /\ nowPlaying.id = player.item.id
            /\ nowPlaying.media = player.item.media

(* How the loop's local item and nowPlaying go together, by where the loop *)
(* is: the item is popped before it is published and recorded after.       *)
LoopInv ==
  /\ player.pc \in {"check", "pop", "exited"} =>
       player.item = NoItem /\ nowPlaying = NoItem
  /\ player.pc = "publish" => nowPlaying = NoItem
  /\ player.pc \in {"start", "waiting", "woken", "finish"} =>
       \/ player.item = NoItem /\ nowPlaying = NoItem
       \/ player.item # NoItem /\ SameItem
  /\ player.pc \in {"finish", "record"} =>
       player.item # NoItem /\ player.reason \in {"Completed", "Skipped"}
  /\ player.pc = "record" => nowPlaying = NoItem
  /\ player.item # NoItem => HasOpenRow(player.item)
  /\ player.pc = "publish" /\ player.item # NoItem => player.item.skipCount = 0

VotesInv ==
  /\ nowPlaying = NoItem => skips = {}
  /\ nowPlaying # NoItem => nowPlaying.skipCount = Cardinality(skips)

PlayerInv == DbInv /\ PlayerTypeOK /\ LoopInv /\ VotesInv

-----------------------------------------------------------------------------
(* Sets of clients are finite, and counts of them fit the history's        *)
(* columns.                                                                *)
LEMMA CountsFit ==
  ASSUME NEW active \in SUBSET Client
  PROVE  Cardinality(active) \in SkipCount /\ NeededSkips(active) \in SkipCount
<1>1. IsFiniteSet(active) /\ Cardinality(active) <= Cardinality(Client)
  BY FS_Subset, PlayerBounds
<1>2. Cardinality(active) \in Nat /\ Cardinality(Client) \in Nat
  BY <1>1, FS_CardinalityType, PlayerBounds
<1>3. Cardinality(active) < MaxSkips
  BY <1>1, <1>2, SkipsFit, BoundsAssumption
<1>4. CASE (Cardinality(active) + 1) \div 2 < 1
  BY <1>2, <1>3, <1>4, BoundsAssumption DEF NeededSkips, SkipCount
<1>5. CASE ~((Cardinality(active) + 1) \div 2 < 1)
  <2>1. (Cardinality(active) + 1) \div 2 <= Cardinality(active) + 1
    BY <1>2
  <2>2. (Cardinality(active) + 1) \div 2 \in Nat
    BY <1>2
  <2> QED
    BY <1>2, <1>3, <1>5, <2>1, <2>2, BoundsAssumption DEF NeededSkips, SkipCount
<1> QED
  BY <1>4, <1>5

(* What popNextPlaylistItem returns is nothing or an open history row.     *)
LEMMA NextItemsTyped ==
  ASSUME DbInv, NEW item \in NextItems
  PROVE  \/ item = NoItem
         \/ /\ item \in HistoryItem /\ item # NoItem
            /\ item.finishReason = "NULL" /\ item.skipCount = 0
<1>1. CASE ReadyItems = {}
  BY <1>1 DEF NextItems
<1>2. CASE ReadyItems # {}
  <2>1. PICK i \in HistoryId, p \in ReadyItems :
          item = [id |-> i, media |-> p.media, queueTime |-> p.queueTime,
                  finishReason |-> "NULL", skipCount |-> 0, skipsNeeded |-> 0]
    BY <1>2 DEF NextItems
  <2>2. p \in PlaylistItem
    BY DEF ReadyItems, DbInv, DbTypeOK
  <2>3. item \in HistoryItem
    BY <2>1, <2>2, BoundsAssumption
    DEF HistoryItem, PlaylistItem, FinishReason, SkipCount
  <2> QED
    BY <2>1, <2>3, NoItemAssumption
<1> QED
  BY <1>1, <1>2

(* The states of the loop and of a voter that the steps assign.            *)
PlayerState ==
  [pc : {"check", "pop", "publish", "start", "waiting", "woken",
         "finish", "record", "exited"},
   item : HistoryItem \cup {NoItem}, reason : FinishReason, skipCount : SkipCount]

(* What Loop(pc, item) makes.                                              *)
LEMMA LoopValues ==
  ASSUME NEW pc \in {"check", "pop", "publish", "exited"},
         NEW item \in HistoryItem \cup {NoItem}
  PROVE  /\ Loop(pc, item) \in PlayerState
         /\ Loop(pc, item).pc = pc /\ Loop(pc, item).item = item
BY BoundsAssumption DEF Loop, PlayerState, FinishReason, SkipCount

(* Where the loop begins, and goes after each video.                       *)
LEMMA CheckIsState == Loop("check", NoItem) \in PlayerState
BY LoopValues

(* A wakeup moves the loop out of its wait, and nothing else.              *)
LEMMA WakeLoopOnly ==
  ASSUME player \in PlayerState, WakeLoop \/ UNCHANGED player
  PROVE  /\ player' \in PlayerState
         /\ player'.item = player.item /\ player'.reason = player.reason
         /\ \/ player'.pc = player.pc
            \/ player.pc = "waiting" /\ player'.pc = "woken"
BY DEF WakeLoop, PlayerState

-----------------------------------------------------------------------------
(* Types.  The parts of PlayerTypeOK that an action leaves alone are in    *)
(* the named tuples.                                                       *)
LoopTypeOK ==
  /\ player \in PlayerState
  /\ onStandby \in BOOLEAN /\ skipped \in BOOLEAN
  /\ screen \in {"off", "standby", "video"} /\ endReports \in 0 .. 1

VoterState == [pc : {"idle", "vote", "skip"}, media : {0} \cup MediaId, needed : SkipCount]

VoteTypeOK ==
  /\ nowPlaying \in HistoryItem \cup {NoItem}
  /\ skips \subseteq Client /\ clients \subseteq Client
  /\ voter \in [Client -> VoterState] /\ requests \in 0 .. MaxRequests

StopTypeOK ==
  /\ shutdownFlag \in BOOLEAN /\ handling \in BOOLEAN
  /\ signals \in 0 .. MaxSignals

UpdateTypeOK == notifying \in BOOLEAN /\ updates \in 0 .. MaxUpdates

TypeParts ==
  LoopTypeOK /\ VoteTypeOK /\ StopTypeOK /\ UpdateTypeOK /\ crashes \in 0 .. MaxCrashes

(* PlayerTypeOK is the types of the tables and those of the parts.         *)
LEMMA TypesByParts == PlayerTypeOK <=> DbTypeOK /\ TypeParts
BY DEF PlayerTypeOK, TypeParts, LoopTypeOK, VoteTypeOK, StopTypeOK, UpdateTypeOK,
   PlayerState, VoterState

(* A step that leaves a tuple of variables alone keeps its types.          *)
LEMMA TypesUnchanged ==
  /\ LoopTypeOK /\ UNCHANGED loopVars => LoopTypeOK'
  /\ VoteTypeOK /\ UNCHANGED voteVars => VoteTypeOK'
  /\ StopTypeOK /\ UNCHANGED stopVars => StopTypeOK'
  /\ UpdateTypeOK /\ UNCHANGED updateVars => UpdateTypeOK'
BY DEF loopVars, voteVars, stopVars, updateVars, LoopTypeOK, VoteTypeOK, StopTypeOK,
   UpdateTypeOK

(* The steps of the loop keep the types: counts of votes fit.              *)
LEMMA LoopStepTypes ==
  ASSUME DbInv, TypeParts, LoopStep PROVE TypeParts'
<1> USE TypesUnchanged DEF TypeParts
<1>1. CASE CheckShutdown
  BY <1>1, LoopValues DEF CheckShutdown, LoopTypeOK
<1>2. CASE PopNext
  <2>1. PICK item \in NextItems : player' = Loop("publish", item)
    BY <1>2 DEF PopNext
  <2>2. player' \in PlayerState
    BY <2>1, NextItemsTyped, LoopValues
  <2> QED
    BY <1>2, <2>2 DEF PopNext, LoopTypeOK
<1>3. CASE Publish
  <2>1. player' \in PlayerState /\ player.item \in HistoryItem \cup {NoItem}
    BY <1>3 DEF Publish, LoopTypeOK, PlayerState
  <2> QED
    BY <1>3, <2>1 DEF Publish, LoopTypeOK, VoteTypeOK
<1>4. CASE StartMedia
  <2>1. player' \in PlayerState
    BY <1>4 DEF StartMedia, LoopTypeOK, PlayerState
  <2>2. onStandby' \in BOOLEAN /\ skipped' \in BOOLEAN
    BY <1>4 DEF StartMedia
  <2> QED
    BY <1>4, <2>1, <2>2 DEF StartMedia, LoopTypeOK
<1>5. CASE AfterWait
  <2>1. Loop("check", NoItem) \in PlayerState
    BY LoopValues
  <2>2. player' \in PlayerState
    BY <1>5, <2>1 DEF AfterWait, LoopTypeOK, PlayerState, Reason, FinishReason
  <2> QED
    BY <1>5, <2>2 DEF AfterWait, LoopTypeOK
<1>6. CASE StopPublishing
  <2>1. Cardinality(skips) \in SkipCount
    BY CountsFit DEF VoteTypeOK
  <2>2. player' \in PlayerState
    BY <1>6, <2>1 DEF StopPublishing, LoopTypeOK, PlayerState
  <2> QED
    BY <1>6, <2>2 DEF StopPublishing, LoopTypeOK, VoteTypeOK
<1>7. CASE RecordFinished
  BY <1>7, LoopValues DEF RecordFinished, LoopTypeOK
<1> QED
  BY <1>1, <1>2, <1>3, <1>4, <1>5, <1>6, <1>7 DEF LoopStep

(* Requests for a skip, and other requests, keep the types.                *)
LEMMA VoterTypes ==
  ASSUME TypeParts, NEW c \in Client,
         (\E id \in MediaId : SkipVideo(c, id)) \/ VoteStep(c) \/ Visit(c) \/ TimeOut(c)
  PROVE  TypeParts'
<1> USE TypesUnchanged, PlayerBounds DEF TypeParts
<1>1. ASSUME NEW id \in MediaId, SkipVideo(c, id) PROVE TypeParts'
  <2>1. clients' \subseteq Client
    BY <1>1 DEF SkipVideo, VoteTypeOK
  <2>2. NeededSkips(clients') \in SkipCount
    BY <2>1, CountsFit
  <2>3. voter' \in [Client -> VoterState]
    BY <1>1, <2>2 DEF SkipVideo, VoteTypeOK, VoterState
  <2>4. requests' \in 0 .. MaxRequests
    BY <1>1 DEF SkipVideo, VoteTypeOK
  <2> QED
    BY <1>1, <2>1, <2>3, <2>4 DEF SkipVideo, VoteTypeOK
<1>2. CASE CastVote(c)
  <2>1. NotVoting \in VoterState
    BY CountsFit, BoundsAssumption DEF NotVoting, VoterState, SkipCount
  <2>2. voter[c] \in VoterState
    BY DEF VoteTypeOK
  <2>3. skips' \subseteq Client /\ Cardinality(skips') \in SkipCount
    <3>1. skips' \subseteq Client
      BY <1>2 DEF CastVote, VoteTypeOK
    <3> QED
      BY <3>1, CountsFit
  <2>4. [voter[c] EXCEPT !.pc = "skip"] \in VoterState
    BY <2>2 DEF VoterState
  <2>5. voter' \in [Client -> VoterState]
    BY <1>2, <2>1, <2>4 DEF CastVote, VoteTypeOK
  <2>6. nowPlaying' \in HistoryItem \cup {NoItem}
    <3>1. CASE UNCHANGED nowPlaying
      BY <3>1 DEF VoteTypeOK
    <3>2. CASE nowPlaying # NoItem
               /\ nowPlaying' = [nowPlaying EXCEPT !.skipCount = Cardinality(skips'),
                                                   !.skipsNeeded = voter[c].needed]
      BY <3>2, <2>2, <2>3 DEF VoteTypeOK, HistoryItem, VoterState
    <3> QED
      BY <1>2, <3>1, <3>2 DEF CastVote
  <2> QED
    BY <1>2, <2>3, <2>5, <2>6 DEF CastVote, VoteTypeOK
<1>3. CASE SkipCurrent(c)
  <2>1. NotVoting \in VoterState
    BY CountsFit, BoundsAssumption DEF NotVoting, VoterState, SkipCount
  <2> QED
    BY <1>3, <2>1, WakeLoopOnly DEF SkipCurrent, LoopTypeOK, VoteTypeOK
<1>4. CASE Visit(c) \/ TimeOut(c)
  BY <1>4 DEF Visit, TimeOut, VoteTypeOK
<1> QED
  BY <1>1, <1>2, <1>3, <1>4 DEF VoteStep

(* So do VLC, the downloader, signals, crashes and time.                   *)
LEMMA OtherTypes ==
  ASSUME TypeParts,
         \/ SpuriousWakeup \/ EndReached \/ VideoFinishCallback
         \/ \E id \in MediaId : QueueMedia(id)
         \/ \E m, id : MediaUpdated(m, id)
         \/ NotifyMediaUpdate
         \/ Signal \/ SignalNotify \/ Crash \/ PassTime \/ UNCHANGED vars
  PROVE  TypeParts'
<1> USE TypesUnchanged, WakeLoopOnly, PlayerBounds DEF TypeParts
<1>1. CASE SpuriousWakeup \/ EndReached \/ VideoFinishCallback
  <2>1. /\ player' \in PlayerState /\ endReports' \in 0 .. 1
        /\ screen' \in {"off", "standby", "video"}
    BY <1>1 DEF SpuriousWakeup, EndReached, VideoFinishCallback, LoopTypeOK
  <2> QED
    BY <1>1, <2>1 DEF SpuriousWakeup, EndReached, VideoFinishCallback, LoopTypeOK
<1>2. CASE (\E id \in MediaId : QueueMedia(id)) \/ PassTime \/ UNCHANGED vars
  BY <1>2 DEF QueueMedia, PassTime, vars
<1>3. ASSUME NEW m, NEW id, MediaUpdated(m, id)
      PROVE  TypeParts'
  <2>1. notifying' \in BOOLEAN
    BY <1>3 DEF MediaUpdated
  <2>2. updates' \in 0 .. MaxUpdates
    BY <1>3 DEF MediaUpdated, UpdateTypeOK
  <2> QED
    BY <1>3, <2>1, <2>2 DEF MediaUpdated, UpdateTypeOK
<1>4. CASE NotifyMediaUpdate
  <2>1. player' \in PlayerState
    BY <1>4 DEF NotifyMediaUpdate, LoopTypeOK
  <2> QED
    BY <1>4, <2>1 DEF NotifyMediaUpdate, LoopTypeOK, UpdateTypeOK
<1>5. CASE Signal
  BY <1>5 DEF Signal, StopTypeOK
<1>6. CASE SignalNotify
  <2>1. player' \in PlayerState
    BY <1>6 DEF SignalNotify, LoopTypeOK
  <2> QED
    BY <1>6, <2>1 DEF SignalNotify, LoopTypeOK, StopTypeOK
<1>7. CASE Crash
  <2>1. NotVoting \in VoterState
    BY CountsFit, BoundsAssumption DEF NotVoting, VoterState, SkipCount
  <2>2. voter' \in [Client -> VoterState]
    BY <1>7, <2>1 DEF Crash
  <2>3. LoopTypeOK'
    <3>1. player' \in PlayerState
      BY <1>7, CheckIsState DEF Crash
    <3>2. onStandby' \in BOOLEAN /\ skipped' \in BOOLEAN
      BY <1>7 DEF Crash
    <3> QED
      BY <1>7, <3>1, <3>2 DEF Crash, LoopTypeOK
  <2>4. VoteTypeOK'
    <3>1. requests' = requests
      BY <1>7 DEF Crash
    <3> QED
      BY <1>7, <2>2, <3>1 DEF Crash, VoteTypeOK
  <2>5. StopTypeOK' /\ UpdateTypeOK'
    <3>1. shutdownFlag' \in BOOLEAN /\ handling' \in BOOLEAN /\ notifying' \in BOOLEAN
      BY <1>7 DEF Crash
    <3>2. signals' \in 0 .. MaxSignals /\ updates' \in 0 .. MaxUpdates
      BY <1>7 DEF Crash, UpdateTypeOK
    <3> QED
      BY <3>1, <3>2 DEF StopTypeOK, UpdateTypeOK
  <2>6. crashes' \in 0 .. MaxCrashes
    BY <1>7 DEF Crash
  <2> QED
    BY <2>3, <2>4, <2>5, <2>6
<1> QED
  BY <1>1, <1>2, <1>3, <1>4, <1>5, <1>6, <1>7

-----------------------------------------------------------------------------
(* Every step is a step of the database or leaves the tables alone.        *)
LEMMA PlayerStepsDatabase ==
  ASSUME PlayerInv, [Next]_vars PROVE [DbNext]_dbVars
<1> USE DEF DbNext
<1>1. CASE PopNext
  BY <1>1 DEF PopNext
<1>2. CASE RecordFinished
  <2>1. player.pc = "record" /\ clients \in SUBSET Client /\ player \in PlayerState
    BY <1>2, TypesByParts DEF RecordFinished, PlayerInv, TypeParts, VoteTypeOK, LoopTypeOK
  <2>2. PICK h \in history : h.id = player.item.id
    BY <2>1 DEF PlayerInv, LoopInv, HasOpenRow, OpenRow
  <2>3. player.reason \in FinishReason \ {"NULL"} /\ player.skipCount \in SkipCount
    BY <2>1 DEF PlayerInv, LoopInv, FinishReason, PlayerState
  <2>4. NeededSkips(clients) \in SkipCount
    BY <2>1, CountsFit
  <2> QED
    BY <1>2, <2>2, <2>3, <2>4 DEF RecordFinished
<1>3. ASSUME NEW id \in MediaId, QueueMedia(id) PROVE DbNext
  BY <1>3 DEF QueueMedia
<1>4. ASSUME NEW m \in MediaInfoId, NEW id \in FinalIds(m), MediaUpdated(m, id)
      PROVE  DbNext
  BY <1>4 DEF MediaUpdated
<1>5. CASE PassTime
  BY <1>5 DEF PassTime
<1>6. CASE UNCHANGED dbVars
  BY <1>6
<1>7. ASSUME LoopStep PROVE DbNext \/ UNCHANGED dbVars
  BY <1>7, <1>1, <1>2
  DEF LoopStep, CheckShutdown, Publish, StartMedia, AfterWait, StopPublishing
<1>8. ASSUME NEW c \in Client,
             (\E id \in MediaId : SkipVideo(c, id)) \/ VoteStep(c) \/ Visit(c) \/ TimeOut(c)
      PROVE  UNCHANGED dbVars
  BY <1>8 DEF VoteStep, SkipVideo, CastVote, SkipCurrent, Visit, TimeOut
<1>9. ASSUME \/ SpuriousWakeup \/ EndReached \/ VideoFinishCallback
             \/ NotifyMediaUpdate \/ Signal \/ SignalNotify \/ Crash
             \/ Ended \/ UNCHANGED vars
      PROVE  UNCHANGED dbVars
  BY <1>9 DEF SpuriousWakeup, EndReached, VideoFinishCallback, NotifyMediaUpdate,
              Signal, SignalNotify, Crash, Ended, vars
<1> QED
  BY <1>3, <1>4, <1>5, <1>7, <1>8, <1>9 DEF Next

(* A step that leaves the loop where it is, wakes it at most, and closes   *)
(* no row keeps LoopInv.                                                   *)
LEMMA LoopLeftAlone ==
  ASSUME PlayerInv, WakeLoop \/ UNCHANGED player, history \subseteq history',
         UNCHANGED nowPlaying
  PROVE  LoopInv'
<1>1. player \in PlayerState
  BY TypesByParts DEF PlayerInv, TypeParts, LoopTypeOK
<1> QED
  BY <1>1, WakeLoopOnly DEF PlayerInv, LoopInv, HasOpenRow, OpenRow, SameItem

(* The steps of the loop.                                                  *)
LEMMA LoopStepInv ==
  ASSUME PlayerInv, LoopStep PROVE LoopInv' /\ VotesInv'
<1>0. DbInv
  BY DEF PlayerInv
<1>1. player \in PlayerState /\ TypeParts
  BY TypesByParts DEF PlayerInv, TypeParts, LoopTypeOK
<1> USE DEF PlayerInv, LoopInv, VotesInv
<1>2. CASE CheckShutdown
  BY <1>2, LoopValues DEF CheckShutdown, voteVars
<1>3. CASE PopNext
  <2>1. PICK item \in NextItems :
          PopNextPlaylistItem(item) /\ player' = Loop("publish", item)
    BY <1>3 DEF PopNext
  <2>2. \/ item = NoItem
        \/ /\ item \in HistoryItem /\ item # NoItem
           /\ item.finishReason = "NULL" /\ item.skipCount = 0
    BY <1>0, NextItemsTyped
  <2>3. player'.pc = "publish" /\ player'.item = item
    BY <2>1, <2>2, LoopValues
  <2>4. item # NoItem => item \in history'
    BY <2>1 DEF PopNextPlaylistItem
  <2>5. player.pc = "pop" /\ UNCHANGED <<nowPlaying, skips>>
    BY <1>3 DEF PopNext, voteVars
  <2> QED
    BY <2>2, <2>3, <2>4, <2>5 DEF HasOpenRow, OpenRow
<1>4. CASE Publish
  <2>1. /\ player.pc = "publish" /\ player'.pc = "start"
        /\ player'.item = player.item /\ nowPlaying' = player.item
        /\ UNCHANGED <<history, skips>>
    BY <1>1, <1>4 DEF Publish, PlayerState, dbVars
  <2>2. skips = {} /\ Cardinality(skips) = 0
    BY <2>1, FS_EmptySet
  <2> QED
    BY <2>1, <2>2 DEF HasOpenRow, OpenRow, SameItem
<1>5. CASE StartMedia
  <2>1. /\ player.pc = "start" /\ player'.pc = "waiting"
        /\ player'.item = player.item
        /\ UNCHANGED <<history, nowPlaying, skips>>
    BY <1>1, <1>5 DEF StartMedia, PlayerState, dbVars, voteVars
  <2> QED
    BY <2>1 DEF HasOpenRow, OpenRow, SameItem
<1>6. CASE AfterWait
  <2>1. player.pc = "woken" /\ UNCHANGED <<history, nowPlaying, skips>>
    BY <1>6 DEF AfterWait, dbVars, voteVars
  <2>2. CASE player.item = NoItem
    <3>1. player'.pc = "check" /\ player'.item = NoItem
      BY <1>6, <2>2, LoopValues DEF AfterWait
    <3> QED
      BY <2>1, <2>2, <3>1
  <2>3. CASE player.item # NoItem
    <3>1. /\ player'.pc = "finish" /\ player'.item = player.item
          /\ player'.reason \in {"Completed", "Skipped"}
      BY <1>1, <1>6, <2>3 DEF AfterWait, PlayerState, Reason
    <3> QED
      BY <2>1, <2>3, <3>1 DEF HasOpenRow, OpenRow, SameItem
  <2> QED
    BY <2>2, <2>3
<1>7. CASE StopPublishing
  <2>1. /\ player.pc = "finish" /\ player'.pc = "record"
        /\ player'.item = player.item /\ player'.reason = player.reason
        /\ nowPlaying' = NoItem /\ skips' = {} /\ UNCHANGED history
    BY <1>1, <1>7 DEF StopPublishing, PlayerState, dbVars
  <2> QED
    BY <2>1 DEF HasOpenRow, OpenRow, SameItem
<1>8. CASE RecordFinished
  <2>1. /\ player.pc = "record" /\ player'.pc = "check" /\ player'.item = NoItem
        /\ UNCHANGED <<nowPlaying, skips>>
    BY <1>8, LoopValues DEF RecordFinished, voteVars
  <2> QED
    BY <2>1
<1> QED
  BY <1>2, <1>3, <1>4, <1>5, <1>6, <1>7, <1>8 DEF LoopStep

(* A request to skip: a vote is counted for what is published, and the     *)
(* loop is only woken.                                                     *)
LEMMA VoterInv ==
  ASSUME PlayerInv, NEW c \in Client,
         (\E id \in MediaId : SkipVideo(c, id)) \/ VoteStep(c) \/ Visit(c) \/ TimeOut(c)
  PROVE  LoopInv' /\ VotesInv'
<1>1. TypeParts /\ VoteTypeOK
  BY TypesByParts DEF PlayerInv, TypeParts
<1>2. CASE CastVote(c) /\ nowPlaying # NoItem /\ nowPlaying.media = voter[c].media
  <2>1. /\ nowPlaying' = [nowPlaying EXCEPT !.skipCount = Cardinality(skips'),
                                            !.skipsNeeded = voter[c].needed]
        /\ UNCHANGED <<player, history>>
    BY <1>2 DEF CastVote, loopVars, dbVars
  <2>2. /\ nowPlaying \in HistoryItem /\ voter[c].needed \in SkipCount
        /\ skips' \in SUBSET Client
    BY <1>1, <1>2 DEF CastVote, VoteTypeOK, VoterState
  <2>3. Cardinality(skips') \in SkipCount
    BY <2>2, CountsFit
  <2>4. /\ nowPlaying' \in HistoryItem /\ nowPlaying'.skipCount = Cardinality(skips')
        /\ nowPlaying'.id = nowPlaying.id /\ nowPlaying'.media = nowPlaying.media
    BY <2>1, <2>2, <2>3 DEF HistoryItem
  <2>5. nowPlaying' # NoItem
    BY <2>4, NoItemAssumption
  <2> QED
    BY <1>2, <2>1, <2>4, <2>5
    DEF PlayerInv, LoopInv, VotesInv, HasOpenRow, OpenRow, SameItem
<1>3. CASE ~(CastVote(c) /\ nowPlaying # NoItem /\ nowPlaying.media = voter[c].media)
  <2>1. /\ UNCHANGED <<nowPlaying, skips, history>>
        /\ WakeLoop \/ UNCHANGED player
    BY <1>3 DEF VoteStep, SkipVideo, CastVote, SkipCurrent, Visit, TimeOut, loopVars, dbVars
  <2>2. LoopInv'
    BY <2>1, LoopLeftAlone
  <2> QED
    BY <2>1, <2>2 DEF PlayerInv, VotesInv
<1> QED
  BY <1>2, <1>3

(* Steps of others wake the loop at most, and close no row.                *)
LEMMA OtherInv ==
  ASSUME PlayerInv,
         \/ SpuriousWakeup \/ EndReached \/ VideoFinishCallback
         \/ \E id \in MediaId : QueueMedia(id)
         \/ \E m, id : MediaUpdated(m, id)
         \/ NotifyMediaUpdate
         \/ Signal \/ SignalNotify \/ PassTime \/ UNCHANGED vars
  PROVE  LoopInv' /\ VotesInv'
<1>1. /\ UNCHANGED <<nowPlaying, skips, history>>
      /\ WakeLoop \/ UNCHANGED player
  BY DEF SpuriousWakeup, EndReached, VideoFinishCallback, QueueMedia, AddToPlaylist,
         MediaUpdated, UpdateMediaInfo, NotifyMediaUpdate, Signal, SignalNotify,
         PassTime, Tick, tables, vars, loopVars, voteVars, dbVars
<1>2. LoopInv'
  BY <1>1, LoopLeftAlone
<1> QED
  BY <1>1, <1>2 DEF PlayerInv, VotesInv

(* A new process starts with nothing popped and nothing published.         *)
LEMMA CrashInv == ASSUME Crash PROVE LoopInv' /\ VotesInv'
<1>1. player'.pc = "check" /\ player'.item = NoItem
  BY LoopValues DEF Crash
<1> QED
  BY <1>1 DEF Crash, LoopInv, VotesInv

(* The database has no requests yet; the media are known.                  *)
LEMMA PlayerInvInit == Init => PlayerInv
<1> SUFFICES ASSUME Init PROVE PlayerInv
  OBVIOUS
<1>1. DbInv
  BY BoundsAssumption
  DEF Init, Library, DbInv, DbTypeOK, TableConstraints, PrimaryKeys, KeysUnique,
      UrlUnique, ForeignKeys, PlaylistUnique, Time
<1>2. NotVoting \in VoterState
  BY CountsFit, BoundsAssumption DEF NotVoting, VoterState, SkipCount
<1>3. TypeParts
  <2>1. LoopTypeOK
    <3>1. onStandby \in BOOLEAN /\ skipped \in BOOLEAN
      BY DEF Init
    <3> QED
      BY <3>1, CheckIsState DEF Init, LoopTypeOK
  <2>2. VoteTypeOK
    BY <1>2, PlayerBounds DEF Init, VoteTypeOK
  <2>3. StopTypeOK /\ UpdateTypeOK /\ crashes \in 0 .. MaxCrashes
    <3>1. shutdownFlag \in BOOLEAN /\ handling \in BOOLEAN /\ notifying \in BOOLEAN
      BY DEF Init
    <3>2. /\ signals \in 0 .. MaxSignals /\ updates \in 0 .. MaxUpdates
          /\ crashes \in 0 .. MaxCrashes
      BY PlayerBounds DEF Init
    <3> QED
      BY <3>1, <3>2 DEF StopTypeOK, UpdateTypeOK
  <2> QED
    BY <2>1, <2>2, <2>3 DEF TypeParts
<1>4. player.pc = "check" /\ player.item = NoItem
  BY LoopValues DEF Init
<1>5. LoopInv /\ VotesInv
  BY <1>4 DEF Init, LoopInv, VotesInv
<1> QED
  BY <1>1, <1>3, <1>5, TypesByParts DEF PlayerInv, DbInv

(* Every step keeps the inductive invariant: the tables by the lemmas of   *)
(* DatabaseProofs, the types and the rest by those above.                  *)
LEMMA PlayerInvStep == PlayerInv /\ [Next]_vars => PlayerInv'
<1> SUFFICES ASSUME PlayerInv, [Next]_vars PROVE PlayerInv'
  OBVIOUS
<1>1. DbInv /\ DbInv' /\ TypeParts
  BY PlayerStepsDatabase, DbStepKeepsInv, TypesByParts DEF PlayerInv
<1>2. Ended => UNCHANGED vars
  BY DEF Ended
<1>3. TypeParts'
  BY <1>1, <1>2, LoopStepTypes, VoterTypes, OtherTypes DEF Next
<1>4. LoopInv' /\ VotesInv'
  BY <1>2, LoopStepInv, VoterInv, OtherInv, CrashInv DEF Next
<1> QED
  BY <1>1, <1>3, <1>4
  DEF PlayerInv, DbInv, PlayerTypeOK, TypeParts, LoopTypeOK, VoteTypeOK, StopTypeOK,
      UpdateTypeOK, PlayerState, VoterState

(* The inductive invariant holds in every state.                           *)
THEOREM PlayerInvariant == Spec => []PlayerInv
BY PlayerInvInit, PlayerInvStep, PTL DEF Spec

(* The loop, the requests and the signals are well typed; in particular    *)
(* the numbers of votes fit where they are stored.                         *)
THEOREM PlayerTypeCorrect == Spec => []PlayerTypeOK
<1>1. PlayerInv => PlayerTypeOK
  BY DEF PlayerInv
<1> QED
  BY <1>1, PlayerInvariant, PTL

(* The assertions of Utuputki.cpp (137, 139, 181) cannot fail, whoever     *)
(* votes and whatever wakes the loop.                                      *)
THEOREM PublishedStateHolds == Spec => []PublishedState
<1>1. PlayerInv => PublishedState
  BY DEF PlayerInv, LoopInv, VotesInv, PublishedState
<1> QED
  BY <1>1, PlayerInvariant, PTL

(* What is published as playing is an open row of the history.             *)
THEOREM PublishedRowIsOpen == Spec => []PublishedIsOpen
<1>1. ASSUME PlayerInv, nowPlaying # NoItem
      PROVE  \E h \in history : /\ h.id = nowPlaying.id /\ h.media = nowPlaying.media
                                /\ h.finishReason = "NULL"
  <2>1. player \in PlayerState
    BY <1>1, TypesByParts DEF PlayerInv, TypeParts, LoopTypeOK
  <2>2. SameItem /\ player.item # NoItem
    BY <1>1, <2>1 DEF PlayerInv, LoopInv, PlayerState
  <2> QED
    BY <1>1, <2>2 DEF PlayerInv, LoopInv, SameItem, HasOpenRow, OpenRow
<1>2. PlayerInv => PublishedIsOpen
  BY <1>1 DEF PublishedIsOpen
<1> QED
  BY <1>2, PlayerInvariant, PTL

(* The player, with its votes, signals and crashes, only uses the database *)
(* as Database allows.                                                     *)
THEOREM PlayerUsesDatabase == Spec => [][DbNext]_dbVars
BY PlayerInvariant, PlayerStepsDatabase, PTL DEF Spec

-----------------------------------------------------------------------------
(* What a step does to the history: popNextPlaylistItem inserts an open    *)
(* row when the loop has no item, playlistItemFinished closes the one of   *)
(* the loop's item, and nothing else touches it.                           *)
Inserts == /\ player.pc = "pop" /\ player.item = NoItem
           /\ player'.item # NoItem /\ crashes' = crashes
           /\ player'.item.finishReason = "NULL"
           /\ history' = history \cup {player'.item}

Closes == /\ player.pc = "record" /\ player'.item = NoItem /\ crashes' = crashes
          /\ \E skipCount, skipsNeeded :
               PlaylistItemFinished(player.item.id, player.reason, skipCount, skipsNeeded)

Leaves == /\ history' = history
          /\ \/ player'.item = player.item /\ crashes' = crashes
             \/ player'.item = NoItem /\ crashes' = crashes + 1
             \/ player.item = NoItem /\ player'.item = NoItem /\ crashes' = crashes

(* There is no other step.                                                 *)
LEMMA HistorySteps ==
  ASSUME PlayerInv, [Next]_vars PROVE Inserts \/ Closes \/ Leaves
<1>1. player \in PlayerState
  BY TypesByParts DEF PlayerInv, TypeParts, LoopTypeOK
<1>2. CASE PopNext
  <2>1. PICK item \in NextItems :
          PopNextPlaylistItem(item) /\ player' = Loop("publish", item)
    BY <1>2 DEF PopNext
  <2>2. \/ item = NoItem
        \/ item \in HistoryItem /\ item # NoItem /\ item.finishReason = "NULL"
    BY NextItemsTyped DEF PlayerInv
  <2>3. player'.item = item
    BY <2>1, <2>2, LoopValues
  <2>4. player.pc = "pop" /\ player.item = NoItem /\ crashes' = crashes
    <3>1. player.pc = "pop" /\ crashes' = crashes
      BY <1>2 DEF PopNext
    <3> QED
      BY <3>1 DEF PlayerInv, LoopInv
  <2> QED
    BY <2>1, <2>2, <2>3, <2>4 DEF PopNextPlaylistItem, Inserts, Leaves
<1>3. CASE RecordFinished
  BY <1>3, LoopValues DEF RecordFinished, Closes
<1>4. ASSUME CheckShutdown \/ Publish \/ StartMedia \/ AfterWait \/ StopPublishing
      PROVE  Leaves
  <2>1. history' = history /\ crashes' = crashes
    BY <1>4 DEF CheckShutdown, Publish, StartMedia, AfterWait, StopPublishing, dbVars
  <2>2. CASE CheckShutdown
    BY <2>1, <2>2, LoopValues DEF CheckShutdown, PlayerInv, LoopInv, Leaves
  <2>3. CASE AfterWait
    BY <1>1, <2>1, <2>3, LoopValues DEF AfterWait, PlayerState, Leaves
  <2>4. CASE Publish \/ StartMedia \/ StopPublishing
    BY <1>1, <2>1, <2>4 DEF Publish, StartMedia, StopPublishing, PlayerState, Leaves
  <2> QED
    BY <1>4, <2>2, <2>3, <2>4
<1>5. CASE Crash
  BY <1>5, LoopValues DEF Crash, dbVars, Leaves
<1>6. ASSUME history' = history, crashes' = crashes, WakeLoop \/ UNCHANGED player
      PROVE  Leaves
  BY <1>1, <1>6, WakeLoopOnly DEF Leaves
<1>7. ASSUME NEW c \in Client,
             (\E id \in MediaId : SkipVideo(c, id)) \/ VoteStep(c) \/ Visit(c) \/ TimeOut(c)
      PROVE  Leaves
  BY <1>6, <1>7
  DEF VoteStep, SkipVideo, CastVote, SkipCurrent, Visit, TimeOut, dbVars, loopVars
<1>8. ASSUME \/ SpuriousWakeup \/ EndReached \/ VideoFinishCallback
             \/ \E id \in MediaId : QueueMedia(id)
             \/ \E m, id : MediaUpdated(m, id)
             \/ NotifyMediaUpdate
             \/ Signal \/ SignalNotify \/ PassTime \/ Ended \/ UNCHANGED vars
      PROVE  Leaves
  BY <1>6, <1>8
  DEF SpuriousWakeup, EndReached, VideoFinishCallback, QueueMedia, AddToPlaylist,
      MediaUpdated, UpdateMediaInfo, NotifyMediaUpdate, Signal, SignalNotify, PassTime,
      Tick, Ended, tables, vars, loopVars, dbVars
<1> QED
  BY <1>2, <1>3, <1>4, <1>5, <1>7, <1>8 DEF Next, LoopStep

(* playlistItemFinished changes one row: the open one of the loop's item.  *)
LEMMA ClosesOneRow ==
  ASSUME PlayerInv, Closes
  PROVE  \E row \in OpenRows :
           /\ \A h \in history : h # row => h \in history'
           /\ \A h \in history' : h \in history \/ h.finishReason # "NULL"
           /\ row \notin history'
<1>1. PICK row \in history : OpenRow(row, player.item)
  BY DEF PlayerInv, LoopInv, Closes, HasOpenRow
<1>2. \A h \in history : h.id = player.item.id => h = row
  BY <1>1 DEF PlayerInv, DbInv, TableConstraints, PrimaryKeys, KeysUnique, OpenRow
<1>3. player.reason # "NULL" /\ row \in HistoryItem
  BY DEF PlayerInv, LoopInv, Closes, DbInv, DbTypeOK
<1>4. PICK skipCount, skipsNeeded :
        PlaylistItemFinished(player.item.id, player.reason, skipCount, skipsNeeded)
  BY DEF Closes
<1>5. history' = {IF h.id = player.item.id
                    THEN [h EXCEPT !.finishReason = player.reason,
                                   !.skipCount    = skipCount,
                                   !.skipsNeeded  = skipsNeeded]
                    ELSE h : h \in history}
  BY <1>4 DEF PlaylistItemFinished
<1> DEFINE closed == [row EXCEPT !.finishReason = player.reason,
                                 !.skipCount    = skipCount,
                                 !.skipsNeeded  = skipsNeeded]
<1>6. closed.finishReason = player.reason
  BY <1>3 DEF HistoryItem
<1>7. \A h \in history' : h = closed \/ (h \in history /\ h # row)
  BY <1>1, <1>2, <1>5 DEF OpenRow
<1>8. \A h \in history : h # row => h \in history'
  BY <1>2, <1>5
<1> QED
  BY <1>1, <1>3, <1>6, <1>7, <1>8 DEF OpenRows, OpenRow

(* The record of a finished video never changes again: not by the end of   *)
(* another video, a merge, a failure or a crash.                           *)
THEOREM ClosedRowsStay == Spec => ClosedForGood
<1>1. ASSUME PlayerInv, [Next]_vars, NEW h \in history, h.finishReason # "NULL"
      PROVE  h \in history'
  <2>1. CASE Closes
    BY <1>1, <2>1, ClosesOneRow DEF OpenRows
  <2>2. CASE Inserts \/ Leaves
    BY <2>2 DEF Inserts, Leaves
  <2> QED
    BY <1>1, <2>1, <2>2, HistorySteps
<1>2. PlayerInv /\ [Next]_vars =>
        [\A h \in history : h.finishReason # "NULL" => h \in history']_vars
  BY <1>1
<1> QED
  BY <1>2, PlayerInvariant, PTL DEF Spec, ClosedForGood

(* Counting open rows: one more at most for each crash, and the one of the *)
(* loop's item.                                                            *)
OpenInv == IsFiniteSet(OpenRows) /\ FewOpenRows

(* Each of the three kinds of step keeps the count.                        *)
LEMMA OpenInvStep ==
  ASSUME PlayerInv, OpenInv, [Next]_vars PROVE OpenInv'
<1> DEFINE n == Cardinality(OpenRows)
<1>1. n \in Nat /\ crashes \in Nat
  BY FS_CardinalityType, TypesByParts, PlayerBounds DEF OpenInv, PlayerInv, TypeParts
<1>2. CASE Inserts
  <2>1. OpenRows' = OpenRows \cup {player'.item}
    BY <1>2 DEF Inserts, OpenRows
  <2>2. IsFiniteSet(OpenRows') /\ Cardinality(OpenRows') <= n + 1
    <3>1. Cardinality(OpenRows \cup {player'.item}) =
            IF player'.item \in OpenRows THEN n ELSE n + 1
      BY FS_AddElement DEF OpenInv
    <3>2. IsFiniteSet(OpenRows \cup {player'.item})
      BY FS_AddElement DEF OpenInv
    <3> QED
      BY <1>1, <2>1, <3>1, <3>2
  <2>3. Cardinality(OpenRows') \in Nat
    BY <2>2, FS_CardinalityType
  <2>4. n <= crashes
    BY <1>1, <1>2 DEF OpenInv, FewOpenRows, Inserts
  <2>5. Cardinality(OpenRows') <= crashes + 1
    BY <1>1, <2>2, <2>3, <2>4
  <2>6. FewOpenRows'
    BY <1>2, <2>5 DEF FewOpenRows, Inserts
  <2> QED
    BY <2>2, <2>6 DEF OpenInv
<1>3. CASE Closes
  <2>1. PICK row \in OpenRows :
          /\ \A h \in history : h # row => h \in history'
          /\ \A h \in history' : h \in history \/ h.finishReason # "NULL"
          /\ row \notin history'
    BY <1>3, ClosesOneRow
  <2>2. OpenRows' = OpenRows \ {row}
    BY <2>1 DEF OpenRows
  <2>3. IsFiniteSet(OpenRows') /\ Cardinality(OpenRows') = n - 1
    BY <2>1, <2>2, FS_RemoveElement DEF OpenInv
  <2>4. n <= crashes + 1
    BY <1>1 DEF OpenInv, FewOpenRows
  <2>5. Cardinality(OpenRows') <= crashes
    BY <1>1, <2>3, <2>4
  <2>6. FewOpenRows'
    BY <1>1, <1>3, <2>5 DEF FewOpenRows, Closes
  <2> QED
    BY <2>3, <2>6 DEF OpenInv
<1>4. CASE Leaves
  <2>1. OpenRows' = OpenRows
    BY <1>4 DEF Leaves, OpenRows
  <2>2. n <= crashes' + (IF player'.item = NoItem THEN 0 ELSE 1)
    BY <1>1, <1>4 DEF OpenInv, FewOpenRows, Leaves
  <2> QED
    BY <2>1, <2>2 DEF OpenInv, FewOpenRows
<1> QED
  BY <1>2, <1>3, <1>4, HistorySteps

(* Only a crash leaves a history row open, one for each.                   *)
THEOREM FewRowsStayOpen == Spec => []FewOpenRows
<1>1. ASSUME Init PROVE OpenInv
  <2>1. OpenRows = {} /\ crashes = 0 /\ player.item = NoItem
    BY <1>1, LoopValues DEF Init, OpenRows
  <2> QED
    BY <2>1, FS_EmptySet DEF OpenInv, FewOpenRows
<1>2. PlayerInv /\ OpenInv /\ [Next]_vars => OpenInv'
  BY OpenInvStep
<1>3. OpenInv => FewOpenRows
  BY DEF OpenInv
<1> QED
  BY <1>1, <1>2, <1>3, PlayerInvariant, PTL DEF Spec
=============================================================================
