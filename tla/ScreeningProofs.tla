--------------------------- MODULE ScreeningProofs ---------------------------
(***************************************************************************)
(* Player implements Screening, for any number of clients, media and       *)
(* crashes: one lemma for each kind of step says which step of Screening   *)
(* it is, or that it is none.                                              *)
(***************************************************************************)
EXTENDS PlayerScreening, PlayerProofs

(* The loop's item is, until it is recorded, the very row that was         *)
(* inserted for it.                                                        *)
ItemInv ==
  player.item # NoItem => player.item \in history /\ player.item.finishReason = "NULL"

(* Every step keeps it.                                                    *)
LEMMA ItemInvStep ==
  PlayerInv /\ ItemInv /\ [Next]_vars => ItemInv'
<1> SUFFICES ASSUME PlayerInv, ItemInv, [Next]_vars PROVE ItemInv'
  OBVIOUS
<1>1. CASE Inserts
  BY <1>1 DEF Inserts, ItemInv
<1>2. CASE Closes
  BY <1>2 DEF Closes, ItemInv
<1>3. CASE Leaves
  BY <1>3 DEF Leaves, ItemInv
<1> QED
  BY <1>1, <1>2, <1>3, HistorySteps

-----------------------------------------------------------------------------
(* The line.                                                               *)

(* What Screening sees of an entry of the playlist.                        *)
Place(p) == [media |-> p.media, queueTime |-> p.queueTime]

(* Of the entries of two media a merge keeps one that came first.          *)
LEMMA SurplusKeepsFirst ==
  ASSUME DbTypeOK, PlaylistUnique, NEW a, NEW b, NEW dropped \in Surplus(a, b)
  PROVE  /\ dropped \subseteq {p \in playlist : p.media \in {a, b}}
         /\ \A e \in playlist \ dropped, f \in playlist :
              e.media \in {a, b} /\ f.media \in {a, b} => e.queueTime <= f.queueTime
         /\ \A f \in playlist : f.media \in {a, b} =>
              \E e \in playlist \ dropped :
                e.media \in {a, b} /\ e.queueTime <= f.queueTime
<1> DEFINE entries == {p \in playlist : p.media \in {a, b}}
           seconds == {p \in entries :
                         \E q \in entries \ {p} : q.queueTime <= p.queueTime}
<1>1. \A p \in playlist : p.queueTime \in Int
  BY BoundsAssumption DEF DbTypeOK, PlaylistItem, Time
<1>2. CASE seconds = {}
  <2>1. dropped = {}
    BY <1>2 DEF Surplus
  <2>2. \A e, f \in entries : e.queueTime <= f.queueTime
    BY <1>1, <1>2
  <2> QED
    BY <1>1, <2>1, <2>2
<1>3. CASE seconds # {}
  <2>1. PICK s \in seconds : dropped = {s}
    BY <1>3 DEF Surplus
  <2>2. PICK q \in entries \ {s} : q.queueTime <= s.queueTime
    BY <2>1
  <2>3. s \in entries /\ s.media # q.media
    BY <2>1, <2>2 DEF PlaylistUnique
  <2>4. \A e \in entries : e = s \/ e = q
    BY <2>2, <2>3 DEF PlaylistUnique
  <2> QED
    BY <1>1, <2>1, <2>2, <2>3, <2>4
<1> QED
  BY <1>2, <1>3

(* What an update by the downloader does to the line.                      *)
LEMMA UpdateLearns ==
  ASSUME PlayerInv, NEW m \in MediaInfoId, NEW id \in FinalIds(m), MediaUpdated(m, id)
  PROVE  \E status \in {"Ready", "Pending", "Failed"} : Screen!Learn(m.id, id, status)
<1> DEFINE from == m.id
           to == id
           status == IF m.status \in {"Ready", "Failed"} THEN m.status ELSE "Pending"
           both == {e \in WaitingLine : e.media \in {from, to}}
           first == {e \in both : \A f \in both : e.queueTime <= f.queueTime}
           kept == IF status = "Failed" THEN {} ELSE first
           moved == {[e EXCEPT !.media = to] : e \in kept}
<1>1. /\ DbTypeOK /\ PlaylistUnique
      /\ \A p \in playlist : p \in PlaylistItem
  BY DEF PlayerInv, DbInv, DbTypeOK
<1>2. UpdateMediaInfo(m, id) /\ UNCHANGED <<player, history, now>>
  BY DEF MediaUpdated, UpdateMediaInfo, loopVars
<1>3. PICK dropped \in Surplus(from, to) :
        playlist' = WithoutFailed(Repoint(playlist \ dropped, from, to), m, to)
  BY <1>2 DEF UpdateMediaInfo
<1>4. /\ dropped \subseteq {p \in playlist : p.media \in {from, to}}
      /\ \A e \in playlist \ dropped, f \in playlist :
           e.media \in {from, to} /\ f.media \in {from, to} => e.queueTime <= f.queueTime
      /\ \A f \in playlist : f.media \in {from, to} =>
           \E e \in playlist \ dropped :
             e.media \in {from, to} /\ e.queueTime <= f.queueTime
  BY <1>1, <1>3, SurplusKeepsFirst
<1>5. status = "Failed" <=> m.status = "Failed"
  OBVIOUS
<1>6. ReadyMedia' = (ReadyMedia \ {from, to}) \cup (IF status = "Ready" THEN {to} ELSE {})
  <2>1. media' = {r \in media : r.id \notin {from, to}} \cup {[m EXCEPT !.id = to]}
    BY <1>2 DEF UpdateMediaInfo
  <2>2. [m EXCEPT !.id = to].id = to /\ [m EXCEPT !.id = to].status = m.status
    BY DEF MediaInfoId
  <2> QED
    BY <2>1, <2>2 DEF ReadyMedia
<1>7. OnScreen' = OnScreen /\ ShownRows' = ShownRows /\ CutRows' = CutRows
  BY <1>2 DEF OnScreen, ShownRows, CutRows
<1>8. WaitingLine = {Place(p) : p \in playlist} /\ WaitingLine' = {Place(p) : p \in playlist'}
  BY DEF WaitingLine, Place
<1>9. /\ \A p : Place(p).media = p.media /\ Place(p).queueTime = p.queueTime
      /\ \A p : [Place(p) EXCEPT !.media = to] = [media |-> to, queueTime |-> p.queueTime]
  BY DEF Place
<1>10. ASSUME NEW x \in WaitingLine' PROVE x \in (WaitingLine \ both) \cup moved
  <2>1. PICK q \in playlist' : x = Place(q)
    BY <1>8
  <2>2. m.status = "Failed" => q.media # to
    BY <1>3 DEF WithoutFailed
  <2>3. PICK p \in playlist \ dropped :
          q = IF p.media = from THEN [p EXCEPT !.media = to] ELSE p
    BY <1>3 DEF WithoutFailed, Repoint
  <2>4. CASE p.media \notin {from, to}
    BY <1>8, <1>9, <2>1, <2>3, <2>4
  <2>5. CASE p.media \in {from, to}
    <3>1. q.media = to /\ q.queueTime = p.queueTime
      BY <1>1, <2>3, <2>5 DEF PlaylistItem
    <3>2. status # "Failed"
      BY <1>5, <2>2, <3>1
    <3>3. Place(p) \in both
      BY <1>8, <1>9, <2>5
    <3>4. \A f \in both : Place(p).queueTime <= f.queueTime
      BY <1>4, <1>8, <1>9, <2>5
    <3>5. Place(p) \in kept
      BY <3>2, <3>3, <3>4
    <3>6. x = [Place(p) EXCEPT !.media = to]
      BY <1>9, <2>1, <3>1 DEF Place
    <3> QED
      BY <3>5, <3>6
  <2> QED
    BY <2>4, <2>5
<1>11. ASSUME NEW x \in WaitingLine \ both PROVE x \in WaitingLine'
  <2>1. PICK p \in playlist : x = Place(p)
    BY <1>8
  <2>2. p.media \notin {from, to}
    BY <1>8, <1>9, <2>1
  <2>3. p \in playlist \ dropped
    BY <1>4, <2>2
  <2>4. p \in playlist'
    BY <1>3, <2>2, <2>3 DEF WithoutFailed, Repoint
  <2> QED
    BY <1>8, <2>1, <2>4
<1>12. ASSUME NEW x \in moved PROVE x \in WaitingLine'
  <2>1. PICK y \in kept : x = [y EXCEPT !.media = to]
    OBVIOUS
  <2>2. m.status # "Failed" /\ y \in first
    BY <1>5
  <2>3. PICK f \in playlist : y = Place(f)
    BY <1>8, <2>2
  <2>4. f.media \in {from, to}
    BY <1>9, <2>2, <2>3
  <2>5. PICK e \in playlist \ dropped :
          e.media \in {from, to} /\ e.queueTime <= f.queueTime
    BY <1>4, <2>4
  <2>6. Place(e) \in both
    BY <1>8, <1>9, <2>5
  <2>7. f.queueTime <= e.queueTime
    BY <1>9, <2>2, <2>3, <2>6
  <2>8. e.queueTime = f.queueTime
    <3>1. e.queueTime \in Int /\ f.queueTime \in Int
      BY <1>1, BoundsAssumption DEF PlaylistItem, Time
    <3> QED
      BY <2>5, <2>7, <3>1
  <2>9. PICK q : q = IF e.media = from THEN [e EXCEPT !.media = to] ELSE e
    OBVIOUS
  <2>10. q.media = to /\ q.queueTime = e.queueTime
    BY <1>1, <2>5, <2>9 DEF PlaylistItem
  <2>11. q \in playlist'
    BY <1>3, <2>2, <2>5, <2>9 DEF WithoutFailed, Repoint
  <2> QED
    BY <1>8, <1>9, <2>1, <2>3, <2>8, <2>10, <2>11 DEF Place
<1>13. WaitingLine' = (WaitingLine \ both) \cup moved
  BY <1>10, <1>11, <1>12
<1>14. status \in {"Ready", "Pending", "Failed"}
  OBVIOUS
<1>15. Screen!Learn(from, to, status)
  BY <1>2, <1>6, <1>7, <1>13, Zenon DEF Screen!Learn
<1> QED
  BY <1>14, <1>15

(* What a request for a known media does to it.                            *)
LEMMA QueueSubmits ==
  ASSUME PlayerInv, NEW id \in MediaId, QueueMedia(id)
  PROVE  Screen!Submit(id) \/ UNCHANGED Screen!vars
<1>1. AddToPlaylist(id) /\ UNCHANGED <<player, history, media, now>>
  BY DEF QueueMedia, AddToPlaylist, loopVars
<1>2. UNCHANGED <<ReadyMedia, OnScreen, ShownRows, CutRows>>
  BY <1>1 DEF ReadyMedia, OnScreen, ShownRows, CutRows
<1>3. CASE OnPlaylist(id)
  <2>1. WaitingLine' = WaitingLine
    BY <1>1, <1>3 DEF AddToPlaylist, WaitingLine
  <2> QED
    BY <1>1, <1>2, <2>1 DEF Screen!vars
<1>4. CASE ~OnPlaylist(id)
  <2>1. PICK i : playlist' = playlist \cup {[id |-> i, media |-> id, queueTime |-> now]}
    BY <1>1, <1>4 DEF AddToPlaylist
  <2>2. WaitingLine' = WaitingLine \cup {[media |-> id, queueTime |-> now]}
    <3> DEFINE new == [id |-> i, media |-> id, queueTime |-> now]
    <3>1. Place(new) = [media |-> id, queueTime |-> now]
      BY DEF Place
    <3>2. WaitingLine = {Place(q) : q \in playlist}
          /\ WaitingLine' = {Place(q) : q \in playlist'}
      BY DEF WaitingLine, Place
    <3> HIDE DEF new
    <3>3. playlist' = playlist \cup {new}
      BY <2>1 DEF new
    <3> QED
      BY <3>1, <3>2, <3>3
  <2>3. \A e \in WaitingLine : e.media # id
    BY <1>4 DEF WaitingLine, OnPlaylist
  <2> QED
    BY <1>1, <1>2, <2>2, <2>3 DEF Screen!Submit
<1> QED
  BY <1>3, <1>4

-----------------------------------------------------------------------------
(* The screen and the history.                                             *)

(* A row that the loop has is something on the screen.                     *)
LEMMA ScreenedIsSomething ==
  ASSUME NEW h \in HistoryItem PROVE Screened(h) # Nothing
<1>1. Screened(h) \in [id : HistoryId, media : MediaId, queueTime : Time]
  BY DEF Screened, HistoryItem
<1> QED
  BY <1>1, NothingAssumption

(* What is popped begins: it is Ready, no Ready entry is earlier, and its  *)
(* row is new.                                                             *)
LEMMA PopBegins ==
  ASSUME PlayerInv, PopNext
  PROVE  [Screen!Next]_Screen!vars
<1>1. PICK item \in NextItems : PopNextPlaylistItem(item) /\ player' = Loop("publish", item)
  BY DEF PopNext
<1>2. /\ \/ item = NoItem
         \/ item \in HistoryItem /\ item # NoItem /\ item.finishReason = "NULL"
      /\ DbInv
  BY NextItemsTyped DEF PlayerInv
<1>3. player.item = NoItem /\ player'.item = item /\ UNCHANGED <<media, now>>
  BY <1>1, <1>2, LoopValues DEF PopNext, PlayerInv, LoopInv, PopNextPlaylistItem
<1>4. ReadyMedia' = ReadyMedia
  BY <1>3 DEF ReadyMedia
<1>5. CASE item = NoItem
  <2>1. UNCHANGED <<playlist, history>>
    BY <1>1, <1>5 DEF PopNextPlaylistItem
  <2> QED
    BY <1>3, <1>4, <1>5, <2>1
    DEF Screen!vars, WaitingLine, OnScreen, ShownRows, CutRows
<1>6. CASE item # NoItem
  <2>1. PICK p \in ReadyItems :
          /\ p.media = item.media /\ p.queueTime = item.queueTime
          /\ playlist' = {q \in playlist : q.id # p.id}
          /\ history' = history \cup {item}
    BY <1>1, <1>6 DEF PopNextPlaylistItem
  <2>2. /\ item.id \in HistoryId /\ \A h \in history : h.id < item.id /\ h.id \in Int
        /\ \A r \in ReadyItems : item.queueTime <= r.queueTime
    <3>1. PICK i \in HistoryId, q \in ReadyItems :
            /\ IsNewRowId(i, history)
            /\ \A r \in ReadyItems : q.queueTime <= r.queueTime
            /\ item = [id |-> i, media |-> q.media, queueTime |-> q.queueTime,
                       finishReason |-> "NULL", skipCount |-> 0, skipsNeeded |-> 0]
      BY <1>6 DEF NextItems
    <3> QED
      BY <1>2, <3>1, BoundsAssumption
      DEF IsNewRowId, DbInv, DbTypeOK, HistoryItem, HistoryId
  <2>3. p \in playlist /\ p.media \in ReadyMedia
    BY DEF ReadyItems, ReadyMedia
  <2>4. WaitingLine' = WaitingLine \ {Place(p)}
    <3>1. \A q \in playlist : q.id = p.id \/ q.media = p.media => q = p
      BY <1>2, <2>3
      DEF DbInv, TableConstraints, PrimaryKeys, KeysUnique, PlaylistUnique
    <3>2. \A q : Place(q).media = q.media
      BY DEF Place
    <3>3. WaitingLine = {Place(q) : q \in playlist}
          /\ WaitingLine' = {Place(q) : q \in playlist'}
      BY DEF WaitingLine, Place
    <3> QED
      BY <2>1, <2>3, <3>1, <3>2, <3>3
  <2>5. \A f \in WaitingLine : f.media \in ReadyMedia => Place(p).queueTime <= f.queueTime
    <3>1. ASSUME NEW q \in playlist, q.media \in ReadyMedia
          PROVE  q \in ReadyItems
      BY <3>1 DEF ReadyItems, ReadyMedia
    <3> QED
      BY <2>1, <2>2, <3>1 DEF WaitingLine, Place
  <2>6. ShownRows' = ShownRows
    BY <1>2, <1>6, <2>1 DEF ShownRows
  <2>7. CutRows' = CutRows
    <3>1. CutRows = {Screened(h) : h \in {g \in history : g.finishReason = "NULL"}}
      BY <1>3 DEF CutRows
    <3>2. CutRows' = {Screened(h) : h \in {g \in history' : /\ g.finishReason = "NULL"
                                                            /\ g.id # item.id}}
      BY <1>3, <1>6 DEF CutRows
    <3>3. {g \in history' : g.finishReason = "NULL" /\ g.id # item.id}
            = {g \in history : g.finishReason = "NULL"}
      BY <2>1, <2>2
    <3> QED
      BY <3>1, <3>2, <3>3
  <2>8. item.id \notin Screen!Used
    <3>1. \A s \in ShownRows \cup CutRows : \E h \in history : s.id = h.id
      BY DEF ShownRows, CutRows, Screened
    <3> QED
      BY <2>2, <3>1 DEF Screen!Used
  <2>9. OnScreen = Nothing
        /\ OnScreen' = [id |-> item.id, media |-> p.media, queueTime |-> p.queueTime]
    BY <1>3, <1>6, <2>1 DEF OnScreen, Screened
  <2>10. Place(p) \in WaitingLine /\ Place(p).media = p.media
         /\ Place(p).queueTime = p.queueTime
    BY <2>3 DEF WaitingLine, Place
  <2>11. Screen!Begin(Place(p), item.id)
    BY <1>3, <1>4, <2>3, <2>4, <2>5, <2>6, <2>7, <2>8, <2>9, <2>10 DEF Screen!Begin
  <2> QED
    BY <2>2, <2>10, <2>11 DEF Screen!Next
<1> QED
  BY <1>5, <1>6

(* What is recorded ends, in its own row and for the reason that is noted. *)
LEMMA RecordEnds ==
  ASSUME PlayerInv, ItemInv, RecordFinished
  PROVE  \E how \in Screen!Ending : Screen!End(how)
<1> DEFINE item == player.item
           needed == NeededSkips(clients)
           closed == [item EXCEPT !.finishReason = player.reason,
                                  !.skipCount    = player.skipCount,
                                  !.skipsNeeded  = needed]
<1>1. /\ player.pc = "record" /\ player'.item = NoItem
      /\ PlaylistItemFinished(item.id, player.reason, player.skipCount, needed)
  BY LoopValues DEF RecordFinished
<1>2. /\ item # NoItem /\ player.reason \in {"Completed", "Skipped"}
      /\ item \in history /\ item.finishReason = "NULL" /\ item \in HistoryItem
      /\ DbInv
  BY <1>1 DEF PlayerInv, LoopInv, ItemInv, DbInv, DbTypeOK
<1>3. UNCHANGED <<media, playlist, now>>
  BY <1>1 DEF PlaylistItemFinished
<1>4. \A h \in history : h.id = item.id => h = item
  BY <1>2 DEF DbInv, TableConstraints, PrimaryKeys, KeysUnique
<1>5. history' = (history \ {item}) \cup {closed}
  BY <1>1, <1>2, <1>4 DEF PlaylistItemFinished
<1>6. /\ closed.finishReason = player.reason /\ closed.id = item.id
      /\ closed.media = item.media /\ closed.queueTime = item.queueTime
  BY <1>2 DEF HistoryItem
<1> HIDE DEF closed
<1>7. ShownRows' = ShownRows \cup {[id |-> item.id, media |-> item.media,
                                    queueTime |-> item.queueTime, how |-> player.reason]}
  <2>1. {g \in history' : g.finishReason # "NULL"}
          = {g \in history : g.finishReason # "NULL"} \cup {closed}
    BY <1>2, <1>5, <1>6
  <2> QED
    BY <1>6, <2>1 DEF ShownRows
<1>8. CutRows' = CutRows
  <2>1. {g \in history' : /\ g.finishReason = "NULL"
                          /\ player'.item = NoItem \/ g.id # player'.item.id}
          = {g \in history : g.finishReason = "NULL" /\ (item = NoItem \/ g.id # item.id)}
    BY <1>1, <1>2, <1>4, <1>5, <1>6
  <2> QED
    BY <2>1 DEF CutRows
<1>9. OnScreen = Screened(item) /\ OnScreen # Nothing /\ OnScreen' = Nothing
  BY <1>1, <1>2, ScreenedIsSomething DEF OnScreen
<1>10. WaitingLine' = WaitingLine /\ ReadyMedia' = ReadyMedia
  BY <1>3 DEF WaitingLine, ReadyMedia
<1>11. Screen!End(player.reason)
  BY <1>3, <1>7, <1>9, <1>8, <1>10 DEF Screen!End, Screened
<1> QED
  BY <1>2, <1>11 DEF Screen!Ending

(* A crash cuts off what is on the screen, and nothing else.               *)
LEMMA CrashCutsOff ==
  ASSUME PlayerInv, ItemInv, Crash
  PROVE  Screen!CutOff \/ UNCHANGED Screen!vars
<1>1. player'.item = NoItem /\ UNCHANGED dbVars
  BY LoopValues DEF Crash
<1>2. /\ UNCHANGED <<now, history>>
      /\ WaitingLine' = WaitingLine /\ ReadyMedia' = ReadyMedia /\ ShownRows' = ShownRows
  BY <1>1 DEF dbVars, WaitingLine, ReadyMedia, ShownRows
<1>3. CASE player.item = NoItem
  <2>1. OnScreen' = OnScreen /\ CutRows' = CutRows
    BY <1>1, <1>2, <1>3 DEF OnScreen, CutRows
  <2> QED
    BY <1>2, <2>1 DEF Screen!vars
<1>4. CASE player.item # NoItem
  <2> DEFINE item == player.item
  <2>1. item \in history /\ item.finishReason = "NULL" /\ item \in HistoryItem
        /\ \A h \in history : h.id = item.id => h = item
    BY <1>4
    DEF ItemInv, PlayerInv, DbInv, DbTypeOK, TableConstraints, PrimaryKeys, KeysUnique
  <2>2. OnScreen = Screened(item) /\ OnScreen # Nothing /\ OnScreen' = Nothing
    BY <1>1, <1>4, <2>1, ScreenedIsSomething DEF OnScreen
  <2>3. CutRows = {Screened(h) : h \in {g \in history : /\ g.finishReason = "NULL"
                                                        /\ g.id # item.id}}
    BY <1>4 DEF CutRows
  <2>4. CutRows' = {Screened(h) : h \in {g \in history : g.finishReason = "NULL"}}
    BY <1>1, <1>2 DEF CutRows
  <2>5. {g \in history : g.finishReason = "NULL"}
          = {g \in history : g.finishReason = "NULL" /\ g.id # item.id} \cup {item}
    BY <2>1
  <2>6. CutRows' = CutRows \cup {OnScreen}
    BY <2>2, <2>3, <2>4, <2>5
  <2> QED
    BY <1>2, <2>2, <2>6 DEF Screen!CutOff
<1> QED
  BY <1>3, <1>4

(* Time passes.                                                            *)
LEMMA TimePasses == ASSUME PassTime PROVE Screen!Pass
<1>1. UNCHANGED <<player, tables>> /\ now' = now + 1
  BY DEF PassTime, Tick, loopVars
<1> QED
  BY <1>1
  DEF tables, Screen!Pass, WaitingLine, ReadyMedia, OnScreen, ShownRows, CutRows

(* The tables and the loop's item are all that Screening sees.             *)
LEMMA UnseenSteps ==
  ASSUME UNCHANGED dbVars, player'.item = player.item
  PROVE  UNCHANGED Screen!vars
BY DEF dbVars, Screen!vars, WaitingLine, ReadyMedia, OnScreen, ShownRows, CutRows

(* The steps that leave them alone.                                        *)
LEMMA UnseenAreUnseen ==
  ASSUME PlayerInv,
         \/ CheckShutdown \/ Publish \/ StartMedia \/ AfterWait \/ StopPublishing
         \/ SpuriousWakeup \/ EndReached \/ VideoFinishCallback
         \/ \E c \in Client : \/ \E id \in MediaId : SkipVideo(c, id)
                              \/ VoteStep(c) \/ Visit(c) \/ TimeOut(c)
         \/ NotifyMediaUpdate \/ Signal \/ SignalNotify \/ Ended \/ UNCHANGED vars
  PROVE  UNCHANGED Screen!vars
<1>1. player \in PlayerState
  BY TypesByParts DEF PlayerInv, TypeParts, LoopTypeOK
<1>2. UNCHANGED dbVars
  BY DEF CheckShutdown, Publish, StartMedia, AfterWait, StopPublishing, SpuriousWakeup,
     EndReached, VideoFinishCallback, SkipVideo, VoteStep, CastVote, SkipCurrent, Visit,
     TimeOut, NotifyMediaUpdate, Signal, SignalNotify, Ended, vars
<1>3. player'.item = player.item
  <2>1. CASE CheckShutdown
    BY <2>1, LoopValues DEF CheckShutdown, PlayerInv, LoopInv
  <2>2. CASE AfterWait
    BY <1>1, <2>2, LoopValues DEF AfterWait, PlayerState
  <2>3. CASE Publish \/ StartMedia \/ StopPublishing
    BY <1>1, <2>3 DEF Publish, StartMedia, StopPublishing, PlayerState
  <2>4. ASSUME WakeLoop \/ UNCHANGED player PROVE player'.item = player.item
    BY <1>1, <2>4, WakeLoopOnly
  <2>5. ASSUME NEW c \in Client,
               (\E id \in MediaId : SkipVideo(c, id)) \/ VoteStep(c) \/ Visit(c) \/ TimeOut(c)
        PROVE  player'.item = player.item
    BY <2>4, <2>5 DEF VoteStep, SkipVideo, CastVote, SkipCurrent, Visit, TimeOut, loopVars
  <2>6. ASSUME \/ SpuriousWakeup \/ EndReached \/ VideoFinishCallback
               \/ NotifyMediaUpdate \/ Signal \/ SignalNotify \/ Ended \/ UNCHANGED vars
        PROVE  player'.item = player.item
    BY <2>4, <2>6
    DEF SpuriousWakeup, EndReached, VideoFinishCallback, NotifyMediaUpdate, Signal,
        SignalNotify, Ended, vars, loopVars
  <2> QED
    BY <2>1, <2>2, <2>3, <2>5, <2>6
<1> QED
  BY <1>2, <1>3, UnseenSteps

-----------------------------------------------------------------------------
(* Every step of Player is a step of Screening or none.                    *)
LEMMA StepRefines ==
  PlayerInv /\ ItemInv /\ [Next]_vars => [Screen!Next]_Screen!vars
<1> SUFFICES ASSUME PlayerInv, ItemInv, [Next]_vars PROVE [Screen!Next]_Screen!vars
  OBVIOUS
<1>1. CASE PopNext
  BY <1>1, PopBegins
<1>2. CASE RecordFinished
  BY <1>2, RecordEnds DEF Screen!Next
<1>3. ASSUME NEW id \in MediaId, QueueMedia(id) PROVE [Screen!Next]_Screen!vars
  BY <1>3, QueueSubmits DEF Screen!Next
<1>4. ASSUME NEW m \in MediaInfoId, NEW id \in FinalIds(m), MediaUpdated(m, id)
      PROVE  [Screen!Next]_Screen!vars
  <2>1. PICK status \in {"Ready", "Pending", "Failed"} : Screen!Learn(m.id, id, status)
    BY <1>4, UpdateLearns
  <2>2. m.id \in MediaId /\ id \in MediaId
    BY DEF FinalIds, UrlOwners, MediaInfoId, PlayerInv, DbInv, DbTypeOK
  <2> QED
    BY <2>1, <2>2 DEF Screen!Next
<1>5. CASE Crash
  BY <1>5, CrashCutsOff DEF Screen!Next
<1>6. CASE PassTime
  BY <1>6, TimePasses DEF Screen!Next
<1>7. CASE \/ CheckShutdown \/ Publish \/ StartMedia \/ AfterWait \/ StopPublishing
           \/ SpuriousWakeup \/ EndReached \/ VideoFinishCallback
           \/ \E c \in Client : \/ \E id \in MediaId : SkipVideo(c, id)
                                \/ VoteStep(c) \/ Visit(c) \/ TimeOut(c)
           \/ NotifyMediaUpdate \/ Signal \/ SignalNotify \/ Ended \/ UNCHANGED vars
  BY <1>7, UnseenAreUnseen
<1> QED
  BY <1>1, <1>2, <1>3, <1>4, <1>5, <1>6, <1>7 DEF Next, LoopStep

(* The refinement: with callbacks, votes, merges, failures, signals and    *)
(* crashes in any order, every submission is shown at most once, nothing   *)
(* that can be shown is overtaken, and the history tells what was on the   *)
(* screen (Utuputki.cpp:129-170, Database.cpp).                            *)
THEOREM PlayerImplementsScreening == Spec => ShownInOrder
<1>1. Init => ItemInv /\ Screen!Init
  <2> SUFFICES ASSUME Init PROVE ItemInv /\ Screen!Init
    OBVIOUS
  <2>1. player.item = NoItem
    BY LoopValues DEF Init
  <2>2. playlist = {} /\ history = {} /\ now = 0 /\ media \subseteq MediaInfoId
    BY DEF Init, Library
  <2>3. ReadyMedia \subseteq MediaId
    BY <2>2 DEF ReadyMedia, MediaInfoId
  <2> QED
    BY <2>1, <2>2, <2>3
    DEF ItemInv, Screen!Init, WaitingLine, OnScreen, ShownRows, CutRows
<1> QED
  BY <1>1, PlayerInvariant, ItemInvStep, StepRefines, PTL
  DEF Spec, ShownInOrder, Screen!Spec
=============================================================================
