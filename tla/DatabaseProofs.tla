--------------------------- MODULE DatabaseProofs ---------------------------
(***************************************************************************)
(* Proofs about Database: the tables keep their constraints whatever the   *)
(* callers of the methods do.  One lemma per method says that the method   *)
(* preserves DbInv, so that modules that call the methods can cite it.     *)
(***************************************************************************)
EXTENDS Database, TLAPS

(* The inductive invariant: the type, the constraints of the schema and    *)
(* the one the schema does not state.                                      *)
DbInv == DbTypeOK /\ TableConstraints /\ PlaylistUnique

USE DEF MediaId, PlaylistId, HistoryId, Time, SkipCount

-----------------------------------------------------------------------------
(* A new row takes an id that no row of its table has.                     *)
LEMMA NewRowKeepsKeys ==
  ASSUME NEW table, NEW row, KeysUnique(table), IsNewRowId(row.id, table),
         \A r \in table : r.id \in Int
  PROVE  KeysUnique(table \cup {row})
BY DEF KeysUnique, IsNewRowId

(* A subset of a table keeps unique keys.                                  *)
LEMMA SubsetKeepsKeys ==
  ASSUME NEW table, NEW sub \in SUBSET table, KeysUnique(table)
  PROVE  KeysUnique(sub)
BY DEF KeysUnique

(* Init.                                                                   *)
LEMMA InitEstablishesInv == DbInit => DbInv
BY BoundsAssumption DEF DbInit, DbInv, DbTypeOK, TableConstraints, PrimaryKeys,
   KeysUnique, UrlUnique, ForeignKeys, PlaylistUnique

(* getOrAddMediaByURL looks the URL up before it inserts.                  *)
LEMMA GetOrAddKeepsInv ==
  ASSUME DbInv, NEW url \in Url, NEW row, GetOrAddMediaByURL(url, row)
  PROVE  DbInv'
<1> USE DEF DbInv, GetOrAddMediaByURL
<1>1. CASE \E r \in media : r.url = url
  <2>1. row \in media
    BY <1>1 DEF RowFor
  <2>2. media' = media
    BY <2>1
  <2> QED
    BY <2>2 DEF DbTypeOK, TableConstraints, PrimaryKeys, KeysUnique, UrlUnique,
       ForeignKeys, Known, PlaylistUnique
<1>2. CASE ~ \E r \in media : r.url = url
  <2>1. PICK i \in MediaId : IsNewRowId(i, media)
                          /\ row = [id |-> i, url |-> url, status |-> "Initial"]
    BY <1>2 DEF RowFor
  <2>2. row \in MediaInfoId
    BY <2>1 DEF MediaInfoId, MediaStatus
  <2>3. DbTypeOK'
    BY <2>2 DEF DbTypeOK
  <2>4. \A r \in media : r.id \in Int
    BY DEF DbTypeOK, MediaInfoId
  <2>5. PrimaryKeys'
    BY <2>1, <2>4, NewRowKeepsKeys
       DEF TableConstraints, PrimaryKeys, KeysUnique
  <2>6. UrlUnique'
    BY <1>2, <2>1 DEF TableConstraints, UrlUnique
  <2>7. ForeignKeys'
    BY DEF TableConstraints, ForeignKeys, Known
  <2>8. PlaylistUnique'
    BY DEF PlaylistUnique
  <2> QED
    BY <2>3, <2>5, <2>6, <2>7, <2>8 DEF TableConstraints
<1> QED
  BY <1>1, <1>2

(* addToPlaylist inserts only a media that is not queued.                  *)
LEMMA AddToPlaylistKeepsInv ==
  ASSUME DbInv, NEW id \in MediaId, AddToPlaylist(id)
  PROVE  DbInv'
<1> USE DEF DbInv, AddToPlaylist
<1>1. CASE OnPlaylist(id)
  BY <1>1 DEF DbTypeOK, TableConstraints, PrimaryKeys, KeysUnique, UrlUnique,
     ForeignKeys, Known, PlaylistUnique
<1>2. CASE ~OnPlaylist(id)
  <2>1. PICK i \in PlaylistId :
          /\ IsNewRowId(i, playlist)
          /\ playlist' = playlist \cup
                           {[id |-> i, media |-> id, queueTime |-> now]}
    BY <1>2
  <2> DEFINE new == [id |-> i, media |-> id, queueTime |-> now]
  <2>2. DbTypeOK'
    BY <2>1 DEF DbTypeOK, PlaylistItem
  <2>3. PrimaryKeys'
    <3>1. \A r \in playlist : r.id \in Int
      BY DEF DbTypeOK, PlaylistItem
    <3>2. new.id = i
      OBVIOUS
    <3>3. KeysUnique(playlist \cup {new})
      <4> HIDE DEF new
      <4> QED BY <2>1, <3>1, <3>2, NewRowKeepsKeys
                 DEF TableConstraints, PrimaryKeys
    <3> QED
      BY <2>1, <3>3 DEF TableConstraints, PrimaryKeys, KeysUnique
  <2>4. UrlUnique' /\ ForeignKeys'
    BY <2>1 DEF TableConstraints, UrlUnique, ForeignKeys, Known
  <2>5. PlaylistUnique'
    BY <1>2, <2>1 DEF PlaylistUnique, OnPlaylist
  <2> QED
    BY <2>2, <2>3, <2>4, <2>5 DEF TableConstraints
<1> QED
  BY <1>1, <1>2

-----------------------------------------------------------------------------
(* updateMediaInfo.  What it does to the playlist, entry by entry: each    *)
(* new entry comes from an old one that was not dropped, repointed when it *)
(* belonged to the merged row.                                             *)
LEMMA UpdatedEntries ==
  ASSUME NEW m, NEW id, NEW dropped,
         playlist' =
           WithoutFailed(Repoint(playlist \ dropped, m.id, id), m, id),
         NEW q \in playlist'
  PROVE  \E p \in playlist \ dropped :
           q = IF p.media = m.id THEN [p EXCEPT !.media = id] ELSE p
BY DEF WithoutFailed, Repoint

(* Of the entries of two media, at most one each, the merge keeps one.     *)
LEMMA SurplusLeavesOne ==
  ASSUME DbTypeOK, PlaylistUnique,
         NEW a, NEW b, a # b, NEW dropped \in Surplus(a, b),
         NEW p \in playlist \ dropped, NEW q \in playlist \ dropped,
         p.media \in {a, b}, q.media \in {a, b}
  PROVE  p = q
<1>1. SUFFICES ASSUME p # q PROVE FALSE
  OBVIOUS
<1> DEFINE entries == {e \in playlist : e.media \in {a, b}}
           seconds == {e \in entries :
                         \E f \in entries \ {e} : f.queueTime <= e.queueTime}
<1>2. p.queueTime \in Int /\ q.queueTime \in Int
  BY BoundsAssumption DEF DbTypeOK, PlaylistItem
<1>3. p.media # q.media
  BY <1>1 DEF PlaylistUnique
<1>4. \A e \in entries : e = p \/ e = q
  BY <1>3 DEF PlaylistUnique
<1>5. \A e \in seconds : e = p \/ e = q
  BY <1>4
<1>6. seconds # {}
  BY <1>1, <1>2
<1>7. dropped \in {{e} : e \in seconds}
  BY <1>6 DEF Surplus
<1>8. PICK e \in seconds : dropped = {e}
  BY <1>7
<1> QED
  BY <1>5, <1>8

(* updateMediaInfo merges rows without breaking a constraint.              *)
LEMMA UpdateKeepsInv ==
  ASSUME DbInv, NEW m \in MediaInfoId, NEW id \in FinalIds(m),
         UpdateMediaInfo(m, id)
  PROVE  DbInv'
<1> USE DEF DbInv
<1> DEFINE row == [m EXCEPT !.id = id]
<1>1. id \in MediaId /\ Known(id)
  BY DEF FinalIds, UrlOwners, DbTypeOK, MediaInfoId, UpdateMediaInfo, Known
<1>2. row \in MediaInfoId /\ row.id = id /\ row.url = m.url
  BY <1>1 DEF MediaInfoId
<1>3. media' = {r \in media : r.id \notin {m.id, id}} \cup {row}
  BY DEF UpdateMediaInfo
<1>4. PICK dropped \in Surplus(m.id, id) :
        playlist' = WithoutFailed(Repoint(playlist \ dropped, m.id, id), m, id)
  BY DEF UpdateMediaInfo
<1>5. history' = history /\ now' = now
  BY DEF UpdateMediaInfo
<1> DEFINE Moved(p) == IF p.media = m.id THEN [p EXCEPT !.media = id] ELSE p
<1>6. \A q \in playlist' : \E p \in playlist \ dropped : q = Moved(p)
  BY <1>4, UpdatedEntries
<1>7. \A p \in playlist : /\ Moved(p) \in PlaylistItem
                          /\ Moved(p).id = p.id
                          /\ Moved(p).media = IF p.media = m.id THEN id ELSE p.media
  BY <1>1 DEF DbTypeOK, PlaylistItem
<1> HIDE DEF row, Moved
<1>8. DbTypeOK'
  BY <1>2, <1>3, <1>5, <1>6, <1>7 DEF DbTypeOK
<1>9. PrimaryKeys'
  <2>1. KeysUnique(media)'
    BY <1>2, <1>3 DEF TableConstraints, PrimaryKeys, KeysUnique
  <2>2. KeysUnique(playlist)'
    BY <1>6, <1>7 DEF TableConstraints, PrimaryKeys, KeysUnique
  <2> QED
    BY <1>5, <2>1, <2>2 DEF TableConstraints, PrimaryKeys, KeysUnique
<1>10. UrlUnique'
  <2>1. \A r \in media : r.url = m.url => r.id \in {m.id, id}
    BY DEF FinalIds, UrlOwners, TableConstraints, UrlUnique
  <2> QED
    BY <1>2, <1>3, <2>1 DEF TableConstraints, UrlUnique
<1>11. ForeignKeys'
  <2>1. \A i : Known(i) /\ i # m.id => Known(i)'
    BY <1>2, <1>3 DEF Known
  <2>2. Known(id)'
    BY <1>2, <1>3 DEF Known
  <2>3. \A p \in playlist' : Known(p.media)'
    BY <1>6, <1>7, <2>1, <2>2 DEF TableConstraints, ForeignKeys
  <2>4. \A h \in history : Known(h.media)'
    BY <2>1, <2>2 DEF TableConstraints, ForeignKeys, UpdateMediaInfo, Played
  <2> QED
    BY <1>5, <2>3, <2>4 DEF ForeignKeys, Known
<1>12. PlaylistUnique'
  <2> SUFFICES ASSUME NEW q1 \in playlist', NEW q2 \in playlist',
                      q1.media = q2.media
               PROVE  q1 = q2
    BY DEF PlaylistUnique
  <2>1. PICK p1 \in playlist \ dropped : q1 = Moved(p1)
    BY <1>6
  <2>2. PICK p2 \in playlist \ dropped : q2 = Moved(p2)
    BY <1>6
  <2>3. CASE id = m.id
    BY <1>7, <2>1, <2>2, <2>3 DEF PlaylistUnique
  <2>4. CASE id # m.id
    <3>1. CASE p1.media \in {m.id, id} /\ p2.media \in {m.id, id}
      BY <1>4, <2>1, <2>2, <2>4, <3>1, SurplusLeavesOne
    <3>2. CASE p1.media \notin {m.id, id} \/ p2.media \notin {m.id, id}
      BY <1>7, <2>1, <2>2, <3>2 DEF PlaylistUnique
    <3> QED
      BY <3>1, <3>2
  <2> QED
    BY <2>3, <2>4
<1> QED
  BY <1>8, <1>9, <1>10, <1>11, <1>12 DEF TableConstraints

-----------------------------------------------------------------------------
(* popNextPlaylistItem moves an entry to a history row of its media.       *)
LEMMA PopKeepsInv ==
  ASSUME DbInv, NEW item \in NextItems, PopNextPlaylistItem(item)
  PROVE  DbInv'
<1> USE DEF DbInv
<1>1. media' = media /\ now' = now
  BY DEF PopNextPlaylistItem
<1>2. playlist' \subseteq playlist
  BY DEF PopNextPlaylistItem
<1>3. item # NoItem =>
        /\ item \in HistoryItem
        /\ IsNewRowId(item.id, history)
        /\ Known(item.media)
  <2> SUFFICES ASSUME item # NoItem PROVE item \in HistoryItem
                                       /\ IsNewRowId(item.id, history)
                                       /\ Known(item.media)
    OBVIOUS
  <2>1. PICK i \in HistoryId, p \in ReadyItems :
          /\ IsNewRowId(i, history)
          /\ item = [id |-> i, media |-> p.media, queueTime |-> p.queueTime,
                     finishReason |-> "NULL", skipCount |-> 0, skipsNeeded |-> 0]
    BY DEF NextItems
  <2>2. p \in PlaylistItem /\ Known(p.media)
    BY DEF ReadyItems, DbTypeOK, TableConstraints, ForeignKeys
  <2> QED
    BY <2>1, <2>2, BoundsAssumption DEF HistoryItem, PlaylistItem, FinishReason
<1>4. history' = IF item = NoItem THEN history ELSE history \cup {item}
  BY DEF PopNextPlaylistItem
<1>5. DbTypeOK'
  BY <1>1, <1>2, <1>3, <1>4 DEF DbTypeOK
<1>6. PrimaryKeys'
  <2>1. \A h \in history : h.id \in Int
    BY DEF DbTypeOK, HistoryItem
  <2>2. KeysUnique(history)'
    BY <1>3, <1>4, <2>1, NewRowKeepsKeys
       DEF TableConstraints, PrimaryKeys, KeysUnique
  <2> QED
    BY <1>1, <1>2, <2>2 DEF TableConstraints, PrimaryKeys, KeysUnique
<1>7. UrlUnique'
  BY <1>1 DEF TableConstraints, UrlUnique
<1>8. ForeignKeys'
  BY <1>1, <1>2, <1>3, <1>4 DEF TableConstraints, ForeignKeys, Known
<1>9. PlaylistUnique'
  BY <1>2 DEF PlaylistUnique
<1> QED
  BY <1>5, <1>6, <1>7, <1>8, <1>9 DEF TableConstraints

(* playlistItemFinished writes three columns of one history row.           *)
LEMMA FinishedKeepsInv ==
  ASSUME DbInv, NEW id, NEW reason \in FinishReason,
         NEW skipCount \in SkipCount, NEW skipsNeeded \in SkipCount,
         PlaylistItemFinished(id, reason, skipCount, skipsNeeded)
  PROVE  DbInv'
<1> USE DEF DbInv
<1> DEFINE Closed(h) == IF h.id = id
                        THEN [h EXCEPT !.finishReason = reason,
                                       !.skipCount    = skipCount,
                                       !.skipsNeeded  = skipsNeeded]
                        ELSE h
<1>1. /\ media' = media /\ playlist' = playlist /\ now' = now
      /\ history' = {Closed(h) : h \in history}
  BY DEF PlaylistItemFinished
<1>2. \A h \in history : /\ Closed(h) \in HistoryItem
                         /\ Closed(h).id = h.id
                         /\ Closed(h).media = h.media
  BY DEF DbTypeOK, HistoryItem
<1> HIDE DEF Closed
<1>3. DbTypeOK'
  BY <1>1, <1>2 DEF DbTypeOK
<1>4. PrimaryKeys'
  BY <1>1, <1>2 DEF TableConstraints, PrimaryKeys, KeysUnique
<1>5. UrlUnique' /\ PlaylistUnique'
  BY <1>1 DEF TableConstraints, UrlUnique, PlaylistUnique
<1>6. ForeignKeys'
  BY <1>1, <1>2 DEF TableConstraints, ForeignKeys, Known
<1> QED
  BY <1>3, <1>4, <1>5, <1>6 DEF TableConstraints

(* Time passes and steps that touch no table.                              *)
LEMMA TickKeepsInv ==
  ASSUME DbInv, tables' = tables, now' \in Time
  PROVE  DbInv'
BY DEF DbInv, tables, DbTypeOK, TableConstraints, PrimaryKeys, KeysUnique,
   UrlUnique, ForeignKeys, Known, PlaylistUnique

-----------------------------------------------------------------------------
(* Every call of a method preserves the invariant.                         *)
LEMMA DbStepKeepsInv == DbInv /\ [DbNext]_dbVars => DbInv'
<1> SUFFICES ASSUME DbInv, [DbNext]_dbVars PROVE DbInv'
  OBVIOUS
<1>1. ASSUME NEW url \in Url, NEW row \in RowFor(url),
             GetOrAddMediaByURL(url, row)
      PROVE  DbInv'
  BY <1>1, GetOrAddKeepsInv
<1>2. ASSUME NEW id \in MediaId, AddToPlaylist(id)
      PROVE  DbInv'
  BY <1>2, AddToPlaylistKeepsInv
<1>3. ASSUME NEW m \in MediaInfoId, NEW id \in FinalIds(m),
             UpdateMediaInfo(m, id)
      PROVE  DbInv'
  BY <1>3, UpdateKeepsInv
<1>4. ASSUME NEW item \in NextItems, PopNextPlaylistItem(item)
      PROVE  DbInv'
  BY <1>4, PopKeepsInv
<1>5. ASSUME NEW h \in history, NEW reason \in FinishReason \ {"NULL"},
             NEW skipCount \in SkipCount, NEW skipsNeeded \in SkipCount,
             PlaylistItemFinished(h.id, reason, skipCount, skipsNeeded)
      PROVE  DbInv'
  BY <1>5, FinishedKeepsInv
<1>6. CASE Tick
  BY <1>6, TickKeepsInv, BoundsAssumption DEF Tick, DbInv, DbTypeOK
<1>7. CASE UNCHANGED dbVars
  BY <1>7, TickKeepsInv DEF dbVars, tables, DbInv, DbTypeOK
<1> QED
  BY <1>1, <1>2, <1>3, <1>4, <1>5, <1>6, <1>7 DEF DbNext

(* The inductive invariant holds.                                          *)
THEOREM DbInvariant == DbSpec => []DbInv
BY InitEstablishesInv, DbStepKeepsInv, PTL DEF DbSpec

(* The tables are always well typed.                                       *)
THEOREM TypeCorrect == DbSpec => []DbTypeOK
<1>1. DbInv => DbTypeOK
  BY DEF DbInv
<1> QED
  BY <1>1, DbInvariant, PTL

(* No sequence of calls breaks a constraint of create_database.sql: the    *)
(* merge in updateMediaInfo needs no luck to pass SQLite's checks.         *)
THEOREM ConstraintsHold == DbSpec => []TableConstraints
<1>1. DbInv => TableConstraints
  BY DEF DbInv
<1> QED
  BY <1>1, DbInvariant, PTL

(* A media is at most once on the playlist, so assert(oldIds.size() == 2)  *)
(* in updateMediaInfo never fails.                                         *)
THEOREM QueuedOnce == DbSpec => []PlaylistUnique
<1>1. DbInv => PlaylistUnique
  BY DEF DbInv
<1> QED
  BY <1>1, DbInvariant, PTL

-----------------------------------------------------------------------------
(* updateMediaInfo takes an entry off the playlist only for a reason.      *)
LEMMA UpdateKeepsPlace ==
  ASSUME DbInv, NEW m \in MediaInfoId, NEW id \in FinalIds(m),
         UpdateMediaInfo(m, id), NEW p \in playlist
  PROVE  KeepsPlace(p)
<1> USE DEF DbInv
<1> DEFINE Moved(q) == IF q.media = m.id THEN [q EXCEPT !.media = id] ELSE q
<1>1. PICK dropped \in Surplus(m.id, id) :
        playlist' = WithoutFailed(Repoint(playlist \ dropped, m.id, id), m, id)
  BY DEF UpdateMediaInfo
<1>2. \A q \in playlist : /\ Moved(q).id = q.id
                          /\ Moved(q).queueTime = q.queueTime
                          /\ Moved(q).media = IF q.media = m.id THEN id ELSE q.media
  BY DEF DbTypeOK, PlaylistItem
<1>3. \A q \in playlist \ dropped :
        Moved(q) \in playlist' \/ (m.status = "Failed" /\ Moved(q).media = id)
  BY <1>1 DEF WithoutFailed, Repoint
<1> HIDE DEF Moved
<1>4. [m EXCEPT !.id = id] \in media'
  BY DEF UpdateMediaInfo
<1>5. id # m.id => ~Known(m.id)'
  BY DEF UpdateMediaInfo, Known, MediaInfoId, DbTypeOK
<1>6. ASSUME m.status = "Failed", p.media \in {m.id, id}
      PROVE  MediaFailed(p)
  BY <1>4, <1>5, <1>6 DEF MediaFailed, MediaInfoId
<1>7. CASE p \notin dropped
  BY <1>2, <1>3, <1>6, <1>7 DEF KeepsPlace
<1>8. CASE p \in dropped
  <2>1. PICK q \in playlist : /\ q # p /\ q.queueTime <= p.queueTime
                              /\ q.media \in {m.id, id} /\ p.media \in {m.id, id}
                              /\ q \notin dropped
    BY <1>8 DEF Surplus
  <2>2. id # m.id
    BY <2>1 DEF PlaylistUnique
  <2>3. {p.media, q.media} = {m.id, id}
    BY <2>1, <2>2 DEF PlaylistUnique
  <2>4. CASE m.status = "Failed"
    BY <1>6, <2>1, <2>4 DEF KeepsPlace
  <2>5. CASE m.status # "Failed"
    <3>1. Moved(q) \in playlist' /\ Moved(q).media = id
      BY <1>2, <1>3, <2>1, <2>5
    <3>2. MergedInto(p, q)
      BY <1>2, <1>5, <2>1, <2>2, <2>3, <3>1 DEF MergedInto
    <3> QED
      BY <3>2 DEF KeepsPlace
  <2> QED
    BY <2>4, <2>5
<1> QED
  BY <1>7, <1>8

(* The only entry popNextPlaylistItem removes becomes the new history row. *)
LEMMA PopKeepsPlace ==
  ASSUME DbInv, NEW item \in NextItems, PopNextPlaylistItem(item),
         NEW p \in playlist
  PROVE  KeepsPlace(p)
<1> USE DEF DbInv
<1>1. CASE p \in playlist'
  BY <1>1 DEF KeepsPlace
<1>2. CASE p \notin playlist'
  <2>1. /\ item # NoItem /\ history' = history \cup {item}
        /\ p.media = item.media /\ p.queueTime = item.queueTime
    BY <1>2 DEF PopNextPlaylistItem, ReadyItems, TableConstraints, PrimaryKeys,
       KeysUnique
  <2>2. item \notin history
    <3>1. IsNewRowId(item.id, history)
      BY <2>1 DEF NextItems
    <3>2. \A h \in history : h.id \in Int
      BY DEF DbTypeOK, HistoryItem
    <3> QED
      BY <3>1, <3>2 DEF IsNewRowId
  <2> QED
    BY <2>1, <2>2 DEF Popped, KeepsPlace
<1> QED
  BY <1>1, <1>2

(* A playlist entry keeps its place until it is popped, fails or merges    *)
(* with an entry queued no later.                                          *)
THEOREM PlacesKept == DbSpec => NoEntryPushedBack
<1>1. ASSUME DbInv, DbNext, NEW p \in playlist
      PROVE  KeepsPlace(p)
  <2>1. CASE p \in playlist'
    BY <2>1 DEF KeepsPlace
  <2>2. CASE p \notin playlist'
    BY <1>1, <2>2, UpdateKeepsPlace, PopKeepsPlace
       DEF DbNext, GetOrAddMediaByURL, AddToPlaylist, PlaylistItemFinished,
           Tick, tables
  <2> QED
    BY <2>1, <2>2
<1>2. DbInv /\ [DbNext]_dbVars => [\A p \in playlist : KeepsPlace(p)]_dbVars
  BY <1>1
<1> QED
  BY <1>2, DbInvariant, PTL DEF DbSpec, NoEntryPushedBack

=============================================================================
