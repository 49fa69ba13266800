------------------------------ MODULE Database ------------------------------
(***************************************************************************)
(* The SQLite database of utuputki: utuputki/Database.cpp on the tables of *)
(* create_database.sql.  A table is a set of rows (records); every method  *)
(* of DatabaseImpl runs as one transaction under dbMutex, so every method  *)
(* is one action, parameterised by its arguments and by what it returns.   *)
(*                                                                         *)
(* A media row keeps the columns the control depends on: id, url, status.  *)
(* The other columns (title, length, metadata, ...) are payload.  Threads  *)
(* hold copies of media rows (MediaInfoId) that may be stale by the time   *)
(* they are written back, so the methods are specified for any argument.   *)
(***************************************************************************)
EXTENDS Integers, FiniteSets

CONSTANTS
  Url,            \* URLs, already normalised to https
  MaxMediaId,     \* bounds of the INTEGER PRIMARY KEY columns
  MaxPlaylistId,
  MaxHistoryId,
  MaxTime,        \* bound of CURRENT_TIMESTAMP, which counts whole seconds
  MaxSkips,       \* bound of the skip counters stored in history
  NoItem          \* the empty tl::optional<HistoryItemMedia>

MediaId    == 1 .. MaxMediaId
PlaylistId == 1 .. MaxPlaylistId
HistoryId  == 1 .. MaxHistoryId
Time       == 0 .. MaxTime
SkipCount  == 0 .. MaxSkips

MediaStatus  == {"Initial", "Downloading", "Ready", "Failed"}
FinishReason == {"NULL", "Completed", "Skipped"}

MediaInfoId  == [id : MediaId, url : Url, status : MediaStatus]
PlaylistItem == [id : PlaylistId, media : MediaId, queueTime : Time]
HistoryItem  == [id : HistoryId, media : MediaId, queueTime : Time,
                 finishReason : FinishReason,
                 skipCount : SkipCount, skipsNeeded : SkipCount]

ASSUME BoundsAssumption ==
  /\ MaxMediaId \in Nat \ {0}
  /\ MaxPlaylistId \in Nat \ {0}
  /\ MaxHistoryId \in Nat \ {0}
  /\ MaxTime \in Nat
  /\ MaxSkips \in Nat

ASSUME NoItemAssumption == NoItem \notin HistoryItem

VARIABLES media, playlist, history,
          now             \* the wall clock, read by CURRENT_TIMESTAMP

tables == <<media, playlist, history>>
dbVars == <<media, playlist, history, now>>

DbInit ==
  /\ media = {} /\ playlist = {} /\ history = {}
  /\ now = 0

-----------------------------------------------------------------------------
Known(id)      == \E r \in media : r.id = id
OnPlaylist(id) == \E p \in playlist : p.media = id
Played(id)     == \E h \in history : h.media = id

(* SQLite gives a new row of an INTEGER PRIMARY KEY table the largest id   *)
(* in use plus one: the id of a deleted last row is given out again.       *)
IsNewRowId(id, table) ==
  /\ \A r \in table : r.id < id
  /\ id = 1 \/ \E r \in table : r.id = id - 1

(* What getOrAddMediaByURL(url) can return: the row of url, or a new row.  *)
RowFor(url) ==
  IF \E r \in media : r.url = url
  THEN {r \in media : r.url = url}
  ELSE {[id |-> i, url |-> url, status |-> "Initial"] :
          i \in {j \in MediaId : IsNewRowId(j, media)}}

GetOrAddMediaByURL(url, row) ==
  /\ row \in RowFor(url)
  /\ media' = media \cup {row}
  /\ UNCHANGED <<playlist, history, now>>

(* Enabled when the foreign key of the new row holds; otherwise SQLite     *)
(* refuses the insert, the transaction is rolled back and addToPlaylist    *)
(* throws (~Known(id), seen by the callers).                               *)
AddToPlaylist(id) ==
  /\ Known(id)
  /\ IF OnPlaylist(id)
     THEN UNCHANGED playlist
     ELSE \E i \in PlaylistId :
            /\ IsNewRowId(i, playlist)
            /\ playlist' = playlist \cup
                             {[id |-> i, media |-> id, queueTime |-> now]}
  /\ UNCHANGED <<media, history, now>>

-----------------------------------------------------------------------------
(* updateMediaInfo(m).  If m brings a URL that another row already has,    *)
(* the two rows are one video: m's row is merged into the other one, whose *)
(* id the caller's copy gets.                                              *)

UrlOwners(m) == {r \in media : r.url = m.url /\ r.id # m.id}

(* The id m has when updateMediaInfo returns. *)
FinalIds(m) ==
  IF UrlOwners(m) = {} THEN {m.id} ELSE {r.id : r \in UrlOwners(m)}

(* Mutants of Surplus: the duplicate is forgotten; the first one goes.     *)
Surplus_KeepsBoth(a, b) == {{}}

Surplus_DropsFirst(a, b) ==
  LET entries == {p \in playlist : p.media \in {a, b}}
      firsts  == {p \in entries :
                    \E q \in entries \ {p} : p.queueTime <= q.queueTime}
  IN  IF firsts = {} THEN {{}} ELSE {{p} : p \in firsts}

(* ORDER BY queueTime over the entries of both ids, then drop the second:  *)
(* entries queued in the same second come in either order.                 *)
Surplus(a, b) ==
  LET entries == {p \in playlist : p.media \in {a, b}}
      seconds == {p \in entries :
                    \E q \in entries \ {p} : q.queueTime <= p.queueTime}
  IN  IF seconds = {} THEN {{}} ELSE {{p} : p \in seconds}

(* Mutant: the playlist keeps the id of the row that is merged away.       *)
Repoint_Forgotten(rows, from, to) == rows

Repoint(rows, from, to) ==
  {IF p.media = from THEN [p EXCEPT !.media = to] ELSE p : p \in rows}

(* A Failed media leaves the playlist. *)
WithoutFailed(rows, m, id) ==
  IF m.status = "Failed" THEN {p \in rows : p.media # id} ELSE rows

UpdateMediaInfo(m, id) ==
  /\ Known(m.id)
  /\ id \in FinalIds(m)
  /\ id # m.id => ~Played(m.id)
  /\ \E dropped \in Surplus(m.id, id) :
       playlist' = WithoutFailed(Repoint(playlist \ dropped, m.id, id), m, id)
  /\ media' = {r \in media : r.id \notin {m.id, id}} \cup {[m EXCEPT !.id = id]}
  /\ UNCHANGED <<history, now>>

(* The history still refers to the row the merge deletes: SQLite refuses   *)
(* the delete, the transaction is rolled back, updateMediaInfo throws.     *)
UpdateMediaInfoThrows(m) ==
  /\ Known(m.id)
  /\ UrlOwners(m) # {} /\ Played(m.id)

(* assert(!oldResult.empty()) fails and the process aborts. *)
UpdateMediaInfoAborts(m) == ~Known(m.id)

-----------------------------------------------------------------------------
ReadyItems ==
  {p \in playlist : \E r \in media : r.id = p.media /\ r.status = "Ready"}

(* Mutant: ORDER BY queueTime DESC.                                        *)
NextItems_Latest ==
  IF ReadyItems = {} THEN {NoItem}
  ELSE {[id |-> i, media |-> p.media, queueTime |-> p.queueTime,
         finishReason |-> "NULL", skipCount |-> 0, skipsNeeded |-> 0] :
          i \in {j \in HistoryId : IsNewRowId(j, history)},
          p \in {q \in ReadyItems :
                   \A r \in ReadyItems : r.queueTime <= q.queueTime}}

(* What popNextPlaylistItem() can return: a Ready item queued first, as a  *)
(* new history row, or nothing.                                            *)
NextItems ==
  IF ReadyItems = {} THEN {NoItem}
  ELSE {[id |-> i, media |-> p.media, queueTime |-> p.queueTime,
         finishReason |-> "NULL", skipCount |-> 0, skipsNeeded |-> 0] :
          i \in {j \in HistoryId : IsNewRowId(j, history)},
          p \in {q \in ReadyItems :
                   \A r \in ReadyItems : q.queueTime <= r.queueTime}}

PopNextPlaylistItem(item) ==
  /\ item \in NextItems
  /\ IF item = NoItem
     THEN UNCHANGED <<playlist, history>>
     ELSE \E p \in ReadyItems :
            /\ p.media = item.media /\ p.queueTime = item.queueTime
            /\ playlist' = {q \in playlist : q.id # p.id}
            /\ history' = history \cup {item}
  /\ UNCHANGED <<media, now>>

(* Mutants: the vote that ended the video is counted again; the row is     *)
(* looked up by its media.                                                 *)
PlaylistItemFinished_OffByOne(id, reason, skipCount, skipsNeeded) ==
  /\ history' = {IF h.id = id
                 THEN [h EXCEPT !.finishReason = reason,
                                !.skipCount    = skipCount + 1,
                                !.skipsNeeded  = skipsNeeded]
                 ELSE h : h \in history}
  /\ UNCHANGED <<media, playlist, now>>

PlaylistItemFinished_ByMedia(id, reason, skipCount, skipsNeeded) ==
  /\ history' = {IF \E r \in history : r.id = id /\ r.media = h.media
                 THEN [h EXCEPT !.finishReason = reason,
                                !.skipCount    = skipCount,
                                !.skipsNeeded  = skipsNeeded]
                 ELSE h : h \in history}
  /\ UNCHANGED <<media, playlist, now>>

(* The row of the item is completed: it was inserted open.                 *)
PlaylistItemFinished(id, reason, skipCount, skipsNeeded) ==
  /\ history' = {IF h.id = id
                 THEN [h EXCEPT !.finishReason = reason,
                                !.skipCount    = skipCount,
                                !.skipsNeeded  = skipsNeeded]
                 ELSE h : h \in history}
  /\ UNCHANGED <<media, playlist, now>>

(* Time passes, up to the bound. *)
Tick ==
  /\ now < MaxTime
  /\ now' = now + 1
  /\ UNCHANGED tables

-----------------------------------------------------------------------------
(* The database with any callers: whatever the threads of the program do,  *)
(* they only take these steps.                                             *)
DbNext ==
  \/ \E url \in Url : \E row \in RowFor(url) : GetOrAddMediaByURL(url, row)
  \/ \E id \in MediaId : AddToPlaylist(id)
  \/ \E m \in MediaInfoId : \E id \in FinalIds(m) : UpdateMediaInfo(m, id)
  \/ \E item \in NextItems : PopNextPlaylistItem(item)
  \/ \E h \in history, reason \in FinishReason \ {"NULL"},
        skipCount, skipsNeeded \in SkipCount :
       PlaylistItemFinished(h.id, reason, skipCount, skipsNeeded)
  \/ Tick

DbSpec == DbInit /\ [][DbNext]_dbVars

-----------------------------------------------------------------------------
DbTypeOK ==
  /\ media \subseteq MediaInfoId
  /\ playlist \subseteq PlaylistItem
  /\ history \subseteq HistoryItem
  /\ now \in Time

KeysUnique(table) == \A r, s \in table : r.id = s.id => r = s

PrimaryKeys == KeysUnique(media) /\ KeysUnique(playlist) /\ KeysUnique(history)

UrlUnique == \A r, s \in media : r.url = s.url => r = s

ForeignKeys ==
  /\ \A p \in playlist : Known(p.media)
  /\ \A h \in history : Known(h.media)

(* Every transaction leaves the tables in a state that satisfies the       *)
(* PRIMARY KEY, UNIQUE and FOREIGN KEY clauses of create_database.sql:     *)
(* whichever rows updateMediaInfo merges, it repoints the playlist before  *)
(* it deletes, and never leaves two rows with one URL.                     *)
TableConstraints == PrimaryKeys /\ UrlUnique /\ ForeignKeys

(* A media is at most once on the playlist.  No constraint of the schema   *)
(* says so: addToPlaylist looks before it inserts and updateMediaInfo      *)
(* drops the surplus entry of a merge.  Its assert(oldIds.size() == 2)     *)
(* relies on it.                                                           *)
PlaylistUnique == \A p, q \in playlist : p.media = q.media => p = q

(* What may take entry p off the playlist in a step: popNextPlaylistItem   *)
(* moves it to the history, its media Failed, or its media and that of an  *)
(* entry queued no later turn out to be one, and the earlier entry stays.  *)
Popped(p) ==
  \E h \in history' \ history : h.media = p.media /\ h.queueTime = p.queueTime

MediaFailed(p) ==
  \E r \in media' : r.status = "Failed" /\ (r.id = p.media \/ ~Known(p.media)')

MergedInto(p, q) ==
  /\ q # p /\ q.queueTime <= p.queueTime
  /\ \E r \in playlist' : /\ r.id = q.id /\ r.queueTime = q.queueTime
                          /\ r.media \in {p.media, q.media}
  /\ \E id \in {p.media, q.media} : ~Known(id)'

KeepsPlace(p) ==
  \/ \E q \in playlist' : q.id = p.id /\ q.queueTime = p.queueTime
  \/ Popped(p)
  \/ MediaFailed(p)
  \/ \E q \in playlist : MergedInto(p, q)

(* No entry silently leaves the playlist or loses its place in it,         *)
(* whichever way updateMediaInfo merges two rows that are both queued.     *)
NoEntryPushedBack == [][\A p \in playlist : KeepsPlace(p)]_dbVars

=============================================================================
