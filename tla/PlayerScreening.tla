--------------------------- MODULE PlayerScreening --------------------------
(***************************************************************************)
(* Player, with the tables of Database, implements Screening: the line is  *)
(* the playlist, the closed rows of the history are what was shown, and    *)
(* an open row is on the screen or was cut off.                            *)
(***************************************************************************)
EXTENDS Player

CONSTANT Nothing  \* an empty screen

ASSUME NothingAssumption ==
  Nothing \notin [id : HistoryId, media : MediaId, queueTime : Time]

Screened(h) == [id |-> h.id, media |-> h.media, queueTime |-> h.queueTime]

WaitingLine == {[media |-> p.media, queueTime |-> p.queueTime] : p \in playlist}
ReadyMedia == {r.id : r \in {s \in media : s.status = "Ready"}}
OnScreen == IF player.item = NoItem THEN Nothing ELSE Screened(player.item)

ShownRows ==
  {[id |-> h.id, media |-> h.media, queueTime |-> h.queueTime, how |-> h.finishReason] :
     h \in {g \in history : g.finishReason # "NULL"}}

CutRows ==
  {Screened(h) : h \in {g \in history : /\ g.finishReason = "NULL"
                                        /\ player.item = NoItem \/ g.id # player.item.id}}

Screen == INSTANCE Screening WITH
  Media <- MediaId,
  ScreeningId <- HistoryId,
  waiting <- WaitingLine,
  ready <- ReadyMedia,
  showing <- OnScreen,
  shown <- ShownRows,
  cut <- CutRows,
  clock <- now

(* Utuputki.cpp:129-170: with callbacks, votes, updates, signals and       *)
(* crashes in any order, every submission is shown at most once, the       *)
(* earliest first, and what is in the history is what was on the screen.   *)
ShownInOrder == Screen!Spec
=============================================================================
