----------------------------- MODULE Screening ------------------------------
(***************************************************************************)
(* What utuputki promises to those who submit videos: a media is at most   *)
(* once in the line; it is shown after everything that came earlier and    *)
(* can be shown; what is on the screen has left the line, is shown alone,  *)
(* ends for one reason, and is not shown again for the same submission,    *)
(* whatever happens to the process.                                        *)
(***************************************************************************)
EXTENDS Integers

CONSTANTS
  Media,
  ScreeningId,
  Nothing      \* on the screen

VARIABLES
  waiting,     \* the line: [media, queueTime]
  ready,       \* the media that can be shown
  showing,     \* [id, media, queueTime], or Nothing
  shown,       \* [id, media, queueTime, how]
  cut,         \* screenings that were cut off when the process died
  clock        \* the time at which a submission is noted

vars == <<waiting, ready, showing, shown, cut, clock>>

Ending == {"Completed", "Skipped"}

Init ==
  /\ waiting = {} /\ ready \subseteq Media
  /\ showing = Nothing /\ shown = {} /\ cut = {}
  /\ clock = 0

Submit(m) ==
  /\ \A e \in waiting : e.media # m
  /\ waiting' = waiting \cup {[media |-> m, queueTime |-> clock]}
  /\ UNCHANGED <<ready, showing, shown, cut, clock>>

(* Something is learned about a media: it can be shown now, or not any     *)
(* more, or never (Failed), or it is the same as another one.  Two places  *)
(* in the line become one, the earlier.                                    *)
Learn(from, to, status) ==
  LET both  == {e \in waiting : e.media \in {from, to}}
      first == {e \in both : \A f \in both : e.queueTime <= f.queueTime}
  IN  /\ waiting' = (waiting \ both) \cup
                      {[e EXCEPT !.media = to] :
                         e \in IF status = "Failed" THEN {} ELSE first}
      /\ ready' = (ready \ {from, to}) \cup
                    (IF status = "Ready" THEN {to} ELSE {})
      /\ UNCHANGED <<showing, shown, cut, clock>>

Used == {s.id : s \in shown} \cup {s.id : s \in cut}

Begin(e, id) ==
  /\ showing = Nothing /\ id \notin Used
  /\ e.media \in ready
  /\ \A f \in waiting : f.media \in ready => e.queueTime <= f.queueTime
  /\ waiting' = waiting \ {e}
  /\ showing' = [id |-> id, media |-> e.media, queueTime |-> e.queueTime]
  /\ UNCHANGED <<ready, shown, cut, clock>>

End(how) ==
  /\ showing # Nothing
  /\ shown' = shown \cup {[id |-> showing.id, media |-> showing.media,
                           queueTime |-> showing.queueTime, how |-> how]}
  /\ showing' = Nothing
  /\ UNCHANGED <<waiting, ready, cut, clock>>

CutOff ==
  /\ showing # Nothing
  /\ cut' = cut \cup {showing}
  /\ showing' = Nothing
  /\ UNCHANGED <<waiting, ready, shown, clock>>

Pass ==
  /\ clock' = clock + 1
  /\ UNCHANGED <<waiting, ready, showing, shown, cut>>

Next ==
  \/ \E m \in Media : Submit(m)
  \/ \E from, to \in Media, status \in {"Ready", "Pending", "Failed"} :
       Learn(from, to, status)
  \/ \E e \in waiting, id \in ScreeningId : Begin(e, id)
  \/ \E how \in Ending : End(how)
  \/ CutOff \/ Pass

Spec == Init /\ [][Next]_vars
=============================================================================
