----------------------------- MODULE PtsWaiter -----------------------------
(***************************************************************************)
(* The counter that orders updates (data/data_pts_waiter.cpp).             *)
(*                                                                         *)
(* The server numbers the events of an account: an update carries the      *)
(* number of its last event (pts) and how many events it stands for        *)
(* (count).  A PtsWaiter keeps the highest pts it has seen (last) and the  *)
(* position it would be at had it seen every event once (count).  When the *)
(* two meet nothing is missing; while they differ updates are put aside    *)
(* (skipped) and a timer of the owner (Api::Updates) is running.           *)
(*                                                                         *)
(* A waiter is a value here, and its methods map it to its next value.     *)
(* `applied' is what was handed to the owner's applyUpdate(s)NoPtsCheck,   *)
(* an update being named by its pts; `timer' is the owner's part of        *)
(* ptsWaiterStartTimerFor: _getDifferenceTimeByPts is not zero.            *)
(***************************************************************************)
EXTENDS Naturals

Waiters(Pts) ==
    [good : Pts,                 \* _good: every event up to here is applied
     last : Pts,                 \* _last
     count : Pts,                \* _count: nothing is counted twice
     skipped : SUBSET Pts,       \* _queue, _updateQueue, _updatesQueue
     requesting : BOOLEAN,       \* _requesting: the difference is requested
     waiting : BOOLEAN,          \* _waitingForSkipped
     timer : BOOLEAN,
     applied : SUBSET Pts]

NewWaiter == [good |-> 0, last |-> 0, count |-> 0, skipped |-> {}, requesting |-> FALSE,
              waiting |-> FALSE, timer |-> FALSE, applied |-> {}]

Inited(w) == w.good > 0

\* init(pts), which leaves _waitingForSkipped as it is
InitAt(w, pts) == [w EXCEPT !.good = pts, !.last = pts, !.count = pts, !.skipped = {}]

SetRequesting(w, isRequesting) ==
    [w EXCEPT !.requesting = isRequesting,
              !.skipped = IF isRequesting THEN {} ELSE @]

ApplyAll(w, updates) == [w EXCEPT !.applied = @ \cup updates]

\* setWaitingForSkipped(channel, -1)
StopWaiting(w) == [w EXCEPT !.waiting = FALSE, !.timer = FALSE]

\* applySkippedUpdates
ApplySkipped(w) ==
    IF w.waiting THEN ApplyAll([StopWaiting(w) EXCEPT !.skipped = {}], w.skipped) ELSE w

\* Mutant: a gap is forgotten as soon as it is noticed.
CheckedForgetting(w, pts, count) ==
    LET last == IF pts > w.last THEN pts ELSE w.last
    IN  IF ~Inited(w) THEN InitAt(w, pts)
        ELSE IF last = w.count + count
             THEN [w EXCEPT !.last = last, !.count = last, !.good = last]
             ELSE [w EXCEPT !.last = last, !.count = last,
                            !.waiting = TRUE, !.timer = TRUE]

\* check(channel, pts, count): the waiter after it ...
Checked(w, pts, count) ==
    LET last == IF pts > w.last THEN pts ELSE w.last
    IN  IF ~Inited(w) THEN InitAt(w, pts)
        ELSE IF last = w.count + count
             THEN [w EXCEPT !.last = last, !.count = last, !.good = last]
             ELSE [w EXCEPT !.last = last, !.count = @ + count,
                            !.waiting = TRUE, !.timer = TRUE]
\* ... and what it returns.
CheckPasses(w, pts, count) ==
    ~Inited(w) \/ Checked(w, pts, count).last = Checked(w, pts, count).count \/ count = 0

\* Mutant: an update of the past is counted again.
NothingKnown(w, pts, count) == FALSE

\* updated(channel, pts, count, ...): an update it already knows of
Known(w, pts, count) == ~w.requesting /\ pts <= w.good /\ count > 0
\* ... one it lets through
Passes(w, pts, count) ==
    w.requesting \/ (~Known(w, pts, count) /\ CheckPasses(w, pts, count))
\* ... and the waiter after it, the update not put aside yet.
Updated(w, pts, count) ==
    IF w.requesting \/ Known(w, pts, count) THEN w ELSE Checked(w, pts, count)

\* updateAndApply(channel, pts, count, update): the update is dropped, put
\* aside, applied at once, or applied with those put aside before.
UpdateAndApply(w, pts, count) ==
    LET u == Updated(w, pts, count)
    IN  CASE Known(w, pts, count) -> w
          [] ~Known(w, pts, count) /\ ~Passes(w, pts, count)
               -> [u EXCEPT !.skipped = @ \cup {pts}]
          [] Passes(w, pts, count) /\ (~u.waiting \/ u.skipped = {})
               -> ApplyAll(u, {pts})
          [] OTHER -> ApplySkipped([u EXCEPT !.skipped = @ \cup {pts}])

\* Mutant: a gap that an answer shows does not start the timer.
AffectedWithoutTimer(w, pts, count) ==
    LET u == Updated(w, pts, count)
    IN  IF Passes(w, pts, count) THEN ApplySkipped(u) ELSE [u EXCEPT !.timer = w.timer]

\* Mutant: an answer that leaves a gap is taken for one that does not.
AffectedUnchecked(w, pts, count) == ApplySkipped(Updated(w, pts, count))

\* updateAndApply(channel, pts, count), for the answer to a request of ours
\* whose effect has been applied when it was made
UpdateAffected(w, pts, count) ==
    LET u == Updated(w, pts, count)
    IN  IF Passes(w, pts, count) THEN ApplySkipped(u) ELSE u
=============================================================================
