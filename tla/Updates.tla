------------------------------ MODULE Updates ------------------------------
(***************************************************************************)
(* The common sequence of updates of one account (api/api_updates.cpp).    *)
(*                                                                         *)
(* The server pushes updates, singly or in numbered blocks, and answers    *)
(* the account's own requests with updates or with the numbers of the      *)
(* events they caused.  The connection may lose the pushes but not the     *)
(* answers.  Api::Updates finds out what is missing, by pts (PtsWaiter)    *)
(* or by the seq of the blocks, and asks for the difference.  Everything   *)
(* here runs on the main thread: each action of the client is one          *)
(* callback (a message, an answer, a timer) run to its end.                *)
(*                                                                         *)
(* An event is named by its pts; its count is the distance to the event    *)
(* before it.                                                              *)
(***************************************************************************)
EXTENDS PtsWaiter, SequencesExt

CONSTANTS MaxPts,       \* bound: the highest pts of the server
          MaxSeq,       \* bound: the highest seq of the server
          MaxWire,      \* bound: messages on their way to the client
          ZeroCounts    \* TRUE if an answer may have pts_count = 0

ASSUME BoundsAssumption == /\ MaxPts \in Nat \ {0} /\ MaxSeq \in Nat /\ MaxWire \in Nat
ASSUME ZeroAssumption == ZeroCounts \in BOOLEAN

VARIABLES client,       \* Api::Updates
          wire,         \* server to client, in the order it was sent
          log,          \* the server: the events the account has had
          own,          \* those whose effect the client applied when it asked for it
          serverSeq     \* the server: seq of the last numbered block

vars == <<client, wire, log, own, serverSeq>>
serverVars == <<log, own, serverSeq>>

-----------------------------------------------------------------------------
(* Types *)

Pts == 0..MaxPts
Seqs == 0..MaxSeq
SkipLongest == 2        \* bound: the events one update stands for

PtsUpdates == [pts : Pts, count : Pts,
            stranger : BOOLEAN]     \* its peer is not loaded
Blocks == [first : Seqs, seq : Seqs,          \* 0: not numbered
           updates : Seq(PtsUpdates)]
Requests == [kind : {"none", "state", "difference"}, from : Pts]

Clients == [waiter : Waiters(Pts),   \* _ptsWaiter
            seq : Seqs,              \* _updatesSeq
            bySeq : SUBSET Blocks,   \* _bySeqUpdates
            seqTimer : BOOLEAN,      \* _bySeqTimer
            failTimer : BOOLEAN,     \* _getDifferenceTimeAfterFail is not zero
            request : Requests]      \* sent, and not answered by the server yet

Messages == [kind : {"push", "result"}, block : Blocks]
       \cup [kind : {"affected"}, pts : Pts, count : Pts]
       \cup [kind : {"state", "empty", "slice", "final"}, pts : Pts, seq : Seqs,
             updates : SUBSET Pts]
       \cup [kind : {"failed", "newSession", "tooLong"}]

NoRequest == [kind |-> "none", from |-> 0]

-----------------------------------------------------------------------------
(* Asking for the difference *)

\* Mutant: blocks that came too early survive the request.
GetDifferenceKeepingBlocks(c) ==
    IF c.waiter.requesting THEN [c EXCEPT !.waiter.timer = FALSE]
    ELSE [c EXCEPT !.seqTimer = FALSE, !.failTimer = FALSE,
                   !.waiter = [SetRequesting(c.waiter, TRUE) EXCEPT !.timer = FALSE],
                   !.request = [kind |-> "difference", from |-> c.waiter.good]]

\* getDifference
GetDifference(c) ==
    IF c.waiter.requesting THEN [c EXCEPT !.waiter.timer = FALSE]
    ELSE [c EXCEPT !.bySeq = {}, !.seqTimer = FALSE, !.failTimer = FALSE,
                   !.waiter = [SetRequesting(c.waiter, TRUE) EXCEPT !.timer = FALSE],
                   !.request = [kind |-> "difference", from |-> c.waiter.good]]

-----------------------------------------------------------------------------
(* Applying updates *)

\* feedUpdate, for the updates that have a pts: the message of a peer that
\* is not loaded is left to the difference.
FeedUpdate(c, u) ==
    IF u.stranger /\ ~c.waiter.requesting THEN GetDifference(c)
    ELSE [c EXCEPT !.waiter = UpdateAndApply(@, u.pts, u.count)]

FeedUpdateVector(c, updates) ==
    LET fed[i \in 0..Len(updates)] ==
            IF i = 0 THEN c ELSE FeedUpdate(fed[i - 1], updates[i])
    IN  fed[Len(updates)]

\* The block of the queue of setState that comes next, applied if it follows.
TakeBlock(c, first) ==
    LET next == {b \in c.bySeq : b.first = first}
        rest == [c EXCEPT !.bySeq = @ \ next]
    IN  CASE next = {} \/ first > c.seq + 1 -> c
          [] next # {} /\ first <= c.seq -> rest
          [] OTHER -> LET b == CHOOSE b \in next : TRUE
                      IN  [FeedUpdateVector(rest, b.updates) EXCEPT !.seq = b.seq]

\* setState, the part of seq: the blocks that were waiting are applied one
\* after the other, and a timer is set for those that are still too early.
SetSeq(c, seq) ==
    IF seq = 0 \/ seq = c.seq THEN c
    ELSE LET taken[first \in 0..MaxSeq] ==
                 IF first = 0 THEN [c EXCEPT !.seq = seq]
                 ELSE TakeBlock(taken[first - 1], first)
             d == taken[MaxSeq]
         IN  [d EXCEPT !.seqTimer = d.bySeq # {}]

\* setState(pts, ..., seq)
SetState(c, pts, seq) ==
    SetSeq(IF pts = 0 THEN c ELSE [c EXCEPT !.waiter = InitAt(@, pts)], seq)

\* applyUpdates, for updates, updatesCombined, updateShort and the short
\* messages: a numbered block has to follow the last one.
ApplyUpdates(c, b) ==
    CASE b.seq # 0 /\ b.first <= c.seq -> c
      [] b.first > c.seq + 1 -> [c EXCEPT !.bySeq = @ \cup {b}, !.seqTimer = TRUE]
      [] OTHER -> SetState(FeedUpdateVector(c, b.updates), 0, b.seq)

-----------------------------------------------------------------------------
(* Handlers of the main thread *)

SetRequestingOf(c, isRequesting) ==
    [c EXCEPT !.waiter = SetRequesting(@, isRequesting)]

\* stateDone
StateDone(c, m) == SetRequestingOf(SetState(c, m.pts, m.seq), FALSE)

\* feedDifference: processMessages and feedUpdateVector, while requesting
FeedDifference(c, m) == [c EXCEPT !.waiter = ApplyAll(@, m.updates)]

\* Mutant: the rest of the difference is not asked for.
SliceIsEnough(c, m) ==
    CASE m.kind = "empty" -> SetRequestingOf(SetState(c, c.waiter.good, m.seq), FALSE)
      [] OTHER -> StateDone(FeedDifference(c, m), m)

\* differenceDone
DifferenceDone(c, m) ==
    CASE m.kind = "empty" -> SetRequestingOf(SetState(c, c.waiter.good, m.seq), FALSE)
      [] m.kind = "slice" -> GetDifference(StateDone(FeedDifference(c, m), m))
      [] m.kind = "final" -> StateDone(FeedDifference(c, m), m)

\* mtpUpdateReceived
UpdateReceived(c, b) == IF c.waiter.requesting THEN c ELSE ApplyUpdates(c, b)

\* ApiWrap::applyAffectedMessages
ApplyAffected(c, m) == [c EXCEPT !.waiter = UpdateAffected(@, m.pts, m.count)]

\* One message of Session::tryToReceive, or one answer.  The answer to
\* updates.getState comes with the dialogs as they are now (requestDialogs).
Handled(c, m) ==
    CASE m.kind = "push" -> UpdateReceived(c, m.block)
      [] m.kind = "result" -> ApplyUpdates(c, m.block)
      [] m.kind = "affected" -> ApplyAffected(c, m)
      [] m.kind = "state" -> StateDone(FeedDifference(c, m), m)
      [] m.kind \in {"empty", "slice", "final"} -> DifferenceDone(c, m)
      [] m.kind = "failed" -> [c EXCEPT !.failTimer = TRUE]
      [] m.kind = "newSession" -> GetDifference([c EXCEPT !.seq = 0])
      [] m.kind = "tooLong" -> IF c.waiter.requesting THEN c ELSE GetDifference(c)

\* Answers come in the order they were sent; a push may be late, for another
\* push or for an answer that was sent after it.
Deliver ==
    \E i \in DOMAIN wire :
        /\ \A j \in 1..(i - 1) : wire[j].kind = "push"
        /\ client' = Handled(client, wire[i])
        /\ wire' = RemoveAt(wire, i)
        /\ UNCHANGED serverVars

\* _byPtsTimer, getDifferenceByPts
GapTimerFires ==
    /\ client.waiter.timer
    /\ client' = GetDifference(client)
    /\ UNCHANGED <<wire, serverVars>>

\* _bySeqTimer, getDifference
SeqTimerFires ==
    /\ client.seqTimer
    /\ client' = GetDifference([client EXCEPT !.seqTimer = FALSE])
    /\ UNCHANGED <<wire, serverVars>>

\* Mutant: the flag of the failed request is not reset.
FailTimerKeepsRequesting ==
    /\ client.failTimer
    /\ client' = GetDifference([client EXCEPT !.failTimer = FALSE])
    /\ UNCHANGED <<wire, serverVars>>

\* _failDifferenceTimer, getDifferenceAfterFail
FailTimerFires ==
    /\ client.failTimer
    /\ client' = GetDifference(SetRequestingOf(client, FALSE))
    /\ UNCHANGED <<wire, serverVars>>

-----------------------------------------------------------------------------
(* The server *)

Position == IF log = {} THEN 0 ELSE Max(log)

\* Bound: messages on their way.
Sent(m) == Len(wire) < MaxWire /\ wire' = Append(wire, m)

\* Something happens: one update, or two in a block.
News == {<<[pts |-> Position + n, count |-> n, stranger |-> x]>> :
            n \in 1..SkipLongest, x \in BOOLEAN}
   \cup {<<[pts |-> Position + 1, count |-> 1, stranger |-> x],
           [pts |-> Position + 2, count |-> 1, stranger |-> FALSE]>> : x \in BOOLEAN}

Happen(updates) ==
    /\ \A i \in DOMAIN updates : updates[i].pts <= MaxPts
    /\ log' = log \cup {updates[i].pts : i \in DOMAIN updates}

\* The blocks updates may come in: not numbered, or one or two numbers on.
BlocksOf(updates) ==
    {[first |-> 0, seq |-> 0, updates |-> updates]}
    \cup {[first |-> serverSeq + 1, seq |-> serverSeq + n, updates |-> updates] : n \in 1..2}

Push ==
    \E updates \in News : \E b \in BlocksOf(updates) :
        /\ b.seq <= MaxSeq
        /\ Happen(updates)
        /\ Sent([kind |-> "push", block |-> b])
        /\ serverSeq' = IF b.seq = 0 THEN serverSeq ELSE b.seq
        /\ UNCHANGED <<client, own>>

\* An update that never arrives.
PushLost ==
    /\ \E updates \in News : Happen(updates)
    /\ serverSeq' \in {serverSeq} \cup {n \in Seqs : n = serverSeq + 1}
    /\ UNCHANGED <<client, own, wire>>

\* A request of the account takes effect, its answer is not numbered.  It
\* can carry the users and chats it is about.
AnswerResult ==
    /\ \E updates \in News :
         /\ ~updates[1].stranger
         /\ Happen(updates)
         /\ Sent([kind |-> "result",
                  block |-> [first |-> 0, seq |-> 0, updates |-> updates]])
    /\ UNCHANGED <<client, own, serverSeq>>

AnswerAffected ==
    /\ \E n \in (IF ZeroCounts THEN 0 ELSE 1)..SkipLongest :
         /\ Position + n <= MaxPts
         /\ log' = log \cup {Position + n}
         /\ own' = IF n = 0 THEN own ELSE own \cup {Position + n}
         /\ Sent([kind |-> "affected", pts |-> Position + n, count |-> n])
    /\ UNCHANGED <<client, serverSeq>>

Answered == client' = [client EXCEPT !.request = NoRequest]

Difference(kind, upto, from) ==
    [kind |-> kind, pts |-> upto, seq |-> serverSeq,
     updates |-> {e \in log : from < e /\ e <= upto}]

\* updates.getState
AnswerState ==
    /\ client.request.kind = "state"
    /\ Sent(Difference("state", Position, 0))
    /\ Answered
    /\ UNCHANGED serverVars

\* updates.getDifference: nothing new, a part of what is new, or all of it
AnswerDifference ==
    LET from == client.request.from
    IN  /\ client.request.kind = "difference"
        /\ \/ from = Position /\ Sent(Difference("empty", from, from))
           \/ \E upto \in log : /\ from < upto /\ upto < Position
                                /\ Sent(Difference("slice", upto, from))
           \/ from < Position /\ Sent(Difference("final", Position, from))
        /\ Answered
        /\ UNCHANGED serverVars

TooLong == /\ Sent([kind |-> "tooLong"])
           /\ UNCHANGED <<client, serverVars>>

\* An error other than those the Instance retries by itself.
FailRequest ==
    /\ client.request.kind = "difference"
    /\ Sent([kind |-> "failed"])
    /\ Answered
    /\ UNCHANGED serverVars

\* The answers of other requests that are on their way, in the same order.
Late(messages) ==
    LET late[i \in 0..Len(messages)] ==
            IF i = 0 THEN <<>>
            ELSE IF messages[i].kind \in {"result", "affected"}
                 THEN Append(late[i - 1], messages[i]) ELSE late[i - 1]
    IN  late[Len(messages)]

\* The session is created anew: pushes of the old one are lost, and requests
\* whose answers are lost with it are sent again.  The server does not run
\* again what it has done, so the answers of other requests are only late.
NewSession ==
    LET late == Late(wire)
        w == client.waiter
    IN  /\ Len(late) < MaxWire
        /\ wire' = <<[kind |-> "newSession"]>> \o late
        /\ client' = IF ~w.requesting \/ client.failTimer THEN client
                     ELSE [client EXCEPT !.request =
                             [kind |-> IF Inited(w) THEN "difference" ELSE "state",
                              from |-> w.good]]
        /\ UNCHANGED serverVars

-----------------------------------------------------------------------------
(* Specification *)

\* Updates::Updates, for an account that has at least one event.
Init ==
    /\ log = {1}
    /\ own = {}
    /\ wire = <<>>
    /\ serverSeq = 0
    /\ client = [waiter |-> SetRequesting(NewWaiter, TRUE), seq |-> 0, bySeq |-> {},
                 seqTimer |-> FALSE, failTimer |-> FALSE,
                 request |-> [kind |-> "state", from |-> 0]]

\* What may happen again and again without anything new to tell.
Failure == FailRequest \/ NewSession \/ TooLong

Next ==
    \/ Deliver \/ GapTimerFires \/ SeqTimerFires \/ FailTimerFires
    \/ Push \/ PushLost \/ AnswerResult \/ AnswerAffected
    \/ AnswerState \/ AnswerDifference
    \/ Failure

Spec == Init /\ [][Next]_vars

Fairness ==
    /\ WF_vars(Deliver) /\ WF_vars(GapTimerFires) /\ WF_vars(SeqTimerFires)
    /\ WF_vars(FailTimerFires) /\ WF_vars(AnswerState) /\ WF_vars(AnswerDifference)

FairSpec == Spec /\ Fairness

-----------------------------------------------------------------------------
(* Properties *)

TypeOK ==
    /\ client \in Clients
    /\ wire \in Seq(Messages)
    /\ log \subseteq Pts
    /\ own \subseteq log
    /\ serverSeq \in Seqs

Seen == {e \in log : e <= client.waiter.good}

\* Outside of a request nothing is applied ahead of the position, so that what
\* comes next is not applied a second time by the difference.
NothingAhead ==
    ~client.waiter.requesting =>
        \A e \in client.waiter.applied : e <= client.waiter.good

\* "1s wait for skipped seq or pts in updates.": as long as something is known
\* to be missing the timer that asks for it is running.
GapWatched ==
    LET w == client.waiter
    IN  ~w.requesting /\ w.last # w.count => w.timer

\* The same for blocks that came too early, and they do not outlive a request.
BySeqWatched == client.bySeq # {} => client.seqTimer /\ ~client.waiter.requesting

\* While the client ignores pushes there is a request the server has to answer,
\* an answer on its way, or a timer that asks again: exactly one of them.
RequestIsAlive ==
    LET answers == {i \in DOMAIN wire :
                      wire[i].kind \in {"state", "empty", "slice", "final", "failed"}}
        sources == Cardinality(answers) + (IF client.request = NoRequest THEN 0 ELSE 1)
                   + (IF client.failTimer THEN 1 ELSE 0)
    IN  sources = IF client.waiter.requesting THEN 1 ELSE 0

\* Every event the client is told of, by a push that is not overtaken by a new
\* session, is applied in the end, with everything before it, if requests stop
\* failing.
OnItsWay(e) ==
    \E i \in DOMAIN wire : /\ wire[i].kind \in {"push", "result"}
                           /\ \E u \in Range(wire[i].block.updates) : u.pts = e
EventuallyApplied ==
    <>[][~Failure]_vars =>
        \A e \in 1..MaxPts : OnItsWay(e) ~> e \in Seen

\* What is promised to the rest of the program.
Feed == INSTANCE UpdateFeed WITH Events <- 1..MaxPts, published <- log,
            delivered <- client.waiter.applied \cup own, position <- client.waiter.good
FeedPromise == Feed!FeedSpec

-----------------------------------------------------------------------------
(* What the properties rest on *)

\* The log has the event the account starts with, and no other before it.
LogStarts == 1 \in log /\ 0 \notin log

\* A number that ends the events up to it: all of one update are counted with it.
Whole(e, n) ==
    /\ e \in log /\ n \in 1..e
    /\ e - n \in log \cup {0}
    /\ \A k \in (e - n + 1)..(e - 1) : k \notin log

EventsOf(updates) == {updates[i].pts : i \in DOMAIN updates}

RightUpdates(updates) ==
    /\ \A i \in DOMAIN updates : Whole(updates[i].pts, updates[i].count)
    /\ \A i, j \in DOMAIN updates : updates[i].pts = updates[j].pts => i = j

\* The events a message has the client count.
Told(m) ==
    CASE m.kind \in {"push", "result"} -> EventsOf(m.block.updates)
      [] m.kind = "affected" -> IF m.count = 0 THEN {} ELSE {m.pts}
      [] OTHER -> {}
ToldBy(messages) == UNION {Told(messages[i]) : i \in DOMAIN messages}

\* No event is told of twice, but by the difference.
ToldOnce(messages) ==
    \A i, j \in DOMAIN messages : i # j => Told(messages[i]) \cap Told(messages[j]) = {}

Ends == {"state", "empty", "final"}         \* the answers that end the request
Gives == Ends \cup {"slice"}
Answers == Gives \cup {"failed"}

\* What each message says is so; an answer starts from where the client still is.
RightMessage(m, good) ==
    /\ m.kind \in {"push", "result"} => RightUpdates(m.block.updates)
    /\ m.kind = "result" => m.block.first = 0 /\ m.block.seq = 0
    /\ m.kind = "affected" =>
          IF m.count = 0 THEN ZeroCounts /\ m.pts \in log
          ELSE Whole(m.pts, m.count) /\ m.pts \in own
    /\ m.kind \in Gives =>
          /\ m.pts \in log /\ good <= m.pts
          /\ m.updates = {e \in log : good < e /\ e <= m.pts}
    /\ m.kind = "empty" => m.pts = good
    /\ m.kind \in Answers => (m.kind = "state" <=> good = 0)

\* The numbers that were counted: as many as `count' says, none twice, and whatever events
\* they stand for are applied or put aside.  What is still to be told is not among them.
Counts(w, K, told) ==
    /\ Cardinality(K) = w.count
    /\ 1..w.good \subseteq K
    /\ \A e \in log, k \in K : k <= e /\ (\A j \in k..(e - 1) : j \notin log) => e \in K
    /\ \A e \in log \cap K : e \in w.applied \cup w.skipped \cup own
    /\ \A e \in told : e > w.good => e \notin K
Counted(w, told) == \E K \in SUBSET (1..w.last) : Counts(w, K, told)

\* A waiter that has its position: a timer runs until the gap is closed, and an update is
\* put aside no longer.  Both are lost if an answer may count nothing.
Follows(w, told) ==
    /\ w.good # 0 /\ w.last \in log /\ w.good <= w.last
    /\ \A e \in w.skipped : e \in log /\ e <= w.last
    /\ w.skipped # {} => w.waiting
    /\ Counted(w, told)
    /\ ~ZeroCounts => /\ w.last # w.count => w.timer
                      /\ \A e \in w.applied : e <= w.good

WaiterSound(w, told) ==
    /\ w.good = 0 \/ w.good \in log
    /\ w.applied \subseteq log
    /\ \A e \in log : e <= w.good => e \in w.applied \cup own
    /\ IF w.requesting THEN w.skipped = {} ELSE Follows(w, told)

\* The blocks put aside tell of other events than each other, and than the messages under
\* way do.
PutAside(blocks) == UNION {EventsOf(b.updates) : b \in blocks}
BlocksApart(blocks, told) ==
    \A b \in blocks :
        /\ RightUpdates(b.updates)
        /\ EventsOf(b.updates) \cap told = {}
        /\ EventsOf(b.updates) \cap PutAside(blocks \ {b}) = {}

\* The request the client knows of.
RequestRight(c) ==
    LET w == c.waiter
    IN  /\ c.request.kind = "none" => c.request = NoRequest
        /\ c.request.kind # "none" => w.requesting /\ ~c.failTimer /\ c.request.from = w.good
        /\ c.request.kind = "state" => w.good = 0
        /\ c.request.kind = "difference" => w.good # 0
        /\ c.failTimer => w.requesting /\ w.good # 0

\* The client, with the events the messages under way tell of.
Sound(c, told) ==
    /\ c \in Clients
    /\ WaiterSound(c.waiter, told \cup PutAside(c.bySeq))
    /\ BlocksApart(c.bySeq, told)
    /\ c.bySeq # {} => c.seqTimer /\ ~c.waiter.requesting
    /\ RequestRight(c)

\* There is one request, one answer or one timer while the client ignores pushes.
OneSource ==
    LET answers == {i \in DOMAIN wire : wire[i].kind \in Answers}
        asked == client.request.kind # "none"
    IN  /\ \A i, j \in answers : i = j
        /\ answers # {} => client.waiter.requesting /\ ~asked /\ ~client.failTimer
        /\ client.waiter.requesting => answers # {} \/ asked \/ client.failTimer

\* The answer that ends the request gives what was applied before its time: no answer
\* overtakes another.
AnswerCovers ==
    \A j \in DOMAIN wire : wire[j].kind \in Ends =>
        /\ \A e \in client.waiter.applied : e <= wire[j].pts
        /\ \A i \in 1..(j - 1) : wire[i].kind = "result" =>
              \A e \in Told(wire[i]) : e <= wire[j].pts

UpdatesInvariant ==
    /\ TypeOK /\ LogStarts
    /\ \A i \in DOMAIN wire : RightMessage(wire[i], client.waiter.good)
    /\ ToldOnce(wire)
    /\ Sound(client, ToldBy(wire))
    /\ OneSource /\ AnswerCovers
=============================================================================
