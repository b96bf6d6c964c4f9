----------------------------- MODULE Histories -----------------------------
(***************************************************************************)
(* Histories (data/data_histories.cpp): the requests of a chat that must   *)
(* not overtake each other, the read position and how the server is told   *)
(* of it, and the entry of the chat in the list of chats.                  *)
(*                                                                         *)
(* All of it is done on the main thread.  The server handles the requests  *)
(* and the answers arrive in any order; that each is answered is what      *)
(* InstanceRequests and MtpSession are about.  No message comes or goes.   *)
(***************************************************************************)
EXTENDS Integers, FiniteSets, FiniteSetsExt, Functions

CONSTANTS NumHistories, \* how many chats
          LastMessage,  \* the messages of each of them
          Outgoing,     \* ... of which the account's own ones, for each chat
          MaxRequests,  \* bound: the requests of the histories at a time
          MaxBatches,   \* bound: the requests for entries at a time
          MaxEvents     \* bound: what users, other devices and refusing servers do

Chats == 1..NumHistories
Messages == 1..LastMessage
Requests == 1..MaxRequests
Batches == 1..MaxBatches

ASSUME HistoriesAssumption ==
    /\ NumHistories \in Nat \ {0} /\ LastMessage \in Nat \ {0}
    /\ Outgoing \in [Chats -> SUBSET Messages]
    /\ MaxRequests \in Nat /\ MaxBatches \in Nat /\ MaxEvents \in Nat

VARIABLES
    type, home, till,     \* the requests: what they are, whose, up to where they read
    net,                  \* ... where they are: asked, handled by the server
    sent, postponed,      \* state.sent, state.postponed of all the histories
    willTill, sentTill,   \* state.willReadTill, state.sentReadTill, 0 for none
    delayed,              \* state.willReadWhen is in the future
    sentDone,             \* state.sentReadDone
    entryPostponed,       \* state.postponedRequestEntry
    timer,                \* _readRequestsTimer is active
    entries,              \* the keys of _dialogRequests
    pending,              \* the keys of _dialogRequestsPending
    posted,               \* sendDialogRequests() is posted
    batches,              \* the requests for entries: whose, and once handled the positions
    position,             \* _inboxReadBefore of a history, less 1
    count,                \* _unreadCount
    serverTill,           \* up to where the server knows the history as read
    sendReads,            \* ghost.sendReadMessages()
    alwaysSent,           \* history: it was never FALSE
    events                \* how many events are left

queue == <<type, home, till, net, sent, postponed, entryPostponed, entries, pending, posted>>
reads == <<willTill, sentTill, delayed, sentDone, timer>>
local == <<position, count>>
ghost == <<sendReads, alwaysSent>>
rest == <<batches, serverTill, ghost>>
vars == <<queue, reads, local, rest, events>>

Types == {"History", "Send", "Delete", "DeleteChannel", "ReadInbox", "OwnRead"}
Unknown == -1
NoBatch == [of |-> {}, read |-> <<>>]

Event == events > 0 /\ events' = events - 1

\* The messages for which there is something to read, and what is left of them after t.
Incoming(h) == Messages \ Outgoing[h]
Unread(h, t) == {m \in Incoming(h) : m > t}

Init ==
    /\ type = [r \in Requests |-> "none"]
    /\ home = [r \in Requests |-> 1] /\ till = [r \in Requests |-> 0]
    /\ net = [r \in Requests |-> "none"]
    /\ sent = {} /\ postponed = {}
    /\ willTill = [h \in Chats |-> 0] /\ sentTill = [h \in Chats |-> 0]
    /\ delayed = {} /\ sentDone = {} /\ entryPostponed = {}
    /\ timer = FALSE
    /\ entries = {} /\ pending = {} /\ posted = FALSE
    /\ batches = [b \in Batches |-> NoBatch]
    /\ position = [h \in Chats |-> 0]
    /\ \E known \in SUBSET Chats :
          count = [h \in Chats |-> IF h \in known THEN Cardinality(Unread(h, 0)) ELSE Unknown]
    /\ serverTill = [h \in Chats |-> 0]
    /\ sendReads = TRUE /\ alwaysSent = TRUE
    /\ events = MaxEvents

-----------------------------------------------------------------------------
(* The requests.  What is done to them is composed of functions from queue  *)
(* to queue, Now being the current one.                                    *)

Now == [type |-> type, home |-> home, till |-> till, net |-> net,
        sent |-> sent, postponed |-> postponed, entryPostponed |-> entryPostponed,
        entries |-> entries, pending |-> pending, posted |-> posted]

\* A request is forgotten with its last trace.
Becomes(q) ==
    /\ LET live == {r \in Requests : r \in q.sent \cup q.postponed \/ q.net[r] # "none"}
       IN /\ type' = [r \in Requests |-> IF r \in live THEN q.type[r] ELSE "none"]
          /\ home' = [r \in Requests |-> IF r \in live THEN q.home[r] ELSE 1]
          /\ till' = [r \in Requests |-> IF r \in live THEN q.till[r] ELSE 0]
    /\ net' = q.net
    /\ sent' = q.sent /\ postponed' = q.postponed /\ entryPostponed' = q.entryPostponed
    /\ entries' = q.entries /\ pending' = q.pending /\ posted' = q.posted

Of(q, h, types) == {r \in q.sent : q.home[r] = h /\ q.type[r] \in types}

\* postponeHistoryRequest(), postponeEntryRequest()
Deletes == {"Delete", "DeleteChannel"}

\* Mutant: the requests for messages go on while messages are deleted.
NeverPostponed(q, h) == FALSE

PostponesHistory(q, h) == Of(q, h, Deletes) # {}
PostponesEntry(q, h) == Of(q, h, Types \ {"History"}) # {}

Free(q) == {r \in Requests : q.type[r] = "none"}

Asking(q, some) == [q EXCEPT !.net = [r \in Requests |-> IF r \in some THEN "asked" ELSE @[r]]]
Cancelling(q, some) == [q EXCEPT !.net = [r \in Requests |-> IF r \in some THEN "none" ELSE @[r]]]

\* sendRequest(), of a request of h that is not postponed
SendingNow(q, h, r) ==
    LET now == Asking([q EXCEPT !.sent = @ \cup {r}], {r})
        again == IF PostponesHistory(now, h) THEN Of(now, h, {"History"}) ELSE {}
    IN  Cancelling([now EXCEPT
            !.entryPostponed = IF PostponesEntry(now, h) /\ h \in q.entries THEN @ \cup {h} ELSE @,
            !.sent = @ \ again,
            !.postponed = @ \cup again], again)

\* sendRequest()
Sending(q, h, what, upTo) ==
    LET r == CHOOSE r \in Free(q) : TRUE
        new == [q EXCEPT !.type[r] = what, !.home[r] = h, !.till[r] = upTo]
    IN  IF what = "History" /\ PostponesHistory(q, h)
        THEN [new EXCEPT !.postponed = @ \cup {r}] ELSE SendingNow(new, h, r)

\* Mutant: an entry that is asked for is asked for again.
RequestingEntryAgain(q, h) ==
    [q EXCEPT !.pending = @ \cup {h}, !.posted = @ \/ q.pending = {}]

\* requestDialogEntry(), postponeRequestDialogEntries()
RequestingEntry(q, h) ==
    IF h \in q.entries \cup q.pending THEN q
    ELSE [q EXCEPT !.pending = @ \cup {h}, !.posted = @ \/ q.pending = {}]

\* Mutant: what waited for a deletion is left waiting.
Waiting(q, h) == q

\* Mutant: the entry that waited is not asked for.
EntryWaiting(q, h) == q

\* finishSentRequest(): the requests for messages that waited are sent,
Resending(q, h) ==
    LET waited == {p \in q.postponed : q.home[p] = h}
    IN IF PostponesHistory(q, h) THEN q
       ELSE Asking([q EXCEPT !.sent = @ \cup waited, !.postponed = @ \ waited], waited)

\* ... and the entry is asked for again.  The assertions are EntryHeld.
EntryAgain(q, h) ==
    IF h \notin q.entryPostponed \/ PostponesEntry(q, h) THEN q
    ELSE [RequestingEntry([q EXCEPT !.entries = @ \ {h}], h) EXCEPT !.entryPostponed = @ \ {h}]

Finishing(q, r) ==
    LET h == q.home[r]
        done == Cancelling([q EXCEPT !.sent = @ \ {r}], {r} \cap q.sent)
    IN EntryAgain(Resending(done, h), h)

Answered(q, r) == Cancelling(q, {r})

Send(h, what) ==
    /\ Event
    /\ Free(Now) # {}
    /\ Becomes(Sending(Now, h, what, 0))
    /\ UNCHANGED <<reads, local, rest>>

\* readHistory() in ayu/utils/telegram_helpers.cpp, when reads are not sent.
OwnRead(h) ==
    /\ Event
    /\ ~sendReads /\ Free(Now) # {}
    /\ \E t \in Incoming(h) : Becomes(Sending(Now, h, "OwnRead", t))
    /\ UNCHANGED <<reads, local, rest>>

\* sendPreparedMessage(); sending a message may read the chat, too.
SendMessage(h) ==
    /\ Event
    /\ \/ Free(Now) # {} /\ Becomes(Sending(Now, h, "Send", 0))
       \/ /\ ~sendReads /\ Cardinality(Free(Now)) > 1
          /\ Becomes(Sending(Sending(Now, h, "OwnRead", LastMessage), h, "Send", 0))
    /\ UNCHANGED <<reads, local, rest>>

Cancel(r) ==
    /\ Event
    /\ type[r] = "History" /\ r \in sent \cup postponed
    /\ Becomes(Finishing([Now EXCEPT !.postponed = @ \ {r}], r))
    /\ UNCHANGED <<reads, local, rest>>

\* The last part of a long history is deleted by another request.
AnswerSimple(r) ==
    /\ type[r] \in {"History", "Send", "Delete"} /\ net[r] = "asked"
    /\ \/ Becomes(Finishing(Answered(Now, r), r)) /\ UNCHANGED events
       \/ /\ Event
          /\ type[r] = "Delete" /\ Free(Now) # {}
          /\ Becomes(Finishing(Sending(Answered(Now, r), home[r], "Delete", 0), r))
    /\ UNCHANGED <<reads, local, rest>>

\* DeleteChannel, and the reading in ayu/utils/telegram_helpers.cpp: nobody calls finish().
AnswerUnfinished(r) ==
    /\ \/ type[r] = "DeleteChannel" /\ net[r] = "asked"
       \/ type[r] = "OwnRead" /\ net[r] = "handled"
    /\ Becomes(Answered(Now, r))
    /\ UNCHANGED <<reads, local, rest, events>>

-----------------------------------------------------------------------------
(* Reading *)

\* sendReadRequests(): those of now are sent, or all the states are dropped.  A read
\* makes no request for messages wait, only the entry of its chat.
Told(q, will, now) ==
    LET request == CHOOSE f \in Injection(now, Free(q)) : TRUE
        read == {request[h] : h \in now}
        new == [r \in read |-> CHOOSE h \in now : request[h] = r]
    IN IF sendReads
       THEN Asking([q EXCEPT
                !.type = [r \in Requests |-> IF r \in read THEN "ReadInbox" ELSE @[r]],
                !.home = [r \in Requests |-> IF r \in read THEN new[r] ELSE @[r]],
                !.till = [r \in Requests |-> IF r \in read THEN will[new[r]] ELSE @[r]],
                !.sent = @ \cup read,
                !.entryPostponed = @ \cup (now \cap q.entries)], read)
       ELSE [q EXCEPT !.sent = {}, !.postponed = {}, !.entryPostponed = {}]

\* What is to be read now: what is not delayed, or not longer than until now.
DueNow(will, late) ==
    {now \in SUBSET Chats :
        /\ sendReads => Injection(now, Free(Now)) # {}
        /\ \A h \in Chats : IF will[h] = 0 THEN h \notin now ELSE h \in late \/ h \in now}

\* Mutant: the timer is left to those who start it.
NoTimer(late) == FALSE

\* It fires for the next of them.
TimerFor(late) == late # {}

\* ... and the states after it; active tells of the timer if nobody touches it.
ReadsBecome(will, done, finished, now, active) ==
    IF sendReads
    THEN /\ willTill' = [h \in Chats |-> IF h \in now THEN 0 ELSE will[h]]
         /\ sentTill' = [h \in Chats |-> IF h \in now THEN will[h] ELSE done[h]]
         /\ delayed' = {h \in Chats : will[h] # 0 /\ h \notin now}
         /\ sentDone' = finished \ now
         /\ timer' = TimerFor(delayed')
    ELSE /\ willTill' = [h \in Chats |-> 0] /\ sentTill' = [h \in Chats |-> 0]
         /\ delayed' = {} /\ sentDone' = {}
         /\ timer' = active

SendReadRequests(will, late) ==
    \E now \in DueNow(will, late) :
        /\ Becomes(Told(Now, will, now))
        /\ ReadsBecome(will, sentTill, sentDone, now, timer)

\* Mutant: more is read than was counted.
StillUnreadUnbounded(h, t) ==
    IF count[h] = Unknown THEN {Unknown}
    ELSE {Unknown, Cardinality(Unread(h, t)),
          count[h] - Cardinality(Unread(h, position[h]) \ Unread(h, t))}

\* countStillUnreadLocal(): from the count, or from the end, or the messages are not loaded.
StillUnread(h, t) ==
    IF count[h] = Unknown THEN {Unknown}
    ELSE {Unknown, Cardinality(Unread(h, t)),
          Max({0, count[h] - Cardinality(Unread(h, position[h]) \ Unread(h, t))})}

\* What a history tells of its unread messages.
Local(h) == [position |-> position[h], count |-> count[h]]

LocalBecomes(h, l) ==
    /\ position' = [position EXCEPT ![h] = l.position]
    /\ count' = [count EXCEPT ![h] = l.count]

\* setInboxReadTill()
Until(l, t) == [l EXCEPT !.position = Max({@, t})]

\* Mutant: with one message left the last one is read, too.
CountingOneMore(l, n, ahead) ==
    IF ahead /\ n # l.count /\ n \in {0, 1} THEN [Until(l, LastMessage) EXCEPT !.count = n]
    ELSE [l EXCEPT !.count = n]

\* setUnreadCount(): the position goes ahead to the last message, or to the one before it if
\* one message is left.  It does not if no last message is known (msgIdForRead), or if one is
\* left and the last one is known to be an own one (lastOutgoing).
Counting(l, n, ahead) ==
    IF ahead /\ n # l.count /\ n \in {0, 1} THEN [Until(l, LastMessage - n) EXCEPT !.count = n]
    ELSE [l EXCEPT !.count = n]

\* syncGuard: the last message of the server is read, if it is known to be the last.
Synced(l, t, last, ahead) ==
    IF last /\ t = LastMessage /\ l.count > 0 THEN Counting(l, 0, ahead) ELSE l

MarkRead(h, t, left) ==
    \E last, ahead \in BOOLEAN :
        LocalBecomes(h, Synced(Counting(Until(Local(h), t), left, ahead), t, last, ahead))

OnlySync(h, t) ==
    \E last, ahead \in BOOLEAN : LocalBecomes(h, Synced(Local(h), t, last, ahead))

\* sendPendingReadInbox()
SendPending(h) ==
    IF willTill[h] # 0 /\ h \in delayed THEN SendReadRequests(willTill, delayed \ {h})
    ELSE UNCHANGED <<queue, reads>>

NeedsRequest(h, t) == position[h] < t

\* Mutant: the same message is read again.
SentBeyond(h, t) == sentTill[h] > t

SentEnough(h, t) == sentTill[h] >= t

\* The request is sent now, or in three seconds.
ReadNow(h, t, still) ==
    /\ SendReadRequests([willTill EXCEPT ![h] = t], delayed \ {h})
    /\ IF still = Unknown THEN OnlySync(h, t) ELSE MarkRead(h, t, still)

ReadLater(h, t, still) ==
    /\ willTill' = [willTill EXCEPT ![h] = t]
    /\ delayed' = delayed \cup {h}
    /\ timer' = (timer \/ h \notin delayed)
    /\ MarkRead(h, t, still)
    /\ UNCHANGED <<queue, sentTill, sentDone>>

ReadInboxTill(h, t, force) ==
    LET nothing == \/ ~NeedsRequest(h, t) /\ (~force \/ willTill[h] = 0)
                   \/ SentEnough(h, t)
        enough == willTill[h] >= t
    IN /\ Event
       /\ \/ nothing /\ OnlySync(h, t) /\ UNCHANGED <<queue, reads>>
          \/ ~nothing /\ enough /\ OnlySync(h, t)
                /\ IF force THEN SendPending(h) ELSE UNCHANGED <<queue, reads>>
          \/ ~nothing /\ ~enough /\ \E still \in StillUnread(h, t) :
                IF ~force /\ still # Unknown /\ still = count[h]
                THEN MarkRead(h, t, still) /\ UNCHANGED <<queue, reads>>
                ELSE IF force \/ still \in {Unknown, 0} THEN ReadNow(h, t, still)
                ELSE ReadLater(h, t, still)
       /\ UNCHANGED rest

\* The chat is closed.
SendPendingReadInbox(h) ==
    /\ Event
    /\ SendPending(h)
    /\ UNCHANGED <<local, rest>>

\* It fires when the first of the delayed ones is due.
ReadTimerFires ==
    /\ timer
    /\ \E now \in DueNow(willTill, delayed) :
          /\ now # {} \/ delayed = {} \/ ~sendReads
          /\ Becomes(Told(Now, willTill, now))
          /\ ReadsBecome(willTill, sentTill, sentDone, now, FALSE)
    /\ UNCHANGED <<local, rest, events>>

\* Mutant: only if the count is not known.
RefreshUncounted(h, t) == count[h] = Unknown

\* unreadCountRefreshNeeded()
RefreshNeeded(h, t) == count[h] = Unknown \/ t > position[h]

\* finished() in sendReadRequest(), after an answer or an error.  A failed assertion
\* would end the program.
AnswerRead(r) ==
    LET h == home[r]
        last == sentTill[h] = till[r]
        refresh == last /\ RefreshNeeded(h, till[r])
        asked == IF refresh THEN RequestingEntry(Answered(Now, r), h) ELSE Answered(Now, r)
    IN /\ type[r] = "ReadInbox" /\ net[r] = "handled"
       /\ last \/ sentTill[h] = 0 \/ sentTill[h] > till[r]
       /\ \E now \in DueNow(willTill, delayed) :
             /\ Becomes(Finishing(Told(asked, willTill, now), r))
             /\ ReadsBecome(willTill,
                            IF last /\ ~refresh THEN [sentTill EXCEPT ![h] = 0] ELSE sentTill,
                            IF refresh THEN sentDone \cup {h} ELSE sentDone,
                            now, timer)
       /\ UNCHANGED <<local, rest, events>>

ToggleSendReads ==
    /\ Event
    /\ sendReads' = ~sendReads /\ alwaysSent' = FALSE
    /\ UNCHANGED <<queue, reads, local, batches, serverTill>>

-----------------------------------------------------------------------------
(* The entries of the list of chats *)

RequestDialogEntry(h) ==
    /\ Event
    /\ Becomes(RequestingEntry(Now, h))
    /\ UNCHANGED <<reads, local, rest>>

\* The entries of histories with other requests than for messages are asked for later.
SendDialogRequests ==
    LET later == {h \in pending : PostponesEntry(Now, h)}
    IN /\ posted
       /\ Becomes([Now EXCEPT !.posted = FALSE, !.pending = {}, !.entries = @ \cup pending,
                              !.entryPostponed = @ \cup later])
       /\ IF pending = later THEN UNCHANGED batches
          ELSE /\ \E b \in Batches : batches[b] = NoBatch
               /\ batches' = [batches EXCEPT ![Min({b \in Batches : batches[b] = NoBatch})] =
                                [of |-> pending \ later, read |-> <<>>]]
       /\ UNCHANGED <<reads, local, serverTill, ghost, events>>

\* dialogEntryApplied(), for those of some that are not postponed.
EntriesApplied(some) ==
    LET applied == some \ entryPostponed
        told == {h \in applied : sentTill[h] # 0 /\ h \in sentDone}
    IN /\ Becomes([Now EXCEPT !.entries = @ \ applied, !.pending = @ \ applied])
       /\ sentTill' = [h \in Chats |-> IF h \in told THEN 0 ELSE sentTill[h]]
       /\ sentDone' = sentDone \ told
       /\ UNCHANGED <<willTill, delayed, timer>>

\* setInboxReadTill() in it, for a history that was read up to at.
ToldTill(h, at) ==
    IF h \in sentDone \ entryPostponed THEN Max({at, sentTill[h]}) ELSE at

\* applyDialogFields(), for a history that the server knows as read up to t.
Applied(h, t, ahead) ==
    IF t < position[h] THEN Local(h)
    ELSE Until(Counting(Local(h), Cardinality(Unread(h, t)), ahead), t)

AnswerEntries(b) ==
    LET of == batches[b].of
        read == batches[b].read
    IN /\ read # <<>>
       /\ \E ahead \in SUBSET of :
             /\ count' = [h \in Chats |->
                   IF h \in of THEN Applied(h, read[h], h \in ahead).count ELSE count[h]]
             /\ position' = [h \in Chats |->
                   IF h \in of THEN ToldTill(h, Applied(h, read[h], h \in ahead).position)
                   ELSE position[h]]
       /\ EntriesApplied(of)
       /\ batches' = [batches EXCEPT ![b] = NoBatch]
       /\ UNCHANGED <<serverTill, ghost, events>>

EntriesRefused(b) ==
    LET of == batches[b].of
    IN /\ Event
       /\ of # {}
       /\ position' = [h \in Chats |-> IF h \in of THEN ToldTill(h, position[h]) ELSE position[h]]
       /\ EntriesApplied(of)
       /\ batches' = [batches EXCEPT ![b] = NoBatch]
       /\ UNCHANGED <<count, serverTill, ghost>>

-----------------------------------------------------------------------------
(* The server and the other devices of the account *)

ServerReads(r) ==
    /\ type[r] \in {"ReadInbox", "OwnRead"} /\ net[r] = "asked"
    /\ net' = [net EXCEPT ![r] = "handled"]
    /\ serverTill' = [serverTill EXCEPT ![home[r]] = Max({@, till[r]})]
    /\ UNCHANGED <<type, home, till, sent, postponed, entryPostponed, entries, pending, posted,
                   reads, local, batches, ghost, events>>

ServerReturns(b) ==
    /\ batches[b].of # {} /\ batches[b].read = <<>>
    /\ batches' = [batches EXCEPT ![b].read = serverTill]
    /\ UNCHANGED <<queue, reads, local, serverTill, ghost, events>>

\* History::applyInboxReadUpdate(), inboxRead()
ReadElsewhere(h, t) ==
    /\ Event
    /\ serverTill[h] < t
    /\ serverTill' = [serverTill EXCEPT ![h] = t]
    /\ IF position[h] >= t THEN UNCHANGED <<queue, local>>
       ELSE \E still \in StillUnread(h, t) \cup
                   (IF count[h] = Unknown THEN {} ELSE {Cardinality(Unread(h, t))}) :
              IF still = Unknown
              THEN Becomes(RequestingEntry(Now, h)) /\ LocalBecomes(h, Until(Local(h), t))
              ELSE /\ \E ahead \in BOOLEAN : LocalBecomes(h, Until(Counting(Local(h), still, ahead), t))
                   /\ UNCHANGED queue
    /\ UNCHANGED <<reads, batches, ghost>>

-----------------------------------------------------------------------------
\* The users and the other devices
Users ==
    \/ \E h \in Chats, what \in {"History", "Delete", "DeleteChannel"} : Send(h, what)
    \/ \E h \in Chats : SendMessage(h) \/ OwnRead(h) \/ SendPendingReadInbox(h) \/ RequestDialogEntry(h)
    \/ \E h \in Chats, t \in Messages :
          ReadElsewhere(h, t) \/ \E force \in BOOLEAN : ReadInboxTill(h, t, force)
    \/ \E r \in Requests : Cancel(r)
    \/ ToggleSendReads

\* The server, the timer and the posted calls
System ==
    \/ \E r \in Requests :
          AnswerSimple(r) \/ AnswerUnfinished(r) \/ AnswerRead(r) \/ ServerReads(r)
    \/ \E b \in Batches : ServerReturns(b) \/ AnswerEntries(b) \/ EntriesRefused(b)
    \/ ReadTimerFires \/ SendDialogRequests

Next == Users \/ System

Spec == Init /\ [][Next]_vars

\* Requests are answered, the timer fires, posted calls are made: the system goes on
\* until nothing is left.  (Weak fairness of System, with ENABLED written out: its steps
\* are those that are no events, but for refusals and second deletions: finitely many.)
Idle ==
    /\ ~timer /\ ~posted
    /\ \A r \in Requests : net[r] = "none"
    /\ \A b \in Batches : batches[b] = NoBatch
Fairness == []<>Idle \/ []<><<events' = events>>_vars
FairSpec == Spec /\ Fairness

-----------------------------------------------------------------------------
(* Properties *)

\* The types, among them that no count of unread messages becomes negative.
TypeOK ==
    /\ type \in [Requests -> Types \cup {"none"}]
    /\ home \in [Requests -> Chats]
    /\ till \in [Requests -> {0} \cup Messages]
    /\ net \in [Requests -> {"none", "asked", "handled"}]
    /\ sent \subseteq Requests /\ postponed \subseteq Requests
    /\ willTill \in [Chats -> {0} \cup Messages] /\ sentTill \in [Chats -> {0} \cup Messages]
    /\ delayed \subseteq Chats /\ sentDone \subseteq Chats /\ entryPostponed \subseteq Chats
    /\ timer \in BOOLEAN
    /\ entries \subseteq Chats /\ pending \subseteq Chats /\ posted \in BOOLEAN
    /\ \A b \in Batches : batches[b].of \subseteq Chats
    /\ position \in [Chats -> {0} \cup Messages]
    /\ count \in [Chats -> {Unknown} \cup 0..LastMessage]
    /\ serverTill \in [Chats -> {0} \cup Messages]
    /\ sendReads \in BOOLEAN /\ alwaysSent \in BOOLEAN /\ events \in 0..MaxEvents

\* What is to be read is beyond what the server was told last: sendReadRequest()
\* expects it, readInboxTill() has to see to it whatever was dropped in between.
ReadsGrow == \A h \in Chats : willTill[h] # 0 => willTill[h] > sentTill[h]

\* What was put off for three seconds will be sent: _readRequestsTimer, which all the
\* chats share and every call of sendReadRequests() sets anew, is running.
ReadsWatched == \A h \in Chats : willTill[h] # 0 => h \in delayed /\ timer

\* The answer to an older read never finds a later one forgotten and an earlier one sent:
\* the assertion on sentReadTill in sendReadRequest().
AnswersInOrder ==
    \A r \in Requests : type[r] = "ReadInbox" /\ net[r] # "none" =>
        sentTill[home[r]] = 0 \/ sentTill[home[r]] >= till[r]

\* An entry that waits for other requests of its chat is kept in _dialogRequests, not in
\* _dialogRequestsPending, so that finishSentRequest() finds it there and can move it (its
\* two assertions), and sendDialogRequests() is on its way to the pending ones.
EntryHeld ==
    /\ entryPostponed \subseteq entries
    /\ entries \cap pending = {}
    /\ pending # {} => posted

InFlight(h, types) == {r \in Requests : home[r] = h /\ type[r] \in types /\ net[r] # "none"}

\* Messages are not requested while others are being deleted.
DeleteIsAlone == \A h \in Chats : InFlight(h, Deletes) # {} => InFlight(h, {"History"}) = {}

\* As long as nobody turns the sending of reads off: answers come in order, and requests for
\* messages wait for deletions (data_histories.cpp, sendRequest and finishSentRequest).
InOrder == alwaysSent => AnswersInOrder /\ DeleteIsAlone

\* Nothing is under way that would tell either side what has been read.
Settled(h) ==
    /\ h \notin entries \cup pending /\ willTill[h] = 0
    /\ InFlight(h, {"ReadInbox"}) = {}

\* setUnreadCount(1) takes the last message for the one that is left.  If it is an own one
\* that is not loaded, the position goes past the message that is left, and nobody tells the
\* server of it.
PassedBy(h, unread) == LastMessage \in Outgoing[h] /\ Cardinality(unread) = 1

\* The same messages are unread here and on the server, unless a request is under way
\* or the sending of reads was turned off: however local reads, reads of other devices,
\* entries returned before and refused, and the answers to all of them interleave.  But for
\* one message, which setUnreadCount() passes by before a last message of one's own.
ReadsAgree ==
    alwaysSent => \A h \in Chats : Settled(h) =>
        LET here == Unread(h, position[h])
            there == Unread(h, serverTill[h])
        IN here = there \/ (here = {} /\ PassedBy(h, there))

-----------------------------------------------------------------------------
(* What ReadsAgree rests on, as long as reads are always sent               *)

Reading(h) == InFlight(h, {"ReadInbox"})

Telling(h, m) ==
    \/ m <= serverTill[h] \/ m <= willTill[h]
    \/ \E r \in Reading(h) : m <= till[r]

\* What is read here is read at the server, or it will be told, or is being told, but for one
\* message that setUnreadCount() has passed by, when nothing is unread here any more.
ReadIsTold ==
    \A h \in Chats :
        LET untold == {m \in Incoming(h) : m <= position[h] /\ ~Telling(h, m)}
        IN untold = {} \/ (Unread(h, position[h]) = {} /\ PassedBy(h, untold))

\* What is read at the server is read here, or the answer that says so is to come, or the
\* entry that was asked for after it.
ReadIsHeard ==
    \A h \in Chats :
        \/ serverTill[h] <= position[h]
        \/ \E r \in Reading(h) : serverTill[h] <= till[r]
        \/ h \in sentDone /\ serverTill[h] <= sentTill[h]

\* sentReadTill is what is being told, until sentReadDone.
SentIsAsked ==
    \A h \in Chats : sentTill[h] = 0 \/ h \in sentDone \/ \E r \in Reading(h) : till[r] = sentTill[h]

\* sentReadDone: the server has read it, and the entry of the chat is asked for.
SentIsDone ==
    \A h \in sentDone : /\ sentTill[h] # 0 /\ sentTill[h] <= serverTill[h]
                        /\ h \in entries \cup pending

\* Each read of a chat that is being told is another one, before what will be told and what
\* has been.
ReadsDiffer ==
    \A h \in Chats : \A r \in Reading(h) :
        /\ willTill[h] # 0 => till[r] < willTill[h]
        /\ h \in sentDone => till[r] < sentTill[h]
        /\ \A p \in Reading(h) \ {r} : till[p] # till[r]

\* What the server has answered was so.
ServerKnows ==
    /\ \A h \in Chats : \A r \in Reading(h) :
          till[r] > 0 /\ (net[r] = "handled" => till[r] <= serverTill[h])
    /\ \A b \in Batches : batches[b].read # <<>> =>
          \A h \in Chats : batches[b].read[h] <= serverTill[h]

\* What will be told is read here.
WillIsRead == \A h \in Chats : willTill[h] <= position[h]

\* The count leaves out no message that is unread, unless the last one is being told: a
\* read that changes no count needs no request.
CountCovers ==
    \A h \in Chats : \/ count[h] = Unknown \/ sentTill[h] = LastMessage
                     \/ count[h] >= Cardinality(Unread(h, position[h]))

\* Nothing is read behind the back of the histories, as the ghost mode does.
OnlyReadInbox == \A r \in Requests : type[r] # "OwnRead"

AgreeInvariant ==
    alwaysSent => /\ ReadIsTold /\ ReadIsHeard /\ SentIsAsked /\ SentIsDone /\ ReadsDiffer
                  /\ ServerKnows /\ WillIsRead /\ CountCovers /\ OnlyReadInbox

NoneUnfinished == \A r \in sent : net[r] # "none"

\* Every read gets to the server and every entry that was asked for is applied, unless the
\* sending of reads is turned off or a request is one that nobody finishes.
EventuallySettled == [](sendReads /\ NoneUnfinished) => \A h \in Chats : []<>Settled(h)

\* Under the same conditions whatever waits for a deletion is sent.
EventuallySent == [](sendReads /\ NoneUnfinished) => []<>(postponed = {})
=============================================================================
