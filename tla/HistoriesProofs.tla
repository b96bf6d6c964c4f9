-------------------------- MODULE HistoriesProofs --------------------------
(***************************************************************************)
(* Proofs about Histories, for any number of chats, messages, requests and *)
(* events: the reads grow and are watched by the timer, an entry that      *)
(* waits is where finishSentRequest() expects it, and as long as reads are *)
(* always sent their answers come in order and deletions are alone.        *)
(*                                                                         *)
(* What is done to the requests is composed of functions from queue to     *)
(* queue: each of them preserves Held, which is EntryHeld of a queue.      *)
(***************************************************************************)
EXTENDS Histories, TLAPS

-----------------------------------------------------------------------------
(* The queues                                                              *)

\* A queue has the fields of Now.
IsQueue(q) ==
    DOMAIN q = {"type", "home", "till", "net", "sent", "postponed",
                "entryPostponed", "entries", "pending", "posted"}

\* EntryHeld of a queue.
Held(q) ==
    /\ IsQueue(q)
    /\ q.posted \in BOOLEAN
    /\ q.entryPostponed \subseteq q.entries
    /\ q.entries \cap q.pending = {}
    /\ q.pending # {} => q.posted

\* Nothing about the entries is changed by what is done to the requests alone.
LEMMA AskingHeld ==
    ASSUME NEW q, Held(q), NEW some
    PROVE  Held(Asking(q, some)) /\ Held(Cancelling(q, some))
BY DEF Held, IsQueue, Asking, Cancelling

\* sendRequest() postpones only an entry that is asked for.
LEMMA SendingHeld ==
    ASSUME NEW q, Held(q), NEW h, NEW what, NEW upTo
    PROVE  Held(Sending(q, h, what, upTo))
<1> DEFINE r == CHOOSE r \in Free(q) : TRUE
           new == [q EXCEPT !.type[r] = what, !.home[r] = h, !.till[r] = upTo]
           now == Asking([new EXCEPT !.sent = @ \cup {r}], {r})
           again == IF PostponesHistory(now, h) THEN Of(now, h, {"History"}) ELSE {}
           late == IF PostponesEntry(now, h) /\ h \in new.entries
                   THEN now.entryPostponed \cup {h} ELSE now.entryPostponed
<1>1. Held(new) /\ new.entries = q.entries
  <2> HIDE DEF r
  <2> QED BY DEF Held, IsQueue
<1>2. Held(now) /\ now.entries = q.entries
  <2> HIDE DEF r, new
  <2> QED BY <1>1 DEF Held, IsQueue, Asking
<1>3. Held([now EXCEPT !.entryPostponed = late, !.sent = @ \ again, !.postponed = @ \cup again])
  <2> HIDE DEF now, again
  <2> QED BY <1>2 DEF Held, IsQueue
<1>4. Held([new EXCEPT !.postponed = @ \cup {r}])
  <2> HIDE DEF new, r
  <2> QED BY <1>1 DEF Held, IsQueue
<1>5. Sending(q, h, what, upTo) =
        IF what = "History" /\ PostponesHistory(q, h)
        THEN [new EXCEPT !.postponed = @ \cup {r}] ELSE SendingNow(new, h, r)
  BY DEF Sending
<1>6. SendingNow(new, h, r) =
        Cancelling([now EXCEPT !.entryPostponed = late, !.sent = @ \ again,
                               !.postponed = @ \cup again], again)
  <2> HIDE DEF new, r
  <2> QED BY DEF SendingNow
<1> HIDE DEF new, now, again, late, r
<1> QED BY <1>3, <1>4, <1>5, <1>6, AskingHeld

\* An entry that is asked for already is not asked for again.
LEMMA RequestingHeld ==
    ASSUME NEW q, Held(q), NEW h
    PROVE  Held(RequestingEntry(q, h))
BY DEF RequestingEntry, Held, IsQueue

\* A read is told without another request waiting for it.
LEMMA ToldHeld ==
    ASSUME NEW q, Held(q), NEW will, NEW now
    PROVE  Held(Told(q, will, now))
<1>1. CASE ~sendReads
  BY <1>1 DEF Told, Held, IsQueue
<1>2. CASE sendReads
  <2> DEFINE request == CHOOSE f \in Injection(now, Free(q)) : TRUE
             read == {request[h] : h \in now}
             new == [r \in read |-> CHOOSE h \in now : request[h] = r]
  <2> HIDE DEF request
  <2> DEFINE told == [q EXCEPT
                !.type = [r \in Requests |-> IF r \in read THEN "ReadInbox" ELSE @[r]],
                !.home = [r \in Requests |-> IF r \in read THEN new[r] ELSE @[r]],
                !.till = [r \in Requests |-> IF r \in read THEN will[new[r]] ELSE @[r]],
                !.sent = @ \cup read,
                !.entryPostponed = @ \cup (now \cap q.entries)]
  <2>1. Held(told)
    <3> HIDE DEF read, new
    <3> QED BY DEF Held, IsQueue
  <2>2. Told(q, will, now) = Asking(told, read)
    BY <1>2 DEF Told, request
  <2> HIDE DEF told, read
  <2> QED BY <2>1, <2>2, AskingHeld
<1> QED BY <1>1, <1>2

\* finishSentRequest(): its two assertions.
LEMMA FinishingHeld ==
    ASSUME NEW q, Held(q), NEW r
    PROVE  Held(Finishing(q, r))
<1>1. ASSUME NEW p, Held(p), NEW h
      PROVE  Held(Resending(p, h))
  <2> DEFINE waited == {x \in p.postponed : p.home[x] = h}
             s == [p EXCEPT !.sent = @ \cup waited, !.postponed = @ \ waited]
  <2>1. Held(s)
    <3> HIDE DEF waited
    <3> QED BY <1>1 DEF Held, IsQueue
  <2>2. Resending(p, h) = IF PostponesHistory(p, h) THEN p ELSE Asking(s, waited)
    BY DEF Resending
  <2> HIDE DEF s, waited
  <2> QED BY <1>1, <2>1, <2>2, AskingHeld
<1>2. ASSUME NEW p, Held(p), NEW h
      PROVE  Held(EntryAgain(p, h))
  <2>1. CASE h \notin p.entryPostponed \/ PostponesEntry(p, h)
    BY <2>1, <1>2 DEF EntryAgain
  <2>2. CASE h \in p.entryPostponed /\ ~PostponesEntry(p, h)
    <3> DEFINE s == [p EXCEPT !.entries = @ \ {h}]
               a == RequestingEntry(s, h)
    <3>1. h \notin p.pending
      BY <2>2, <1>2 DEF Held
    <3>2. /\ DOMAIN a = DOMAIN p
          /\ a.entries = p.entries \ {h} /\ a.pending = p.pending \cup {h}
          /\ a.entryPostponed = p.entryPostponed
      BY <3>1, <1>2 DEF RequestingEntry, Held, IsQueue
    <3>4. a.posted = TRUE
      BY <3>1, <1>2 DEF RequestingEntry, Held, IsQueue
    <3>3. EntryAgain(p, h) = [a EXCEPT !.entryPostponed = @ \ {h}]
      BY <2>2 DEF EntryAgain
    <3> HIDE DEF a, s
    <3> QED BY <3>2, <3>3, <3>4, <1>2 DEF Held, IsQueue
  <2> QED BY <2>1, <2>2
<1> DEFINE done == Cancelling([q EXCEPT !.sent = @ \ {r}], {r} \cap q.sent)
<1>3. Held(done)
  BY DEF Held, IsQueue, Cancelling
<1>4. Finishing(q, r) = EntryAgain(Resending(done, q.home[r]), q.home[r])
  BY DEF Finishing
<1> HIDE DEF done
<1> QED BY <1>1, <1>2, <1>3, <1>4

\* Between the queues and the state.
LEMMA NowHeld == EntryHeld /\ posted \in BOOLEAN <=> Held(Now)
BY DEF EntryHeld, Held, IsQueue, Now

\* Held is EntryHeld of what the queue becomes.
LEMMA BecomesHeld ==
    ASSUME NEW STATE q, Held(q), Becomes(q)
    PROVE  EntryHeld' /\ posted' \in BOOLEAN
<1>1. /\ entryPostponed' = q.entryPostponed /\ entries' = q.entries
      /\ pending' = q.pending /\ posted' = q.posted
  BY DEF Becomes
<1>2. EntryHeld'
  BY <1>1, Zenon DEF Held, EntryHeld
<1>3. posted' \in BOOLEAN
  BY <1>1 DEF Held
<1> QED BY <1>2, <1>3

-----------------------------------------------------------------------------
(* The reads                                                               *)

Tills == {0} \cup Messages

\* The positions are those of messages, and what is delayed is to be read.
ReadTypes ==
    /\ willTill \in [Chats -> Tills] /\ sentTill \in [Chats -> Tills]
    /\ \A h \in delayed : h \in Chats /\ willTill[h] # 0

\* What is preserved by every step.
Inv == ReadTypes /\ ReadsGrow /\ ReadsWatched /\ EntryHeld /\ posted \in BOOLEAN

\* After sendReadRequests() what is still to be read is delayed, and the timer runs.
LEMMA ReadsBecomeInv ==
    ASSUME NEW STATE will, will \in [Chats -> Tills],
           NEW STATE done, done \in [Chats -> Tills],
           \A h \in Chats : will[h] # 0 => will[h] > done[h],
           NEW STATE finished, NEW STATE now, NEW STATE active,
           ReadsBecome(will, done, finished, now, active)
    PROVE  ReadTypes' /\ ReadsGrow' /\ ReadsWatched'
<1>1. ReadTypes'
  BY DEF ReadsBecome, ReadTypes, Tills
<1>2. ReadsGrow'
  BY DEF ReadsBecome, ReadsGrow
<1>3. ReadsWatched'
  BY DEF ReadsBecome, ReadsWatched, TimerFor
<1> QED BY <1>1, <1>2, <1>3

\* sendReadRequests() keeps the invariant, whatever is due.
LEMMA SendReadRequestsInv ==
    ASSUME Inv, NEW STATE will, will \in [Chats -> Tills],
           \A h \in Chats : will[h] # 0 => will[h] > sentTill[h],
           NEW STATE late, SendReadRequests(will, late)
    PROVE  Inv'
<1>1. PICK now \in DueNow(will, late) :
          /\ Becomes(Told(Now, will, now))
          /\ ReadsBecome(will, sentTill, sentDone, now, timer)
  BY DEF SendReadRequests
<1>2. ReadTypes' /\ ReadsGrow' /\ ReadsWatched'
  BY <1>1, ReadsBecomeInv DEF Inv, ReadTypes
<1>3. Held(Told(Now, will, now))
  BY NowHeld, ToldHeld DEF Inv
<1> QED BY <1>1, <1>2, <1>3, BecomesHeld DEF Inv

\* The actions that change nothing but the requests.
LEMMA RequestsStep ==
    ASSUME Inv, NEW STATE q, Held(q), Becomes(q), UNCHANGED reads
    PROVE  Inv'
<1>1. EntryHeld' /\ posted' \in BOOLEAN
  BY BecomesHeld
<1> QED BY <1>1 DEF Inv, ReadTypes, ReadsGrow, ReadsWatched, reads

\* The actions that change neither the requests nor the reads.
LEMMA OtherStep ==
    ASSUME Inv, UNCHANGED <<queue, reads>>
    PROVE  Inv'
BY DEF Inv, ReadTypes, ReadsGrow, ReadsWatched, EntryHeld, queue, reads

\* A read that waits may be told at once.
LEMMA SendPendingInv ==
    ASSUME Inv, NEW h, SendPending(h)
    PROVE  Inv'
<1>1. CASE SendReadRequests(willTill, delayed \ {h})
  BY <1>1, SendReadRequestsInv DEF Inv, ReadTypes, ReadsGrow
<1>2. CASE UNCHANGED <<queue, reads>>
  BY <1>2, OtherStep
<1> QED BY <1>1, <1>2 DEF SendPending

\* A read is only put off or sent when it is beyond the last one that was sent.
LEMMA ReadInboxTillInv ==
    ASSUME Inv, NEW h \in Chats, NEW t \in Messages, NEW force \in BOOLEAN,
           ReadInboxTill(h, t, force)
    PROVE  Inv'
<1>1. CASE UNCHANGED <<queue, reads>>
  BY <1>1, OtherStep
<1>2. CASE SendPending(h)
  BY <1>2, SendPendingInv
<1>3. ASSUME ~SentEnough(h, t), NEW still, ReadNow(h, t, still)
      PROVE  Inv'
  <2> DEFINE will == [willTill EXCEPT ![h] = t]
  <2>1. will \in [Chats -> Tills]
    BY DEF Inv, ReadTypes, Tills
  <2>2. ASSUME NEW g \in Chats, will[g] # 0
        PROVE  will[g] > sentTill[g]
    <3>1. CASE g = h
      BY <3>1, <1>3, HistoriesAssumption DEF SentEnough, Inv, ReadTypes, Tills, Messages
    <3>2. CASE g # h
      BY <3>2, <2>2 DEF Inv, ReadTypes, ReadsGrow
    <3> QED BY <3>1, <3>2
  <2>3. SendReadRequests(will, delayed \ {h})
    BY <1>3 DEF ReadNow
  <2> QED BY <2>1, <2>2, <2>3, SendReadRequestsInv
<1>4. ASSUME ~SentEnough(h, t), NEW still, ReadLater(h, t, still)
      PROVE  Inv'
  <2> USE <1>4 DEF ReadLater
  <2>1. ReadTypes'
    BY HistoriesAssumption DEF Inv, ReadTypes, Tills, Messages
  <2>2. ReadsGrow'
    BY HistoriesAssumption DEF SentEnough, Inv, ReadTypes, ReadsGrow, Tills, Messages
  <2>3. ReadsWatched'
    BY DEF Inv, ReadTypes, ReadsWatched
  <2>4. EntryHeld' /\ posted' \in BOOLEAN
    BY DEF Inv, EntryHeld, queue
  <2> QED BY <2>1, <2>2, <2>3, <2>4 DEF Inv
<1>5. \/ UNCHANGED <<queue, reads>>
      \/ SendPending(h)
      \/ ~SentEnough(h, t) /\ \E still : ReadNow(h, t, still) \/ ReadLater(h, t, still)
  BY DEF ReadInboxTill
<1> QED BY <1>1, <1>2, <1>3, <1>4, <1>5

\* The answer to a read, and the next read it may start.
LEMMA AnswerReadInv ==
    ASSUME Inv, NEW r \in Requests, AnswerRead(r)
    PROVE  Inv'
<1> DEFINE h == home[r]
           last == sentTill[h] = till[r]
           refresh == last /\ RefreshNeeded(h, till[r])
           asked == IF refresh THEN RequestingEntry(Answered(Now, r), h) ELSE Answered(Now, r)
           done == IF last /\ ~refresh THEN [sentTill EXCEPT ![h] = 0] ELSE sentTill
           finished == IF refresh THEN sentDone \cup {h} ELSE sentDone
<1>1. PICK now \in DueNow(willTill, delayed) :
          /\ Becomes(Finishing(Told(asked, willTill, now), r))
          /\ ReadsBecome(willTill, done, finished, now, timer)
  BY DEF AnswerRead
<1>2. done \in [Chats -> Tills] /\ \A g \in Chats : willTill[g] # 0 => willTill[g] > done[g]
  <2>1. CASE done = sentTill
    BY <2>1 DEF Inv, ReadTypes, ReadsGrow
  <2>2. CASE done = [sentTill EXCEPT ![h] = 0]
    <3> HIDE DEF h, done
    <3>1. done \in [Chats -> Tills]
      BY <2>2 DEF Inv, ReadTypes, Tills
    <3>2. ASSUME NEW g \in Chats, willTill[g] # 0
          PROVE  willTill[g] > done[g]
      <4>1. done[g] = 0 \/ done[g] = sentTill[g]
        BY <2>2 DEF Inv, ReadTypes
      <4>2. willTill[g] > sentTill[g] /\ willTill[g] \in Nat
        BY <3>2, HistoriesAssumption DEF Inv, ReadTypes, ReadsGrow, Tills, Messages
      <4> QED BY <3>2, <4>1, <4>2
    <3> QED BY <3>1, <3>2
  <2> QED BY <2>1, <2>2
<1>3. Held(Answered(Now, r))
  BY NowHeld, AskingHeld DEF Inv, Answered
<1>4. Held(asked)
  BY <1>3, RequestingHeld
<1> HIDE DEF done, finished, asked
<1>5. Held(Finishing(Told(asked, willTill, now), r))
  BY <1>4, ToldHeld, FinishingHeld
<1>6. ReadTypes' /\ ReadsGrow' /\ ReadsWatched'
  BY <1>1, <1>2, ReadsBecomeInv DEF Inv, ReadTypes
<1>7. EntryHeld' /\ posted' \in BOOLEAN
  BY <1>1, <1>5, BecomesHeld
<1> QED BY <1>6, <1>7 DEF Inv

\* The timer tells what is due.
LEMMA ReadTimerFiresInv ==
    ASSUME Inv, ReadTimerFires
    PROVE  Inv'
<1>1. PICK now \in DueNow(willTill, delayed) :
          /\ Becomes(Told(Now, willTill, now))
          /\ ReadsBecome(willTill, sentTill, sentDone, now, FALSE)
  BY DEF ReadTimerFires
<1>2. ReadTypes' /\ ReadsGrow' /\ ReadsWatched'
  BY <1>1, ReadsBecomeInv DEF Inv, ReadTypes, ReadsGrow
<1>3. Held(Told(Now, willTill, now))
  BY NowHeld, ToldHeld DEF Inv
<1>4. EntryHeld' /\ posted' \in BOOLEAN
  BY <1>1, <1>3, BecomesHeld
<1> QED BY <1>2, <1>4 DEF Inv

\* The entries are applied unless they wait for a request.
LEMMA EntriesAppliedInv ==
    ASSUME Inv, NEW STATE some, EntriesApplied(some)
    PROVE  Inv'
<1> DEFINE applied == some \ entryPostponed
           q == [Now EXCEPT !.entries = @ \ applied, !.pending = @ \ applied]
<1>1. Held(q)
  <2>1. Held(Now) /\ Now.entryPostponed = entryPostponed
    BY NowHeld DEF Inv, Now
  <2> QED BY <2>1 DEF Held, IsQueue
<1>2. Becomes(q)
  BY DEF EntriesApplied
<1>3. EntryHeld' /\ posted' \in BOOLEAN
  <2> HIDE DEF q
  <2> QED BY <1>1, <1>2, BecomesHeld
<1>4. ReadTypes' /\ ReadsGrow' /\ ReadsWatched'
  BY HistoriesAssumption
  DEF EntriesApplied, Inv, ReadTypes, ReadsGrow, ReadsWatched, Tills, Messages
<1> QED BY <1>3, <1>4 DEF Inv

\* Entries are asked for, or postponed because of other requests.
LEMMA SendDialogRequestsInv ==
    ASSUME Inv, SendDialogRequests
    PROVE  Inv'
<1> DEFINE later == {h \in pending : PostponesEntry(Now, h)}
           q == [Now EXCEPT !.posted = FALSE, !.pending = {}, !.entries = @ \cup pending,
                            !.entryPostponed = @ \cup later]
<1>1. Held(q)
  <2>1. Held(Now)
    BY NowHeld DEF Inv
  <2> QED BY <2>1 DEF Held, IsQueue
<1>2. Becomes(q) /\ UNCHANGED reads
  BY DEF SendDialogRequests
<1> HIDE DEF q
<1> QED BY <1>1, <1>2, RequestsStep

\* A read on another device changes no request of this one.
LEMMA ReadElsewhereInv ==
    ASSUME Inv, NEW h \in Chats, NEW t, ReadElsewhere(h, t)
    PROVE  Inv'
<1>1. UNCHANGED reads
  BY DEF ReadElsewhere
<1>2. CASE UNCHANGED queue
  BY <1>1, <1>2, OtherStep
<1>3. CASE Becomes(RequestingEntry(Now, h))
  <2>1. Held(RequestingEntry(Now, h))
    BY NowHeld, RequestingHeld DEF Inv
  <2> QED BY <2>1, <1>1, <1>3, RequestsStep
<1> QED BY <1>2, <1>3 DEF ReadElsewhere

-----------------------------------------------------------------------------
(* The steps                                                               *)

\* Nothing is under way at first.
LEMMA InvInit == Init => Inv
<1> SUFFICES ASSUME Init PROVE Inv
  OBVIOUS
<1>1. ReadTypes /\ ReadsGrow /\ ReadsWatched
  BY DEF Init, ReadTypes, ReadsGrow, ReadsWatched, Tills
<1>2. EntryHeld /\ posted \in BOOLEAN
  BY DEF Init, EntryHeld
<1> QED BY <1>1, <1>2 DEF Inv

\* Every step keeps the invariant.
LEMMA InvStep == Inv /\ [Next]_vars => Inv'
<1> SUFFICES ASSUME Inv, [Next]_vars PROVE Inv'
  OBVIOUS
<1>0. Held(Now)
  BY NowHeld DEF Inv
<1>1. ASSUME NEW h, NEW what, Send(h, what)
      PROVE  Inv'
  <2>1. Held(Sending(Now, h, what, 0))
    BY <1>0, SendingHeld
  <2> QED BY <1>1, <2>1, RequestsStep DEF Send
<1>2. ASSUME NEW h, OwnRead(h)
      PROVE  Inv'
  <2>1. PICK t : Becomes(Sending(Now, h, "OwnRead", t)) /\ UNCHANGED reads
    BY <1>2 DEF OwnRead
  <2>2. Held(Sending(Now, h, "OwnRead", t))
    BY <1>0, SendingHeld
  <2> QED BY <2>1, <2>2, RequestsStep
<1>3. ASSUME NEW h, SendMessage(h)
      PROVE  Inv'
  <2>1. Held(Sending(Now, h, "Send", 0))
    BY <1>0, SendingHeld
  <2>2. Held(Sending(Sending(Now, h, "OwnRead", LastMessage), h, "Send", 0))
    BY <1>0, SendingHeld
  <2>3. CASE Becomes(Sending(Now, h, "Send", 0))
    BY <1>3, <2>1, <2>3, RequestsStep DEF SendMessage
  <2>4. CASE Becomes(Sending(Sending(Now, h, "OwnRead", LastMessage), h, "Send", 0))
    BY <1>3, <2>2, <2>4, RequestsStep DEF SendMessage
  <2> QED BY <1>3, <2>3, <2>4 DEF SendMessage
<1>4. ASSUME NEW h, SendPendingReadInbox(h)
      PROVE  Inv'
  BY <1>4, SendPendingInv DEF SendPendingReadInbox
<1>5. ASSUME NEW h, RequestDialogEntry(h)
      PROVE  Inv'
  <2>1. Held(RequestingEntry(Now, h))
    BY <1>0, RequestingHeld
  <2> QED BY <1>5, <2>1, RequestsStep DEF RequestDialogEntry
<1>6. ASSUME NEW r, Cancel(r)
      PROVE  Inv'
  <2> DEFINE q == [Now EXCEPT !.postponed = @ \ {r}]
  <2>1. Held(q)
    BY <1>0 DEF Held, IsQueue
  <2>2. Becomes(Finishing(q, r)) /\ UNCHANGED reads
    BY <1>6 DEF Cancel
  <2> HIDE DEF q
  <2> QED BY <2>1, <2>2, FinishingHeld, RequestsStep
<1>7. ASSUME NEW r, AnswerSimple(r)
      PROVE  Inv'
  <2>1. Held(Answered(Now, r))
    BY <1>0, AskingHeld DEF Answered
  <2>2. Held(Finishing(Answered(Now, r), r))
    BY <2>1, FinishingHeld
  <2>3. Held(Finishing(Sending(Answered(Now, r), home[r], "Delete", 0), r))
    BY <2>1, SendingHeld, FinishingHeld
  <2>4. CASE Becomes(Finishing(Answered(Now, r), r))
    BY <1>7, <2>2, <2>4, RequestsStep DEF AnswerSimple
  <2>5. CASE Becomes(Finishing(Sending(Answered(Now, r), home[r], "Delete", 0), r))
    BY <1>7, <2>3, <2>5, RequestsStep DEF AnswerSimple
  <2> QED BY <1>7, <2>4, <2>5 DEF AnswerSimple
<1>8. ASSUME NEW r, AnswerUnfinished(r)
      PROVE  Inv'
  <2>1. Held(Answered(Now, r))
    BY <1>0, AskingHeld DEF Answered
  <2> QED BY <1>8, <2>1, RequestsStep DEF AnswerUnfinished
<1>9. ASSUME NEW r, ServerReads(r)
      PROVE  Inv'
  BY <1>9 DEF ServerReads, Inv, ReadTypes, ReadsGrow, ReadsWatched, EntryHeld, reads
<1>10. ASSUME NEW b, AnswerEntries(b) \/ EntriesRefused(b)
       PROVE  Inv'
  BY <1>10, EntriesAppliedInv DEF AnswerEntries, EntriesRefused
<1>11. CASE ToggleSendReads \/ \E b \in Batches : ServerReturns(b)
  BY <1>11, OtherStep DEF ToggleSendReads, ServerReturns
<1>12. CASE UNCHANGED vars
  BY <1>12, OtherStep DEF vars
<1> QED
  BY <1>1, <1>2, <1>3, <1>4, <1>5, <1>6, <1>7, <1>8, <1>9, <1>10, <1>11, <1>12,
     ReadInboxTillInv, AnswerReadInv, ReadTimerFiresInv, SendDialogRequestsInv,
     ReadElsewhereInv
  DEF Next, Users, System

-----------------------------------------------------------------------------
(* The order of the requests, as long as reads are always sent             *)

\* A request that is not known is nowhere, one that is asked has been sent, those that
\* wait are for messages, and no deletion of their chat has been sent with them.
Apart(q) ==
    /\ IsQueue(q)
    /\ DOMAIN q.type = Requests /\ DOMAIN q.home = Requests /\ DOMAIN q.net = Requests
    /\ q.till \in [Requests -> Tills]
    /\ q.sent \subseteq Requests /\ q.postponed \subseteq Requests
    /\ \A r \in Requests :
          q.type[r] = "none" => r \notin q.sent /\ r \notin q.postponed /\ q.net[r] = "none"
    /\ \A r \in Requests : q.net[r] # "none" => r \in q.sent
    /\ \A r \in q.postponed : q.type[r] = "History"
    /\ \A r, p \in q.sent :
          q.type[r] = "History" /\ q.type[p] \in Deletes => q.home[r] # q.home[p]

\* The requests p that tell the server what is read are all in q.
NoNewReads(p, q) ==
    \A r \in Requests : p.type[r] = "ReadInbox" /\ p.net[r] # "none" =>
        /\ q.type[r] = "ReadInbox" /\ q.net[r] # "none"
        /\ p.home[r] = q.home[r] /\ p.till[r] = q.till[r]

\* What the server is being told is not beyond what was sent last, or what is read if
\* that was forgotten, nor beyond what it will be told.
Ordered(q, at, done, will) ==
    \A r \in Requests : q.type[r] = "ReadInbox" /\ q.net[r] # "none" =>
        /\ q.home[r] \in Chats
        /\ done[q.home[r]] = 0 => q.till[r] <= at[q.home[r]]
        /\ done[q.home[r]] # 0 => q.till[r] <= done[q.home[r]]
        /\ will[q.home[r]] # 0 => q.till[r] <= will[q.home[r]]

\* Requests that are dropped leave the others as they were.
LEMMA CancellingApart ==
    ASSUME NEW q, Apart(q), NEW some
    PROVE  /\ Apart(Cancelling(q, some)) /\ NoNewReads(Cancelling(q, some), q)
           /\ Free(Cancelling(q, some)) = Free(q)
BY DEF Apart, IsQueue, NoNewReads, Cancelling, Free

\* A request for an entry is none for messages.
LEMMA RequestingApart ==
    ASSUME NEW q, Apart(q), NEW h
    PROVE  /\ Apart(RequestingEntry(q, h)) /\ NoNewReads(RequestingEntry(q, h), q)
           /\ Free(RequestingEntry(q, h)) = Free(q)
BY DEF Apart, IsQueue, NoNewReads, RequestingEntry, Free

\* sendRequest(): a deletion takes the place of the requests for messages.
LEMMA SendingApart ==
    ASSUME NEW q, Apart(q), Free(q) # {}, NEW h, NEW what \in Types \ {"ReadInbox"},
           NEW upTo \in Tills
    PROVE  Apart(Sending(q, h, what, upTo)) /\ NoNewReads(Sending(q, h, what, upTo), q)
<1> DEFINE r == CHOOSE r \in Free(q) : TRUE
           new == [q EXCEPT !.type[r] = what, !.home[r] = h, !.till[r] = upTo]
           now == Asking([new EXCEPT !.sent = @ \cup {r}], {r})
           again == IF PostponesHistory(now, h) THEN Of(now, h, {"History"}) ELSE {}
           late == IF PostponesEntry(now, h) /\ h \in new.entries
                   THEN now.entryPostponed \cup {h} ELSE now.entryPostponed
           after == [now EXCEPT !.entryPostponed = late, !.sent = @ \ again,
                                !.postponed = @ \cup again]
           waits == [new EXCEPT !.postponed = @ \cup {r}]
<1>1. r \in Requests /\ q.type[r] = "none" /\ r \notin q.sent /\ q.net[r] = "none"
  BY DEF Free, Apart
<1>2. what # "none" /\ what # "ReadInbox"
  BY DEF Types
<1> HIDE DEF r
<1>3. /\ IsQueue(new) /\ new.sent = q.sent /\ new.postponed = q.postponed /\ new.net = q.net
      /\ DOMAIN new.type = Requests /\ DOMAIN new.home = Requests
      /\ new.till \in [Requests -> Tills]
      /\ new.type[r] = what /\ new.home[r] = h
      /\ \A x \in Requests \ {r} :
            new.type[x] = q.type[x] /\ new.home[x] = q.home[x] /\ new.till[x] = q.till[x]
  BY <1>1 DEF Apart, IsQueue
<1> HIDE DEF new
<1>4. CASE what = "History" /\ PostponesHistory(q, h)
  <2>1. Sending(q, h, what, upTo) = waits
    BY <1>4 DEF Sending, new, r
  <2>2. /\ IsQueue(waits) /\ waits.sent = q.sent /\ waits.postponed = q.postponed \cup {r}
        /\ waits.net = q.net /\ waits.type = new.type /\ waits.home = new.home
        /\ waits.till = new.till
    BY <1>3 DEF IsQueue
  <2> HIDE DEF waits
  <2>3. Apart(waits) /\ NoNewReads(waits, q)
    BY <1>1, <1>2, <1>3, <1>4, <2>2 DEF Apart, NoNewReads
  <2> QED BY <2>1, <2>3
<1>5. CASE ~(what = "History" /\ PostponesHistory(q, h))
  <2>1. Sending(q, h, what, upTo) = Cancelling(after, again)
    <3>1. Sending(q, h, what, upTo) = SendingNow(new, h, r)
      BY <1>5 DEF Sending, new, r
    <3> QED BY <3>1 DEF SendingNow
  <2>2. /\ IsQueue(now) /\ now.sent = q.sent \cup {r} /\ now.postponed = q.postponed
        /\ now.type = new.type /\ now.home = new.home /\ now.till = new.till
        /\ DOMAIN now.net = Requests
        /\ \A x \in Requests \ {r} : now.net[x] = q.net[x]
    BY <1>1, <1>3 DEF IsQueue, Asking, Apart
  <2> HIDE DEF now
  <2>3. /\ again \subseteq now.sent
        /\ \A x \in again : now.type[x] = "History"
        /\ (\E x \in now.sent : now.home[x] = h /\ now.type[x] \in Deletes)
              => \A x \in now.sent : now.home[x] = h /\ now.type[x] = "History" => x \in again
    BY DEF Of, PostponesHistory
  <2>4. what = "History" => ~\E x \in q.sent : q.home[x] = h /\ q.type[x] \in Deletes
    BY <1>5 DEF PostponesHistory, Of
  <2> DEFINE end == Cancelling(after, again)
  <2>5. /\ IsQueue(end) /\ end.sent = now.sent \ again /\ end.postponed = now.postponed \cup again
        /\ end.type = now.type /\ end.home = now.home /\ end.till = now.till
        /\ DOMAIN end.net = Requests
        /\ \A x \in Requests : end.net[x] = IF x \in again THEN "none" ELSE now.net[x]
    <3> HIDE DEF again, late
    <3> QED BY <2>2 DEF IsQueue, Cancelling
  <2> HIDE DEF end, again, after
  <2>6. /\ \A x \in Requests : end.type[x] = "none" =>
              x \notin end.sent /\ x \notin end.postponed /\ end.net[x] = "none"
        /\ \A x \in Requests : end.net[x] # "none" => x \in end.sent
        /\ \A x \in end.postponed : end.type[x] = "History"
    BY <1>1, <1>2, <1>3, <2>2, <2>3, <2>5 DEF Apart
  <2>7. ASSUME NEW x \in end.sent, NEW p \in end.sent,
               end.type[x] = "History", end.type[p] \in Deletes, end.home[x] = end.home[p]
        PROVE  FALSE
    <3>1. x \in now.sent /\ p \in now.sent /\ x \notin again
      BY <2>5
    <3>2. x = r \/ p = r
      BY <1>3, <2>2, <2>5, <2>7, <3>1 DEF Apart
    <3>3. CASE x = r
      BY <1>1, <1>3, <2>2, <2>4, <2>5, <2>7, <3>1, <3>3 DEF Deletes, Apart
    <3>4. CASE p = r
      BY <1>3, <2>2, <2>3, <2>5, <2>7, <3>1, <3>4
    <3> QED BY <3>2, <3>3, <3>4
  <2>8. Apart(end)
    BY <1>1, <1>3, <2>2, <2>3, <2>5, <2>6, <2>7 DEF Apart
  <2>9. NoNewReads(end, q)
    BY <1>1, <1>2, <1>3, <2>2, <2>5 DEF NoNewReads
  <2> QED BY <2>1, <2>8, <2>9 DEF end
<1> QED BY <1>4, <1>5

\* finishSentRequest() sends the requests for messages after the last deletion.
LEMMA FinishingApart ==
    ASSUME NEW q, Apart(q), NEW r
    PROVE  Apart(Finishing(q, r)) /\ NoNewReads(Finishing(q, r), q)
<1> DEFINE less == [q EXCEPT !.sent = @ \ {r}]
           done == Cancelling(less, {r} \cap q.sent)
           h == q.home[r]
<1>1. Apart(done) /\ NoNewReads(done, q)
  BY DEF Apart, IsQueue, NoNewReads, Cancelling
<1> HIDE DEF done, h
<1>2. Apart(Resending(done, h)) /\ NoNewReads(Resending(done, h), done)
  <2>1. CASE PostponesHistory(done, h)
    BY <1>1, <2>1 DEF Resending, NoNewReads
  <2>2. CASE ~PostponesHistory(done, h)
    <3> DEFINE waited == {p \in done.postponed : done.home[p] = h}
               s == [done EXCEPT !.sent = @ \cup waited, !.postponed = @ \ waited]
               a == Asking(s, waited)
    <3>1. Resending(done, h) = a
      BY <2>2 DEF Resending
    <3>2. /\ IsQueue(a) /\ a.sent = done.sent \cup waited /\ a.postponed = done.postponed \ waited
          /\ a.type = done.type /\ a.home = done.home /\ a.till = done.till
          /\ DOMAIN a.net = Requests
          /\ \A x \in Requests : a.net[x] = IF x \in waited THEN "asked" ELSE done.net[x]
      <4> HIDE DEF waited
      <4> QED BY <1>1 DEF Apart, IsQueue, Asking
    <3>3. /\ waited \subseteq done.postponed
          /\ \A x \in waited : done.type[x] = "History" /\ done.home[x] = h
      BY <1>1 DEF Apart
    <3>4. \A x \in done.sent : done.home[x] = h => done.type[x] \notin Deletes
      BY <2>2 DEF PostponesHistory, Of
    <3> HIDE DEF a, waited
    <3>5. Apart(a)
      BY <1>1, <3>2, <3>3, <3>4 DEF Apart, Deletes
    <3>6. NoNewReads(a, done)
      BY <1>1, <3>2, <3>3 DEF NoNewReads
    <3> QED BY <3>1, <3>5, <3>6
  <2> QED BY <2>1, <2>2
<1> DEFINE resent == Resending(done, h)
<1> HIDE DEF resent
<1>3. Apart(EntryAgain(resent, h)) /\ NoNewReads(EntryAgain(resent, h), resent)
  <2> DEFINE again == RequestingEntry([resent EXCEPT !.entries = @ \ {h}], h)
  <2>1. /\ IsQueue(again) /\ again.sent = resent.sent /\ again.postponed = resent.postponed
        /\ again.type = resent.type /\ again.home = resent.home /\ again.till = resent.till
        /\ again.net = resent.net
    BY <1>2 DEF Apart, IsQueue, RequestingEntry, resent
  <2> HIDE DEF again
  <2>2. \/ EntryAgain(resent, h) = resent
        \/ EntryAgain(resent, h) = [again EXCEPT !.entryPostponed = @ \ {h}]
    BY DEF EntryAgain, again
  <2>3. Apart(resent)
    BY <1>2 DEF resent
  <2>4. CASE EntryAgain(resent, h) = [again EXCEPT !.entryPostponed = @ \ {h}]
    <3> DEFINE e == [again EXCEPT !.entryPostponed = @ \ {h}]
    <3>1. /\ IsQueue(e) /\ e.sent = resent.sent /\ e.postponed = resent.postponed
          /\ e.type = resent.type /\ e.home = resent.home /\ e.till = resent.till
          /\ e.net = resent.net
      BY <2>1 DEF IsQueue
    <3> HIDE DEF e
    <3>2. Apart(e) /\ NoNewReads(e, resent)
      BY <2>3, <3>1 DEF Apart, NoNewReads
    <3> QED BY <2>4, <3>2 DEF e
  <2> QED BY <2>2, <2>3, <2>4 DEF NoNewReads
<1>4. Finishing(q, r) = EntryAgain(resent, h)
  BY DEF Finishing, done, h, resent
<1> QED BY <1>1, <1>2, <1>3, <1>4 DEF NoNewReads, resent

\* A read is told with a request of its own, up to what is to be read.
LEMMA ToldApart ==
    ASSUME NEW q, Apart(q), sendReads, NEW now, Injection(now, Free(q)) # {},
           NEW will \in [Chats -> Tills], now \subseteq Chats
    PROVE  /\ Apart(Told(q, will, now))
           /\ \A r \in Requests :
                 LET t == Told(q, will, now)
                 IN  t.type[r] = "ReadInbox" /\ t.net[r] # "none" =>
                       \/ t.home[r] \in now /\ t.till[r] = will[t.home[r]]
                       \/ /\ q.type[r] = "ReadInbox" /\ q.net[r] # "none"
                          /\ t.home[r] = q.home[r] /\ t.till[r] = q.till[r]
<1> DEFINE request == CHOOSE f \in Injection(now, Free(q)) : TRUE
           read == {request[h] : h \in now}
           new == [r \in read |-> CHOOSE h \in now : request[h] = r]
           told == [q EXCEPT
              !.type = [r \in Requests |-> IF r \in read THEN "ReadInbox" ELSE @[r]],
              !.home = [r \in Requests |-> IF r \in read THEN new[r] ELSE @[r]],
              !.till = [r \in Requests |-> IF r \in read THEN will[new[r]] ELSE @[r]],
              !.sent = @ \cup read,
              !.entryPostponed = @ \cup (now \cap q.entries)]
           t == Asking(told, read)
<1>1. Told(q, will, now) = t
  BY DEF Told
<1>2. request \in [now -> Free(q)]
  BY DEF Injection
<1> HIDE DEF request
<1>3. read \subseteq Free(q) /\ \A r \in read : new[r] \in now
  BY <1>2
<1>4. \A r \in read :
         /\ r \in Requests /\ q.type[r] = "none" /\ r \notin q.sent /\ r \notin q.postponed
         /\ new[r] \in Chats
  BY <1>3 DEF Free, Apart
<1>5. /\ IsQueue(t) /\ t.sent = q.sent \cup read /\ t.postponed = q.postponed
      /\ DOMAIN t.type = Requests /\ DOMAIN t.home = Requests /\ DOMAIN t.net = Requests
      /\ DOMAIN t.till = Requests
      /\ t.till = [r \in Requests |-> IF r \in read THEN will[new[r]] ELSE q.till[r]]
      /\ \A r \in read : /\ t.type[r] = "ReadInbox" /\ t.home[r] = new[r]
                         /\ t.till[r] = will[new[r]] /\ t.net[r] = "asked"
      /\ \A r \in Requests \ read : /\ t.type[r] = q.type[r] /\ t.home[r] = q.home[r]
                                    /\ t.till[r] = q.till[r] /\ t.net[r] = q.net[r]
  <2> HIDE DEF read, new
  <2> QED BY <1>4 DEF IsQueue, Asking, Apart
<1> HIDE DEF t, told, new, read
<1>6. t.till \in [Requests -> Tills]
  BY <1>4, <1>5 DEF Apart
<1>7. Apart(t)
  BY SMTT(30), <1>4, <1>5, <1>6 DEF Apart, Deletes
<1>8. ASSUME NEW r \in Requests, t.type[r] = "ReadInbox", t.net[r] # "none"
      PROVE  \/ t.home[r] \in now /\ t.till[r] = will[t.home[r]]
             \/ /\ q.type[r] = "ReadInbox" /\ q.net[r] # "none"
                /\ t.home[r] = q.home[r] /\ t.till[r] = q.till[r]
  BY <1>3, <1>5, <1>8
<1> QED BY <1>1, <1>7, <1>8

\* A read that is told is later than all that are under way.
LEMMA ToldOrdered ==
    ASSUME NEW q, Apart(q), sendReads, NEW now, Injection(now, Free(q)) # {},
           NEW will \in [Chats -> Tills], NEW done \in [Chats -> Tills], NEW at,
           now \subseteq Chats, \A h \in now : will[h] # 0,
           Ordered(q, at, done, will)
    PROVE  Ordered(Told(q, will, now), at,
                   [h \in Chats |-> IF h \in now THEN will[h] ELSE done[h]],
                   [h \in Chats |-> IF h \in now THEN 0 ELSE will[h]])
<1> DEFINE t == Told(q, will, now)
<1>1. /\ Apart(t)
      /\ \A r \in Requests : t.type[r] = "ReadInbox" /\ t.net[r] # "none" =>
              \/ t.home[r] \in now /\ t.till[r] = will[t.home[r]]
              \/ /\ q.type[r] = "ReadInbox" /\ q.net[r] # "none"
                 /\ t.home[r] = q.home[r] /\ t.till[r] = q.till[r]
  BY ToldApart
<1> HIDE DEF t
<1>2. \A h \in Chats : will[h] \in Int
  BY HistoriesAssumption DEF Tills, Messages
<1>3. ASSUME NEW r \in Requests, t.type[r] = "ReadInbox", t.net[r] # "none",
             t.home[r] \in now, t.till[r] = will[t.home[r]]
      PROVE  /\ t.home[r] \in Chats /\ will[t.home[r]] # 0
             /\ t.till[r] <= will[t.home[r]]
  BY <1>2, <1>3
<1>4. ASSUME NEW r \in Requests, t.type[r] = "ReadInbox", t.net[r] # "none",
             q.type[r] = "ReadInbox", q.net[r] # "none",
             t.home[r] = q.home[r], t.till[r] = q.till[r]
      PROVE  /\ t.home[r] \in Chats
             /\ done[t.home[r]] = 0 => t.till[r] <= at[t.home[r]]
             /\ done[t.home[r]] # 0 => t.till[r] <= done[t.home[r]]
             /\ will[t.home[r]] # 0 => t.till[r] <= will[t.home[r]]
  BY <1>4 DEF Ordered
<1>5. Ordered(t, at, [h \in Chats |-> IF h \in now THEN will[h] ELSE done[h]],
                     [h \in Chats |-> IF h \in now THEN 0 ELSE will[h]])
  <2> SUFFICES ASSUME NEW r \in Requests, t.type[r] = "ReadInbox", t.net[r] # "none"
               PROVE
      LET sentNow == [h \in Chats |-> IF h \in now THEN will[h] ELSE done[h]]
          willNow == [h \in Chats |-> IF h \in now THEN 0 ELSE will[h]]
      IN  /\ t.home[r] \in Chats
          /\ sentNow[t.home[r]] = 0 => t.till[r] <= at[t.home[r]]
          /\ sentNow[t.home[r]] # 0 => t.till[r] <= sentNow[t.home[r]]
          /\ willNow[t.home[r]] # 0 => t.till[r] <= willNow[t.home[r]]
    BY DEF Ordered
  <2>1. CASE t.home[r] \in now /\ t.till[r] = will[t.home[r]]
    BY <1>3, <2>1
  <2>2. CASE /\ q.type[r] = "ReadInbox" /\ q.net[r] # "none"
             /\ t.home[r] = q.home[r] /\ t.till[r] = q.till[r]
    BY <1>4, <2>2
  <2> QED BY <1>1, <2>1, <2>2
<1> QED BY <1>5 DEF t

\* Fewer reads under way, and more that is read, leave the order.
LEMMA StaysOrdered ==
    ASSUME NEW q, NEW p, NoNewReads(p, q), NEW at \in [Chats -> Tills],
           NEW new \in [Chats -> Tills], \A h \in Chats : new[h] >= at[h],
           q.till \in [Requests -> Tills],
           NEW done, NEW will, Ordered(q, at, done, will)
    PROVE  Ordered(p, new, done, will)
<1> SUFFICES ASSUME NEW r \in Requests, p.type[r] = "ReadInbox", p.net[r] # "none"
             PROVE  /\ p.home[r] \in Chats
                    /\ done[p.home[r]] = 0 => p.till[r] <= new[p.home[r]]
                    /\ done[p.home[r]] # 0 => p.till[r] <= done[p.home[r]]
                    /\ will[p.home[r]] # 0 => p.till[r] <= will[p.home[r]]
  BY DEF Ordered
<1>1. /\ q.type[r] = "ReadInbox" /\ q.net[r] # "none"
      /\ p.home[r] = q.home[r] /\ p.till[r] = q.till[r]
  BY DEF NoNewReads
<1>2. /\ p.home[r] \in Chats
      /\ done[p.home[r]] = 0 => p.till[r] <= at[p.home[r]]
      /\ done[p.home[r]] # 0 => p.till[r] <= done[p.home[r]]
      /\ will[p.home[r]] # 0 => p.till[r] <= will[p.home[r]]
  BY <1>1 DEF Ordered
<1>3. p.till[r] \in Int /\ new[p.home[r]] \in Int /\ at[p.home[r]] \in Int
  BY <1>1, <1>2, HistoriesAssumption DEF Tills, Messages
<1> QED BY <1>2, <1>3

\* What was read, what the server was told and what it answered.
Positions ==
    /\ position \in [Chats -> Tills]
    /\ serverTill \in [Chats -> Tills]
    /\ \A b \in Batches : batches[b].read # <<>> => batches[b].read \in [Chats -> Tills]

\* What is preserved as long as reads are always sent.
OrderInv ==
    alwaysSent => /\ sendReads
                  /\ Positions
                  /\ Apart(Now)
                  /\ Ordered(Now, position, sentTill, willTill)

\* The later of two positions.
LEMMA MaxOfTwo ==
    ASSUME NEW a \in Tills, NEW b \in Tills
    PROVE  Max({a, b}) \in Tills /\ Max({a, b}) >= a /\ Max({a, b}) >= b
<1>1. a \in Int /\ b \in Int
  BY HistoriesAssumption DEF Tills, Messages
<1>2. \E x \in {a, b} : \A y \in {a, b} : x >= y
  BY <1>1
<1>3. Max({a, b}) \in {a, b} /\ \A y \in {a, b} : Max({a, b}) >= y
  BY <1>2 DEF Max
<1> QED BY <1>3

\* What a history tells of its unread messages.
IsLocal(l) == l = [position |-> l.position, count |-> l.count] /\ l.position \in Tills

\* setInboxReadTill() takes the position to a message, or leaves it beyond.
LEMMA UntilIs ==
    ASSUME NEW l, IsLocal(l), NEW t \in Tills
    PROVE  /\ IsLocal(Until(l, t)) /\ Until(l, t).count = l.count
           /\ Until(l, t).position = Max({l.position, t})
           /\ Until(l, t).position >= l.position /\ Until(l, t).position >= t
           /\ Until(l, t).position \in {l.position, t}
<1>1. l.position \in Tills /\ l = [position |-> l.position, count |-> l.count]
  BY DEF IsLocal
<1> DEFINE x == Max({l.position, t})
<1>2. x \in Tills /\ x >= l.position /\ x >= t
  BY <1>1, MaxOfTwo
<1>3. x \in {l.position, t}
  <2>1. \A a \in Tills : a \in Int
    BY HistoriesAssumption DEF Tills, Messages
  <2>2. \E a \in {l.position, t} : \A b \in {l.position, t} : a >= b
    BY <1>1, <2>1
  <2> QED BY <2>2 DEF Max
<1>4. Until(l, t) = [l EXCEPT !.position = x]
  BY <1>1 DEF Until
<1> HIDE DEF x
<1>5. Until(l, t) = [position |-> x, count |-> l.count]
  BY <1>1, <1>4
<1>6. Until(l, t).position = x /\ Until(l, t).count = l.count
  BY <1>5
<1> QED BY <1>2, <1>3, <1>5, <1>6 DEF IsLocal, x

\* setUnreadCount() leaves the position, or takes it to the end.
LEMMA CountingIs ==
    ASSUME NEW l, IsLocal(l), NEW n, NEW ahead
    PROVE  /\ IsLocal(Counting(l, n, ahead)) /\ Counting(l, n, ahead).count = n
           /\ Counting(l, n, ahead).position >= l.position
           /\ \/ Counting(l, n, ahead).position = l.position
              \/ n = 0 /\ Counting(l, n, ahead).position = LastMessage
              \/ n = 1 /\ Counting(l, n, ahead).position = LastMessage - 1
<1>1. l.position \in Tills /\ l.position \in Int /\ l = [position |-> l.position, count |-> l.count]
  BY HistoriesAssumption DEF IsLocal, Tills, Messages
<1> DEFINE k == Counting(l, n, ahead)
<1>2. CASE ahead /\ n # l.count /\ n \in {0, 1}
  <2> DEFINE u == Until(l, LastMessage - n)
  <2>1. LastMessage - n \in Tills
    BY <1>2, HistoriesAssumption DEF Tills, Messages
  <2>2. IsLocal(u) /\ u.position >= l.position /\ u.position \in {l.position, LastMessage - n}
    BY <2>1, UntilIs
  <2>3. k = [u EXCEPT !.count = n]
    BY <1>2 DEF Counting
  <2> HIDE DEF u, k
  <2>4. k = [position |-> u.position, count |-> n]
    BY <2>2, <2>3 DEF IsLocal
  <2>5. k.position = u.position /\ k.count = n
    BY <2>4
  <2>6. IsLocal(k)
    BY <2>2, <2>4, <2>5 DEF IsLocal
  <2>7. \/ k.position = l.position
        \/ n = 0 /\ k.position = LastMessage
        \/ n = 1 /\ k.position = LastMessage - 1
    BY <1>2, <2>2, <2>5, HistoriesAssumption
  <2> QED BY <2>2, <2>5, <2>6, <2>7 DEF k
<1>3. CASE ~(ahead /\ n # l.count /\ n \in {0, 1})
  <2>1. k = [l EXCEPT !.count = n]
    BY <1>3 DEF Counting
  <2> HIDE DEF k
  <2>2. k = [position |-> l.position, count |-> n]
    BY <1>1, <2>1
  <2>3. k.position = l.position /\ k.count = n
    BY <2>2
  <2>4. IsLocal(k)
    BY <1>1, <2>2, <2>3 DEF IsLocal
  <2> QED BY <1>1, <2>3, <2>4 DEF k
<1> QED BY <1>2, <1>3

\* The syncGuard of readInboxTill() does nothing but for the last message.
LEMMA SyncedIs ==
    ASSUME NEW l, IsLocal(l), NEW t, NEW last, NEW ahead
    PROVE  /\ IsLocal(Synced(l, t, last, ahead))
           /\ Synced(l, t, last, ahead).position >= l.position
           /\ \/ Synced(l, t, last, ahead) = l
              \/ /\ t = LastMessage /\ l.count > 0 /\ Synced(l, t, last, ahead).count = 0
                 /\ Synced(l, t, last, ahead).position \in {l.position, LastMessage}
<1>1. l.position \in Int
  BY HistoriesAssumption DEF IsLocal, Tills, Messages
<1>2. CASE last /\ t = LastMessage /\ l.count > 0
  <2> DEFINE k == Counting(l, 0, ahead)
  <2>1. /\ IsLocal(k) /\ k.count = 0 /\ k.position >= l.position
        /\ k.position = l.position \/ k.position = LastMessage
    BY CountingIs
  <2>2. Synced(l, t, last, ahead) = k
    BY <1>2 DEF Synced
  <2> QED BY <1>2, <2>1, <2>2
<1>3. CASE ~(last /\ t = LastMessage /\ l.count > 0)
  <2>1. Synced(l, t, last, ahead) = l
    BY <1>3 DEF Synced
  <2> QED BY <1>1, <2>1
<1> QED BY <1>2, <1>3

\* The local state of one chat becomes another one, not an earlier one.
LocalGoes(h, x, c) ==
    /\ x \in Tills /\ x >= position[h]
    /\ position' = [position EXCEPT ![h] = x] /\ count' = [count EXCEPT ![h] = c]

\* What is marked as read: until t, unless what is left is at the end.
LEMMA MarkReadIs ==
    ASSUME NEW h, position[h] \in Tills, NEW t \in Messages, NEW left, MarkRead(h, t, left)
    PROVE  \E x, c : /\ LocalGoes(h, x, c) /\ x >= t
                     /\ c = left \/ (t = LastMessage /\ left > 0 /\ c = 0)
                     /\ \/ x = Max({position[h], t})
                        \/ left = 0 /\ x = LastMessage
                        \/ left = 1 /\ x = LastMessage - 1
<1>1. PICK last, ahead \in BOOLEAN :
          LocalBecomes(h, Synced(Counting(Until(Local(h), t), left, ahead), t, last, ahead))
  BY DEF MarkRead
<1> DEFINE u == Until(Local(h), t)
           k == Counting(u, left, ahead)
           s == Synced(k, t, last, ahead)
<1>2. IsLocal(Local(h)) /\ Local(h).position = position[h] /\ t \in Tills
  BY DEF IsLocal, Local, Tills
<1>3. /\ IsLocal(u) /\ u.position = Max({position[h], t})
      /\ u.position >= position[h] /\ u.position >= t
  BY <1>2, UntilIs
<1> HIDE DEF u
<1>4. /\ IsLocal(k) /\ k.count = left /\ k.position >= u.position
      /\ \/ k.position = u.position
         \/ left = 0 /\ k.position = LastMessage
         \/ left = 1 /\ k.position = LastMessage - 1
  BY <1>3, CountingIs
<1> HIDE DEF k
<1>5. /\ IsLocal(s) /\ s.position >= k.position
      /\ s = k \/ (/\ t = LastMessage /\ k.count > 0 /\ s.count = 0
                   /\ s.position \in {k.position, LastMessage})
  BY <1>4, SyncedIs
<1>6. /\ position' = [position EXCEPT ![h] = s.position]
      /\ count' = [count EXCEPT ![h] = s.count]
  BY <1>1 DEF LocalBecomes, s, k, u
<1> HIDE DEF s
<1>7. /\ u.position \in Tills /\ k.position \in Tills /\ s.position \in Tills
      /\ \A a \in Tills : a \in Int /\ a <= LastMessage
  BY <1>3, <1>4, <1>5, HistoriesAssumption DEF IsLocal, Tills, Messages
<1>8. s.position >= position[h] /\ s.position >= t
  BY <1>2, <1>3, <1>4, <1>5, <1>7
<1>9. t = LastMessage => s.position = u.position
  <2> SUFFICES ASSUME t = LastMessage PROVE s.position = u.position
    OBVIOUS
  <2>1. u.position >= LastMessage /\ k.position >= u.position /\ s.position >= k.position
    BY <1>3, <1>4, <1>5
  <2>2. u.position \in Int /\ k.position \in Int /\ s.position \in Int /\ LastMessage \in Int
    BY <1>7, HistoriesAssumption
  <2>3. s.position <= LastMessage /\ u.position <= LastMessage
    BY <1>7
  <2> QED BY <2>1, <2>2, <2>3
<1>10. \/ s.position = u.position
       \/ left = 0 /\ s.position = LastMessage
       \/ left = 1 /\ s.position = LastMessage - 1
  <2>1. CASE s = k
    BY <1>4, <2>1
  <2>2. CASE t = LastMessage
    BY <1>9, <2>2
  <2> QED BY <1>5, <2>1, <2>2
<1>11. s.count = left \/ (t = LastMessage /\ left > 0 /\ s.count = 0)
  BY <1>4, <1>5
<1>12. LocalGoes(h, s.position, s.count)
  BY <1>6, <1>7, <1>8 DEF LocalGoes
<1> QED BY <1>3, <1>8, <1>10, <1>11, <1>12

\* What the syncGuard alone does.
LEMMA OnlySyncIs ==
    ASSUME NEW h \in Chats, position \in [Chats -> Tills], count = [g \in Chats |-> count[g]],
           NEW t \in Messages, OnlySync(h, t)
    PROVE  \/ position' = position /\ count' = count
           \/ /\ t = LastMessage /\ count[h] > 0
              /\ \E x \in {position[h], LastMessage} : LocalGoes(h, x, 0)
<1>1. PICK last, ahead \in BOOLEAN : LocalBecomes(h, Synced(Local(h), t, last, ahead))
  BY DEF OnlySync
<1> DEFINE l == Local(h)
           s == Synced(l, t, last, ahead)
<1>2. IsLocal(l) /\ l.position = position[h] /\ l.count = count[h]
  BY DEF IsLocal, Local
<1> HIDE DEF l
<1>3. /\ IsLocal(s) /\ s.position >= l.position
      /\ s = l \/ (/\ t = LastMessage /\ l.count > 0 /\ s.count = 0
                   /\ s.position \in {l.position, LastMessage})
  BY <1>2, SyncedIs
<1>4. /\ position' = [position EXCEPT ![h] = s.position]
      /\ count' = [count EXCEPT ![h] = s.count]
  BY <1>1 DEF LocalBecomes, s, l
<1> HIDE DEF s
<1>5. CASE s = l
  BY <1>2, <1>4, <1>5
<1>6. CASE /\ t = LastMessage /\ l.count > 0 /\ s.count = 0
           /\ s.position \in {l.position, LastMessage}
  BY <1>2, <1>3, <1>4, <1>6 DEF LocalGoes, IsLocal
<1> QED BY <1>3, <1>5, <1>6

\* What holds of the queue holds of what the variables become.
LEMMA BecomesApart ==
    ASSUME NEW STATE q, Apart(q), Becomes(q)
    PROVE  Apart(Now)' /\ NoNewReads(Now', q) /\ Now'.till \in [Requests -> Tills]
<1> DEFINE live == {r \in Requests : r \in q.sent \cup q.postponed \/ q.net[r] # "none"}
<1>1. /\ type' = [r \in Requests |-> IF r \in live THEN q.type[r] ELSE "none"]
      /\ home' = [r \in Requests |-> IF r \in live THEN q.home[r] ELSE 1]
      /\ till' = [r \in Requests |-> IF r \in live THEN q.till[r] ELSE 0]
      /\ net' = q.net /\ sent' = q.sent /\ postponed' = q.postponed
  BY DEF Becomes
<1>2. \A r \in Requests : r \in q.sent \/ r \in q.postponed \/ q.net[r] # "none" => r \in live
  OBVIOUS
<1>3. \A r \in Requests :
         r \notin live => r \notin q.sent /\ r \notin q.postponed /\ q.net[r] = "none"
  OBVIOUS
<1> HIDE DEF live
<1>4. /\ IsQueue(Now') /\ Now'.type = type' /\ Now'.home = home' /\ Now'.till = till'
      /\ Now'.net = net' /\ Now'.sent = sent' /\ Now'.postponed = postponed'
  BY DEF Now, IsQueue
<1>5. till' \in [Requests -> Tills]
  BY <1>1 DEF Apart, Tills
<1>6. Apart(Now')
  <2> DEFINE n == Now'
  <2> HIDE DEF n
  <2>1. /\ IsQueue(n) /\ n.type = type' /\ n.home = home' /\ n.till = till'
        /\ n.net = net' /\ n.sent = sent' /\ n.postponed = postponed'
    BY <1>4 DEF n
  <2>2. Apart(n)
    BY <1>1, <1>2, <1>3, <1>5, <2>1 DEF Apart, Deletes
  <2> QED BY <2>2 DEF n
<1>7. NoNewReads(Now', q)
  BY <1>1, <1>2, <1>4 DEF NoNewReads
<1> QED BY <1>4, <1>5, <1>6, <1>7 DEF Apart, IsQueue

\* The actions that change nothing but the requests.
LEMMA RequestsOrder ==
    ASSUME OrderInv, alwaysSent, NEW STATE q, Apart(q), NoNewReads(q, Now), Becomes(q),
           UNCHANGED <<reads, local, rest>>
    PROVE  OrderInv'
<1>1. Apart(Now)' /\ NoNewReads(Now', q)
  BY BecomesApart
<1>2. sendReads' = sendReads /\ position' = position /\ sentTill' = sentTill
      /\ willTill' = willTill /\ serverTill' = serverTill /\ batches' = batches
  BY DEF reads, local, rest, ghost
<1>3. NoNewReads(Now', Now)
  BY <1>1 DEF NoNewReads
<1>4. Ordered(Now', position, sentTill, willTill)
  BY <1>3 DEF OrderInv, Ordered, NoNewReads
<1>5. Ordered(Now, position, sentTill, willTill)'
  BY <1>2, <1>4
<1> QED BY <1>1, <1>2, <1>5 DEF OrderInv, Positions

\* The actions that change neither the requests nor what was told.
LEMMA PositionsOrder ==
    ASSUME OrderInv, alwaysSent, sendReads' = sendReads, UNCHANGED <<queue, reads>>, Positions',
           \A h \in Chats : position'[h] >= position[h]
    PROVE  OrderInv'
<1>1. /\ Now' = Now /\ sentTill' = sentTill /\ willTill' = willTill
  BY DEF queue, reads, Now
<1>2. Ordered(Now, position', sentTill, willTill)
  <2>1. NoNewReads(Now, Now)
    BY DEF NoNewReads
  <2>2. Now.till \in [Requests -> Tills]
    BY DEF OrderInv, Apart
  <2> QED BY <2>1, <2>2, StaysOrdered DEF OrderInv, Positions
<1>3. Apart(Now)'
  BY <1>1 DEF OrderInv
<1>4. Ordered(Now, position, sentTill, willTill)'
  BY <1>1, <1>2
<1> QED BY <1>3, <1>4 DEF OrderInv

\* sendReadRequests(), and what is done to the requests after it.
LEMMA ToldOrder ==
    ASSUME OrderInv, alwaysSent,
           NEW STATE will, will \in [Chats -> Tills],
           NEW STATE done, done \in [Chats -> Tills],
           NEW STATE late, NEW now \in DueNow(will, late),
           NEW STATE finished, NEW STATE active,
           NEW STATE q, Apart(q), Free(q) = Free(Now),
           NEW STATE p, Apart(p), NoNewReads(p, Told(q, will, now)), Becomes(p),
           ReadsBecome(will, done, finished, now, active),
           sendReads' = sendReads, Positions',
           Ordered(q, position', done, will)
    PROVE  OrderInv'
<1>1. sendReads
  BY DEF OrderInv
<1>2. now \subseteq Chats /\ Injection(now, Free(q)) # {} /\ \A h \in now : will[h] # 0
  BY <1>1 DEF DueNow
<1> DEFINE sentNow == [h \in Chats |-> IF h \in now THEN will[h] ELSE done[h]]
           willNow == [h \in Chats |-> IF h \in now THEN 0 ELSE will[h]]
           t == Told(q, will, now)
<1>3. Apart(t) /\ Ordered(t, position', sentNow, willNow)
  BY <1>1, <1>2, ToldApart, ToldOrdered
<1>4. Apart(Now)' /\ NoNewReads(Now', p)
  BY BecomesApart
<1>5. sentTill' = sentNow /\ willTill' = willNow
  BY <1>1 DEF ReadsBecome
<1> HIDE DEF t, sentNow, willNow
<1>6. Ordered(Now', position', sentNow, willNow)
  BY <1>3, <1>4 DEF NoNewReads, Ordered, t
<1>7. Ordered(Now, position, sentTill, willTill)'
  BY <1>5, <1>6
<1> QED BY <1>1, <1>4, <1>7 DEF OrderInv

\* A read that waited is told in order.
LEMMA SendPendingOrder ==
    ASSUME Inv, OrderInv, alwaysSent, NEW h, SendPending(h), sendReads' = sendReads, Positions',
           \A g \in Chats : position'[g] >= position[g]
    PROVE  OrderInv'
<1>1. CASE UNCHANGED <<queue, reads>>
  BY <1>1, PositionsOrder
<1>2. CASE SendReadRequests(willTill, delayed \ {h})
  <2>1. PICK now \in DueNow(willTill, delayed \ {h}) :
           /\ Becomes(Told(Now, willTill, now))
           /\ ReadsBecome(willTill, sentTill, sentDone, now, timer)
    BY <1>2 DEF SendReadRequests
  <2>2. Apart(Told(Now, willTill, now))
    <3>1. sendReads /\ now \subseteq Chats /\ Injection(now, Free(Now)) # {}
      BY DEF DueNow, OrderInv
    <3> QED BY <3>1, ToldApart DEF OrderInv, Inv, ReadTypes
  <2>3. NoNewReads(Told(Now, willTill, now), Told(Now, willTill, now))
    BY DEF NoNewReads
  <2>4. Ordered(Now, position', sentTill, willTill)
    <3>1. NoNewReads(Now, Now)
      BY DEF NoNewReads
    <3>2. Now.till \in [Requests -> Tills]
      BY DEF OrderInv, Apart
    <3> QED BY <3>1, <3>2, StaysOrdered DEF OrderInv, Positions
  <2> QED BY <2>1, <2>2, <2>3, <2>4, ToldOrder DEF Inv, ReadTypes, OrderInv
<1> QED BY <1>1, <1>2 DEF SendPending

\* What is read now is beyond what the server is being told: either it is beyond what was
\* sent last, or beyond what is read, or beyond what it was to be told.
LEMMA ReadInboxTillOrder ==
    ASSUME Inv, OrderInv, alwaysSent, NEW h \in Chats, NEW t \in Messages,
           NEW force \in BOOLEAN, ReadInboxTill(h, t, force)
    PROVE  OrderInv'
<1>0. t \in Tills /\ t \in Int /\ t # 0
  BY HistoriesAssumption DEF Tills, Messages
<1>1. sendReads' = sendReads /\ batches' = batches /\ serverTill' = serverTill
  BY DEF ReadInboxTill, rest, ghost
<1>2. OnlySync(h, t) \/ \E left : MarkRead(h, t, left)
  BY DEF ReadInboxTill, ReadNow, ReadLater
<1>3. /\ position' \in [Chats -> Tills]
      /\ \A g \in Chats : position'[g] >= position[g]
  <2>1. position \in [Chats -> Tills]
    BY DEF OrderInv, Positions
  <2>2. \A g \in Chats : position[g] \in Int
    BY <2>1, HistoriesAssumption DEF Tills, Messages
  <2>3. position' = position \/ \E x, c : LocalGoes(h, x, c)
    <3>1. CASE \E left : MarkRead(h, t, left)
      BY <2>1, <3>1, MarkReadIs
    <3>2. CASE OnlySync(h, t)
      <4>1. PICK l : LocalBecomes(h, l) /\ IsLocal(l) /\ l.position >= position[h]
        BY <2>1, <3>2, SyncedIs DEF OnlySync, Local, IsLocal
      <4> QED BY <4>1 DEF LocalBecomes, LocalGoes, IsLocal
    <3> QED BY <1>2, <3>1, <3>2
  <2> QED BY <2>1, <2>2, <2>3 DEF LocalGoes
<1>4. Positions'
  BY <1>1, <1>3 DEF OrderInv, Positions
<1>5. CASE UNCHANGED <<queue, reads>>
  BY <1>1, <1>3, <1>4, <1>5, PositionsOrder
<1>6. CASE SendPending(h)
  BY <1>1, <1>3, <1>4, <1>6, SendPendingOrder
<1> DEFINE will == [willTill EXCEPT ![h] = t]
           beyond == /\ ~SentEnough(h, t) /\ ~(willTill[h] >= t)
                     /\ NeedsRequest(h, t) \/ willTill[h] # 0
<1>7. \/ UNCHANGED <<queue, reads>>
      \/ SendPending(h)
      \/ beyond /\ \E still : ReadNow(h, t, still) \/ ReadLater(h, t, still)
  BY DEF ReadInboxTill
<1>8. will \in [Chats -> Tills]
  BY <1>0 DEF Inv, ReadTypes
<1>9. beyond => Ordered(Now, position', sentTill, will)
  <2> SUFFICES ASSUME beyond PROVE Ordered(Now, position', sentTill, will)
    OBVIOUS
  <2>1. NoNewReads(Now, Now)
    BY DEF NoNewReads
  <2>2. Apart(Now) /\ Now.till \in [Requests -> Tills]
    BY DEF OrderInv, Apart
  <2>3. Ordered(Now, position', sentTill, willTill)
    BY <1>3, <2>1, <2>2, StaysOrdered DEF OrderInv, Positions
  <2>4. Ordered(Now, position, sentTill, willTill)
    BY DEF OrderInv
  <2> DEFINE n == Now
  <2> HIDE DEF n
  <2>5. ASSUME NEW r \in Requests, n.type[r] = "ReadInbox", n.net[r] # "none", n.home[r] = h
        PROVE  n.till[r] <= t
    <3>1. n.till[r] \in Int /\ sentTill[h] \in Int /\ willTill[h] \in Int /\ position[h] \in Int
      BY <2>2, HistoriesAssumption
      DEF n, Inv, ReadTypes, OrderInv, Positions, Tills, Messages
    <3>2. /\ sentTill[h] = 0 => n.till[r] <= position[h]
          /\ sentTill[h] # 0 => n.till[r] <= sentTill[h]
          /\ willTill[h] # 0 => n.till[r] <= willTill[h]
      BY <2>4, <2>5 DEF Ordered, n
    <3> QED BY <1>0, <3>1, <3>2 DEF SentEnough, NeedsRequest
  <2>6. Ordered(n, position', sentTill, will)
    <3> SUFFICES ASSUME NEW r \in Requests, n.type[r] = "ReadInbox", n.net[r] # "none"
                 PROVE  /\ n.home[r] \in Chats
                        /\ sentTill[n.home[r]] = 0 => n.till[r] <= position'[n.home[r]]
                        /\ sentTill[n.home[r]] # 0 => n.till[r] <= sentTill[n.home[r]]
                        /\ will[n.home[r]] # 0 => n.till[r] <= will[n.home[r]]
      BY DEF Ordered
    <3>1. /\ n.home[r] \in Chats
          /\ sentTill[n.home[r]] = 0 => n.till[r] <= position'[n.home[r]]
          /\ sentTill[n.home[r]] # 0 => n.till[r] <= sentTill[n.home[r]]
          /\ willTill[n.home[r]] # 0 => n.till[r] <= willTill[n.home[r]]
      BY <2>3 DEF Ordered, n
    <3>2. CASE n.home[r] = h
      BY <2>5, <3>1, <3>2 DEF Inv, ReadTypes
    <3>3. CASE n.home[r] # h
      BY <3>1, <3>3 DEF Inv, ReadTypes
    <3> QED BY <3>1, <3>2, <3>3
  <2> QED BY <2>6 DEF n
<1> HIDE DEF will
<1>10. ASSUME beyond, NEW still, ReadNow(h, t, still)
       PROVE  OrderInv'
  <2>1. PICK now \in DueNow(will, delayed \ {h}) :
           /\ Becomes(Told(Now, will, now))
           /\ ReadsBecome(will, sentTill, sentDone, now, timer)
    BY <1>10 DEF ReadNow, SendReadRequests, will
  <2>2. Apart(Told(Now, will, now))
    <3>1. sendReads /\ now \subseteq Chats /\ Injection(now, Free(Now)) # {}
      BY DEF DueNow, OrderInv
    <3> QED BY <1>8, <3>1, ToldApart DEF OrderInv
  <2>3. NoNewReads(Told(Now, will, now), Told(Now, will, now))
    BY DEF NoNewReads
  <2> QED BY <1>1, <1>4, <1>8, <1>9, <1>10, <2>1, <2>2, <2>3, ToldOrder
          DEF Inv, ReadTypes, OrderInv
<1>11. ASSUME beyond, NEW still, ReadLater(h, t, still)
       PROVE  OrderInv'
  <2>1. Now' = Now /\ sentTill' = sentTill /\ willTill' = will
    BY <1>11 DEF ReadLater, queue, Now, will
  <2>2. Apart(Now)'
    BY <2>1 DEF OrderInv
  <2>3. Ordered(Now, position, sentTill, willTill)'
    BY <1>9, <1>11, <2>1
  <2> QED BY <1>1, <1>4, <2>2, <2>3 DEF OrderInv
<1> QED BY <1>5, <1>6, <1>7, <1>10, <1>11

\* The timer tells reads in order.
LEMMA ReadTimerFiresOrder ==
    ASSUME Inv, OrderInv, alwaysSent, ReadTimerFires
    PROVE  OrderInv'
<1>1. PICK now \in DueNow(willTill, delayed) :
          /\ Becomes(Told(Now, willTill, now))
          /\ ReadsBecome(willTill, sentTill, sentDone, now, FALSE)
  BY DEF ReadTimerFires
<1>2. Apart(Told(Now, willTill, now))
  <2>1. sendReads /\ now \subseteq Chats /\ Injection(now, Free(Now)) # {}
    BY DEF DueNow, OrderInv
  <2> QED BY <2>1, ToldApart DEF OrderInv, Inv, ReadTypes
<1>3. NoNewReads(Told(Now, willTill, now), Told(Now, willTill, now))
  BY DEF NoNewReads
<1>4. sendReads' = sendReads /\ position' = position /\ Positions'
  BY DEF ReadTimerFires, local, rest, ghost, OrderInv, Positions
<1> QED BY <1>1, <1>2, <1>3, <1>4, ToldOrder DEF Inv, ReadTypes, OrderInv

\* The read that was told last is not forgotten before it is known to be read here.
LEMMA AnswerReadOrder ==
    ASSUME Inv, OrderInv, alwaysSent, NEW r \in Requests, AnswerRead(r)
    PROVE  OrderInv'
<1> DEFINE h == home[r]
           last == sentTill[h] = till[r]
           refresh == last /\ RefreshNeeded(h, till[r])
           answered == Answered(Now, r)
           asked == IF refresh THEN RequestingEntry(answered, h) ELSE answered
           done == IF last /\ ~refresh THEN [sentTill EXCEPT ![h] = 0] ELSE sentTill
           finished == IF refresh THEN sentDone \cup {h} ELSE sentDone
<1>1. PICK now \in DueNow(willTill, delayed) :
          /\ Becomes(Finishing(Told(asked, willTill, now), r))
          /\ ReadsBecome(willTill, done, finished, now, timer)
  BY DEF AnswerRead
<1>2. Apart(answered) /\ NoNewReads(answered, Now) /\ Free(answered) = Free(Now)
  BY CancellingApart DEF OrderInv, Answered
<1>3. Apart(asked) /\ NoNewReads(asked, Now) /\ Free(asked) = Free(Now)
  <2> HIDE DEF answered
  <2>1. /\ Apart(RequestingEntry(answered, h))
        /\ NoNewReads(RequestingEntry(answered, h), answered)
        /\ Free(RequestingEntry(answered, h)) = Free(answered)
    BY <1>2, RequestingApart
  <2> QED BY <1>2, <2>1 DEF NoNewReads
<1>4. sendReads' = sendReads /\ position' = position /\ Positions'
  BY DEF AnswerRead, local, rest, ghost, OrderInv, Positions
<1>5. done \in [Chats -> Tills]
  BY DEF Inv, ReadTypes, Tills
<1>6. Ordered(asked, position, done, willTill)
  <2>1. Ordered(asked, position, sentTill, willTill)
    <3> HIDE DEF asked
    <3> QED BY <1>3 DEF OrderInv, Ordered, NoNewReads
  <2>2. CASE done = sentTill
    BY <2>1, <2>2
  <2>3. CASE last /\ ~refresh /\ done = [sentTill EXCEPT ![h] = 0]
    <3>1. asked.till \in [Requests -> Tills]
      BY <1>3 DEF Apart
    <3>2. position \in [Chats -> Tills]
      BY DEF OrderInv, Positions
    <3> HIDE DEF asked
    <3>3. ASSUME NEW x \in Requests, asked.type[x] = "ReadInbox", asked.net[x] # "none"
          PROVE  /\ asked.home[x] \in Chats
                 /\ done[asked.home[x]] = 0 => asked.till[x] <= position[asked.home[x]]
                 /\ done[asked.home[x]] # 0 => asked.till[x] <= done[asked.home[x]]
                 /\ willTill[asked.home[x]] # 0 => asked.till[x] <= willTill[asked.home[x]]
      <4>1. /\ asked.home[x] \in Chats
            /\ sentTill[asked.home[x]] = 0 => asked.till[x] <= position[asked.home[x]]
            /\ sentTill[asked.home[x]] # 0 => asked.till[x] <= sentTill[asked.home[x]]
            /\ willTill[asked.home[x]] # 0 => asked.till[x] <= willTill[asked.home[x]]
        BY <2>1, <3>3 DEF Ordered
      <4>2. CASE asked.home[x] # h
        BY <2>3, <4>1, <4>2 DEF Inv, ReadTypes
      <4>3. CASE asked.home[x] = h
        <5>1. sentTill[h] <= position[h]
          <6>1. sentTill[h] = till[r] /\ ~(till[r] > position[h])
            BY <2>3 DEF RefreshNeeded
          <6>2. sentTill[h] \in Int /\ position[h] \in Int
            BY <3>2, <4>1, <4>3, HistoriesAssumption DEF Inv, ReadTypes, Tills, Messages
          <6> QED BY <6>1, <6>2
        <5>2. sentTill[h] \in Int /\ position[h] \in Int /\ asked.till[x] \in Int
          BY <3>1, <3>2, <4>1, <4>3, HistoriesAssumption DEF Inv, ReadTypes, Tills, Messages
        <5>3. done[h] = 0
          BY <2>3, <4>1, <4>3 DEF Inv, ReadTypes
        <5> QED BY <4>1, <4>3, <5>1, <5>2, <5>3
      <4> QED BY <4>2, <4>3
    <3> QED BY <3>3 DEF Ordered
  <2> QED BY <2>2, <2>3
<1> HIDE DEF asked, done, finished, answered
<1> DEFINE told == Told(asked, willTill, now)
<1>7. Apart(told)
  <2>1. sendReads /\ now \subseteq Chats /\ Injection(now, Free(asked)) # {}
    BY <1>3 DEF DueNow, OrderInv
  <2> QED BY <1>3, <2>1, ToldApart DEF Inv, ReadTypes
<1>8. Apart(Finishing(told, r)) /\ NoNewReads(Finishing(told, r), told)
  BY <1>7, FinishingApart
<1> QED BY <1>1, <1>3, <1>4, <1>5, <1>6, <1>8, ToldOrder DEF Inv, ReadTypes, OrderInv

\* The entries that are applied may end the reads that were told.
LEMMA EntriesAppliedOrder ==
    ASSUME Inv, OrderInv, alwaysSent, NEW STATE some, EntriesApplied(some),
           sendReads' = sendReads, Positions',
           \A h \in Chats : position'[h] >= position[h],
           \A h \in (some \cap sentDone) \ entryPostponed :
              h \in Chats => position'[h] >= sentTill[h]
    PROVE  OrderInv'
<1> DEFINE applied == some \ entryPostponed
           told == {h \in applied : sentTill[h] # 0 /\ h \in sentDone}
           q == [Now EXCEPT !.entries = @ \ applied, !.pending = @ \ applied]
           n == Now
           m == Now'
<1>1. Becomes(q) /\ willTill' = willTill
      /\ sentTill' = [h \in Chats |-> IF h \in told THEN 0 ELSE sentTill[h]]
  BY DEF EntriesApplied
<1>2. Apart(q) /\ NoNewReads(q, Now)
  BY DEF OrderInv, Apart, IsQueue, NoNewReads, Now
<1> HIDE DEF q
<1>3. Apart(Now)' /\ NoNewReads(Now', q)
  BY <1>1, <1>2, BecomesApart
<1>4. Ordered(m, position', sentTill, willTill)
  <2>1. NoNewReads(Now', Now)
    BY <1>2, <1>3 DEF NoNewReads
  <2>2. Now.till \in [Requests -> Tills]
    BY DEF OrderInv, Apart
  <2> QED BY <2>1, <2>2, StaysOrdered DEF OrderInv, Positions
<1>5. m.till \in [Requests -> Tills]
  BY <1>3 DEF Apart
<1>6. position' \in [Chats -> Tills]
  BY DEF Positions
<1> HIDE DEF m
<1>7. Ordered(m, position', sentTill', willTill)
  <2> SUFFICES ASSUME NEW r \in Requests, m.type[r] = "ReadInbox", m.net[r] # "none"
               PROVE  /\ m.home[r] \in Chats
                      /\ sentTill'[m.home[r]] = 0 => m.till[r] <= position'[m.home[r]]
                      /\ sentTill'[m.home[r]] # 0 => m.till[r] <= sentTill'[m.home[r]]
                      /\ willTill[m.home[r]] # 0 => m.till[r] <= willTill[m.home[r]]
    BY DEF Ordered
  <2>1. /\ m.home[r] \in Chats
        /\ sentTill[m.home[r]] = 0 => m.till[r] <= position'[m.home[r]]
        /\ sentTill[m.home[r]] # 0 => m.till[r] <= sentTill[m.home[r]]
        /\ willTill[m.home[r]] # 0 => m.till[r] <= willTill[m.home[r]]
    BY <1>4 DEF Ordered
  <2>2. CASE m.home[r] \notin told
    BY <1>1, <2>1, <2>2
  <2>3. CASE m.home[r] \in told
    <3>1. position'[m.home[r]] >= sentTill[m.home[r]] /\ m.till[r] <= sentTill[m.home[r]]
      BY <2>1, <2>3
    <3>2. position'[m.home[r]] \in Int /\ sentTill[m.home[r]] \in Int /\ m.till[r] \in Int
      BY <1>5, <1>6, <2>1, HistoriesAssumption DEF Inv, ReadTypes, Tills, Messages
    <3> QED BY <1>1, <2>1, <2>3, <3>1, <3>2
  <2> QED BY <2>2, <2>3
<1>8. Ordered(Now, position, sentTill, willTill)'
  BY <1>1, <1>7 DEF m
<1> QED BY <1>3, <1>8 DEF OrderInv

\* dialogEntryApplied() takes what the server was told for read.
LEMMA ToldTillMax ==
    ASSUME Inv, NEW h \in Chats, NEW at \in Tills
    PROVE  /\ ToldTill(h, at) \in Tills /\ ToldTill(h, at) >= at
           /\ h \in sentDone \ entryPostponed => ToldTill(h, at) >= sentTill[h]
<1>1. at \in Int /\ sentTill[h] \in Tills
  BY HistoriesAssumption DEF Tills, Messages, Inv, ReadTypes
<1>2. CASE h \in sentDone \ entryPostponed
  <2>1. ToldTill(h, at) = Max({at, sentTill[h]})
    BY <1>2 DEF ToldTill
  <2> QED BY <1>1, <2>1, MaxOfTwo
<1>3. CASE h \notin sentDone \ entryPostponed
  BY <1>1, <1>3 DEF ToldTill
<1> QED BY <1>2, <1>3

\* applyDialogFields(): an older entry is not applied, any other takes the position forward.
LEMMA AppliedIs ==
    ASSUME NEW h, position[h] \in Tills, NEW t \in Tills, NEW ahead
    PROVE  /\ IsLocal(Applied(h, t, ahead))
           /\ Applied(h, t, ahead).position >= position[h]
           /\ \/ t < position[h] /\ Applied(h, t, ahead) = Local(h)
              \/ LET c == Cardinality(Unread(h, t))
                 IN /\ t >= position[h] /\ Applied(h, t, ahead).position >= t
                    /\ Applied(h, t, ahead).count = c
                    /\ \/ Applied(h, t, ahead).position = t
                       \/ c = 0 /\ Applied(h, t, ahead).position = LastMessage
                       \/ c = 1 /\ Applied(h, t, ahead).position = LastMessage - 1
<1> DEFINE c == Cardinality(Unread(h, t))
           l == Local(h)
           k == Counting(l, c, ahead)
           a == Applied(h, t, ahead)
<1>1. IsLocal(l) /\ l.position = position[h]
  BY DEF IsLocal, Local
<1>2. \A x \in Tills : x \in Int
  BY HistoriesAssumption DEF Tills, Messages
<1>3. CASE t < position[h]
  <2>1. a = l
    BY <1>3 DEF Applied
  <2> QED BY <1>1, <1>2, <1>3, <2>1
<1>4. CASE ~(t < position[h])
  <2>1. a = Until(k, t)
    BY <1>4 DEF Applied
  <2> HIDE DEF l, c
  <2>2. /\ IsLocal(k) /\ k.count = c /\ k.position >= l.position
        /\ \/ k.position = l.position
           \/ c = 0 /\ k.position = LastMessage
           \/ c = 1 /\ k.position = LastMessage - 1
    BY <1>1, CountingIs
  <2> HIDE DEF k
  <2>3. /\ IsLocal(a) /\ a.count = c /\ a.position >= k.position /\ a.position >= t
        /\ a.position \in {k.position, t}
    BY <2>1, <2>2, UntilIs
  <2> HIDE DEF a
  <2>4. a.position \in Int /\ k.position \in Int /\ l.position \in Int /\ t \in Int
    BY <1>1, <1>2, <2>2, <2>3 DEF IsLocal
  <2>5. t >= position[h] /\ a.position >= position[h]
    BY <1>1, <1>4, <2>2, <2>3, <2>4
  <2>6. a.position = k.position /\ k.position = l.position => a.position = t
    BY <1>1, <2>3, <2>4, <2>5
  <2>7. \/ a.position = t
        \/ c = 0 /\ a.position = LastMessage
        \/ c = 1 /\ a.position = LastMessage - 1
    BY <2>2, <2>3, <2>6
  <2> QED BY <2>3, <2>5, <2>7 DEF a, c
<1> QED BY <1>3, <1>4

\* An entry only takes the position forward.
LEMMA AnswerEntriesOrder ==
    ASSUME Inv, OrderInv, alwaysSent, NEW b \in Batches,
           AnswerEntries(b) \/ EntriesRefused(b)
    PROVE  OrderInv'
<1> DEFINE of == batches[b].of
           read == batches[b].read
<1>1. /\ position \in [Chats -> Tills] /\ serverTill \in [Chats -> Tills]
      /\ \A c \in Batches : batches[c].read # <<>> => batches[c].read \in [Chats -> Tills]
  BY DEF OrderInv, Positions
<1>2. /\ EntriesApplied(of) /\ serverTill' = serverTill /\ sendReads' = sendReads
      /\ batches' = [batches EXCEPT ![b] = NoBatch]
  BY DEF AnswerEntries, EntriesRefused, ghost
<1>3. \A h \in Chats : /\ position'[h] \in Tills /\ position'[h] >= position[h]
                       /\ h \in (of \cap sentDone) \ entryPostponed => position'[h] >= sentTill[h]
  <2> SUFFICES ASSUME NEW h \in Chats
               PROVE  /\ position'[h] \in Tills /\ position'[h] >= position[h]
                      /\ h \in (of \cap sentDone) \ entryPostponed => position'[h] >= sentTill[h]
    OBVIOUS
  <2>1. position[h] \in Tills /\ position[h] \in Int
    BY <1>1, HistoriesAssumption DEF Tills, Messages
  <2>2. CASE AnswerEntries(b)
    <3>1. /\ read \in [Chats -> Tills]
          /\ \E ahead : position'[h] = IF h \in of THEN ToldTill(h, Applied(h, read[h], ahead).position)
                                        ELSE position[h]
      BY <1>1, <2>2 DEF AnswerEntries
    <3>a. PICK ahead : position'[h] = IF h \in of THEN ToldTill(h, Applied(h, read[h], ahead).position)
                                      ELSE position[h]
      BY <3>1
    <3> DEFINE max == Applied(h, read[h], ahead).position
    <3>2. max \in Tills /\ max >= position[h]
      BY <2>1, <3>1, AppliedIs DEF IsLocal
    <3> HIDE DEF max
    <3>3. /\ ToldTill(h, max) \in Tills /\ ToldTill(h, max) >= max
          /\ h \in sentDone \ entryPostponed => ToldTill(h, max) >= sentTill[h]
      BY <3>2, ToldTillMax
    <3>4. max \in Int /\ ToldTill(h, max) \in Int
      BY <3>2, <3>3, HistoriesAssumption DEF Tills, Messages
    <3>5. position'[h] = IF h \in of THEN ToldTill(h, max) ELSE position[h]
      BY <3>a DEF max
    <3> HIDE DEF of
    <3> QED BY <2>1, <3>2, <3>3, <3>4, <3>5
  <2>3. CASE EntriesRefused(b)
    <3>1. position'[h] = IF h \in of THEN ToldTill(h, position[h]) ELSE position[h]
      BY <2>3 DEF EntriesRefused
    <3>2. /\ ToldTill(h, position[h]) \in Tills /\ ToldTill(h, position[h]) >= position[h]
          /\ h \in sentDone \ entryPostponed => ToldTill(h, position[h]) >= sentTill[h]
      BY <2>1, ToldTillMax
    <3> HIDE DEF of
    <3> QED BY <2>1, <3>1, <3>2
  <2> QED BY <2>2, <2>3
<1>4. position' \in [Chats -> Tills]
  <2>1. DOMAIN position' = Chats /\ position' = [h \in Chats |-> position'[h]]
    BY DEF AnswerEntries, EntriesRefused
  <2> QED BY <1>3, <2>1
<1>5. Positions'
  BY <1>1, <1>2, <1>4 DEF Positions, NoBatch
<1> HIDE DEF of
<1> QED BY <1>2, <1>3, <1>5, EntriesAppliedOrder DEF of

\* Asking for entries tells no reads.
LEMMA SendDialogRequestsOrder ==
    ASSUME OrderInv, alwaysSent, SendDialogRequests
    PROVE  OrderInv'
<1> DEFINE later == {h \in pending : PostponesEntry(Now, h)}
           q == [Now EXCEPT !.posted = FALSE, !.pending = {}, !.entries = @ \cup pending,
                            !.entryPostponed = @ \cup later]
           n == Now
<1>1. Becomes(q) /\ sendReads' = sendReads
      /\ position' = position /\ sentTill' = sentTill /\ willTill' = willTill
      /\ serverTill' = serverTill
  BY DEF SendDialogRequests, reads, local, ghost
<1>2. Apart(q) /\ NoNewReads(q, Now)
  <2>1. Apart(n)
    BY DEF OrderInv
  <2> HIDE DEF n, later
  <2>2. Apart([n EXCEPT !.posted = FALSE, !.pending = {}, !.entries = @ \cup pending,
                        !.entryPostponed = @ \cup later])
    BY <2>1 DEF Apart, IsQueue
  <2>3. NoNewReads([n EXCEPT !.posted = FALSE, !.pending = {}, !.entries = @ \cup pending,
                             !.entryPostponed = @ \cup later], n)
    BY <2>1 DEF Apart, IsQueue, NoNewReads
  <2> QED BY <2>2, <2>3 DEF n
<1> HIDE DEF q, n
<1>3. Apart(Now)' /\ NoNewReads(Now', q)
  BY <1>1, <1>2, BecomesApart
<1>4. Ordered(Now', position, sentTill, willTill)
  BY <1>2, <1>3 DEF OrderInv, Ordered, NoNewReads
<1>5. Ordered(Now, position, sentTill, willTill)'
  BY <1>1, <1>4
<1>6. Positions'
  <2>1. \/ batches' = batches
        \/ \E b : batches' = [batches EXCEPT ![b] = [of |-> pending \ later, read |-> <<>>]]
    BY DEF SendDialogRequests
  <2> HIDE DEF later
  <2>2. Positions
    BY DEF OrderInv
  <2>3. \A b \in Batches : batches'[b].read # <<>> => batches'[b].read \in [Chats -> Tills]
    <3>1. CASE batches' = batches
      BY <2>2, <3>1 DEF Positions
    <3>2. CASE \E b : batches' = [batches EXCEPT ![b] = [of |-> pending \ later, read |-> <<>>]]
      <4>1. \A b \in Batches : batches'[b].read = batches[b].read \/ batches'[b].read = <<>>
        BY <3>2
      <4> QED BY <2>2, <4>1 DEF Positions
    <3> QED BY <2>1, <3>1, <3>2
  <2> QED BY <1>1, <2>2, <2>3 DEF Positions
<1> QED BY <1>1, <1>3, <1>5, <1>6 DEF OrderInv

\* What inboxRead() does to a history that is not read until t yet.
LEMMA ElsewhereIs ==
    ASSUME NEW h, position[h] \in Tills, NEW t \in Messages, ReadElsewhere(h, t)
    PROVE  \/ position[h] >= t /\ position' = position /\ count' = count
           \/ /\ ~(position[h] >= t)
              /\ \E x, c : /\ LocalGoes(h, x, c) /\ x >= t
                           /\ \/ c = count[h] /\ x = t
                              \/ /\ c \in StillUnread(h, t) \cup
                                        (IF count[h] = Unknown THEN {} ELSE {Cardinality(Unread(h, t))})
                                 /\ c # Unknown
                                 /\ \/ x = t
                                    \/ c = 0 /\ x = LastMessage
                                    \/ c = 1 /\ x = LastMessage - 1
<1> DEFINE l == Local(h)
           left == StillUnread(h, t) \cup
                      (IF count[h] = Unknown THEN {} ELSE {Cardinality(Unread(h, t))})
<1>1. IsLocal(l) /\ l.position = position[h] /\ l.count = count[h] /\ t \in Tills
  BY DEF IsLocal, Local, Tills
<1>2. \A x \in Tills : x \in Int
  BY HistoriesAssumption DEF Tills, Messages
<1>3. \/ position[h] >= t /\ position' = position /\ count' = count
      \/ /\ ~(position[h] >= t)
         /\ \E still \in left : IF still = Unknown THEN LocalBecomes(h, Until(l, t))
               ELSE \E ahead \in BOOLEAN : LocalBecomes(h, Until(Counting(l, still, ahead), t))
  BY DEF ReadElsewhere, local
<1> HIDE DEF l, left
<1>4. ASSUME ~(position[h] >= t), LocalBecomes(h, Until(l, t))
      PROVE  LocalGoes(h, t, count[h])
  <2> DEFINE u == Until(l, t)
  <2>1. /\ IsLocal(u) /\ u.count = l.count /\ u.position >= l.position /\ u.position >= t
        /\ u.position \in {l.position, t}
    BY <1>1, UntilIs
  <2> HIDE DEF u
  <2>2. u.position = t
    BY <1>1, <1>2, <1>4, <2>1
  <2>3. position' = [position EXCEPT ![h] = u.position] /\ count' = [count EXCEPT ![h] = u.count]
    BY <1>4 DEF LocalBecomes, u
  <2> QED BY <1>1, <2>1, <2>2, <2>3 DEF LocalGoes
<1>5. ASSUME ~(position[h] >= t), NEW still \in left, NEW ahead,
             LocalBecomes(h, Until(Counting(l, still, ahead), t))
      PROVE  \E x : /\ LocalGoes(h, x, still) /\ x >= t
                    /\ \/ x = t
                       \/ still = 0 /\ x = LastMessage
                       \/ still = 1 /\ x = LastMessage - 1
  <2> DEFINE k == Counting(l, still, ahead)
             u == Until(k, t)
  <2>1. /\ IsLocal(k) /\ k.count = still /\ k.position >= l.position
        /\ \/ k.position = l.position
           \/ still = 0 /\ k.position = LastMessage
           \/ still = 1 /\ k.position = LastMessage - 1
    BY <1>1, CountingIs
  <2>2. position' = [position EXCEPT ![h] = u.position] /\ count' = [count EXCEPT ![h] = u.count]
    BY <1>5 DEF LocalBecomes
  <2> HIDE DEF k
  <2>3. /\ IsLocal(u) /\ u.count = k.count /\ u.position >= k.position /\ u.position >= t
        /\ u.position \in {k.position, t}
    BY <1>1, <2>1, UntilIs
  <2> HIDE DEF u
  <2>4. u.position \in Int /\ k.position \in Int /\ l.position \in Int /\ t \in Int
    BY <1>1, <1>2, <2>1, <2>3 DEF IsLocal
  <2>5. u.position = k.position /\ k.position = l.position => u.position = t
    BY <1>1, <1>5, <2>3, <2>4
  <2>6. LocalGoes(h, u.position, still)
    BY <1>1, <2>1, <2>2, <2>3, <2>4 DEF LocalGoes, IsLocal
  <2> QED BY <2>1, <2>3, <2>5, <2>6
<1>6. ASSUME ~(position[h] >= t), LocalBecomes(h, Until(l, t))
      PROVE  \E x, c : LocalGoes(h, x, c) /\ x >= t /\ c = count[h] /\ x = t
  BY <1>1, <1>2, <1>4, <1>6
<1>7. CASE position[h] >= t /\ position' = position /\ count' = count
  BY <1>7
<1>8. ASSUME ~(position[h] >= t), NEW still \in left,
             IF still = Unknown THEN LocalBecomes(h, Until(l, t))
             ELSE \E ahead \in BOOLEAN : LocalBecomes(h, Until(Counting(l, still, ahead), t))
      PROVE  \E x, c : /\ LocalGoes(h, x, c) /\ x >= t
                       /\ \/ c = count[h] /\ x = t
                          \/ /\ c \in left /\ c # Unknown
                             /\ \/ x = t
                                \/ c = 0 /\ x = LastMessage
                                \/ c = 1 /\ x = LastMessage - 1
  <2>1. CASE still = Unknown
    BY <1>6, <1>8, <2>1
  <2>2. CASE still # Unknown
    <3>1. PICK x : /\ LocalGoes(h, x, still) /\ x >= t
                   /\ \/ x = t
                      \/ still = 0 /\ x = LastMessage
                      \/ still = 1 /\ x = LastMessage - 1
      BY <1>5, <1>8, <2>2
    <3> QED BY <1>8, <2>2, <3>1
  <2> QED BY <2>1, <2>2
<1> QED BY <1>3, <1>7, <1>8 DEF left

\* A read on another device takes the position forward.
LEMMA ReadElsewhereOrder ==
    ASSUME OrderInv, alwaysSent, NEW h \in Chats, NEW t \in Messages, ReadElsewhere(h, t)
    PROVE  OrderInv'
<1>1. /\ sendReads' = sendReads /\ batches' = batches /\ sentTill' = sentTill
      /\ willTill' = willTill /\ UNCHANGED reads
      /\ serverTill' = [serverTill EXCEPT ![h] = t]
  BY DEF ReadElsewhere, reads, ghost
<1>2. /\ position \in [Chats -> Tills] /\ serverTill \in [Chats -> Tills]
      /\ \A g \in Chats : position[g] \in Int
      /\ t \in Tills /\ t \in Int
  BY HistoriesAssumption DEF OrderInv, Positions, Tills, Messages
<1>3. Positions' /\ \A g \in Chats : position'[g] >= position[g]
  <2>1. position' \in [Chats -> Tills] /\ \A g \in Chats : position'[g] >= position[g]
    <3>1. position' = position \/ \E x, c : LocalGoes(h, x, c)
      BY <1>2, ElsewhereIs
    <3> QED BY <1>2, <3>1 DEF LocalGoes
  <2> QED BY <1>1, <1>2, <2>1 DEF OrderInv, Positions
<1>4. CASE UNCHANGED queue
  BY <1>1, <1>3, <1>4, PositionsOrder
<1>5. CASE Becomes(RequestingEntry(Now, h))
  <2>1. Apart(RequestingEntry(Now, h)) /\ NoNewReads(RequestingEntry(Now, h), Now)
    BY RequestingApart DEF OrderInv
  <2>2. Apart(Now)' /\ NoNewReads(Now', RequestingEntry(Now, h))
    BY <1>5, <2>1, BecomesApart
  <2>3. NoNewReads(Now', Now) /\ Now.till \in [Requests -> Tills]
    BY <2>1, <2>2 DEF NoNewReads, OrderInv, Apart
  <2>4. Ordered(Now', position', sentTill, willTill)
    BY <1>2, <1>3, <2>3, StaysOrdered DEF OrderInv, Positions
  <2>5. Ordered(Now, position, sentTill, willTill)'
    BY <1>1, <2>4
  <2> QED BY <1>1, <1>3, <2>2, <2>5 DEF OrderInv
<1> QED BY <1>4, <1>5 DEF ReadElsewhere

\* The server handles a request that was under way.
LEMMA ServerReadsOrder ==
    ASSUME OrderInv, alwaysSent, NEW r \in Requests, ServerReads(r)
    PROVE  OrderInv'
<1>1. /\ sendReads' = sendReads /\ position' = position /\ sentTill' = sentTill
      /\ willTill' = willTill /\ batches' = batches
      /\ serverTill' = [serverTill EXCEPT ![home[r]] = Max({@, till[r]})]
  BY DEF ServerReads, reads, local, ghost
<1> DEFINE n == Now
           m == Now'
<1>2. /\ IsQueue(m) /\ m.type = n.type /\ m.home = n.home /\ m.till = n.till
      /\ m.sent = n.sent /\ m.postponed = n.postponed
      /\ m.net = [n.net EXCEPT ![r] = "handled"] /\ n.net[r] = "asked"
  BY DEF ServerReads, Now, IsQueue
<1>3. Apart(n) /\ Ordered(n, position, sentTill, willTill)
  BY DEF OrderInv
<1>4. till[r] \in Tills
  BY <1>3 DEF Apart, Now
<1> HIDE DEF n, m
<1>5. Apart(m)
  BY <1>2, <1>3 DEF Apart
<1>6. Ordered(m, position, sentTill, willTill)
  BY <1>2, <1>3 DEF Ordered, Apart
<1>7. serverTill' \in [Chats -> Tills]
  <2>1. serverTill \in [Chats -> Tills]
    BY DEF OrderInv, Positions
  <2>2. home[r] \in Chats => Max({serverTill[home[r]], till[r]}) \in Tills
    BY <1>4, <2>1, MaxOfTwo
  <2> QED BY <1>1, <2>1, <2>2
<1>8. Positions'
  BY <1>1, <1>7 DEF OrderInv, Positions
<1>9. Apart(Now)' /\ Ordered(Now, position, sentTill, willTill)'
  BY <1>1, <1>5, <1>6 DEF m
<1> QED BY <1>1, <1>8, <1>9 DEF OrderInv

\* Nothing is told at first.
LEMMA OrderInit == Init => OrderInv
<1> SUFFICES ASSUME Init PROVE OrderInv
  OBVIOUS
<1>1. Positions
  BY DEF Init, Positions, Tills, NoBatch
<1>2. Apart(Now)
  BY DEF Init, Now, Apart, IsQueue, Tills
<1>3. Ordered(Now, position, sentTill, willTill)
  BY DEF Init, Now, Ordered
<1> QED BY <1>1, <1>2, <1>3 DEF Init, OrderInv

\* Every step keeps the order.
LEMMA OrderStep == Inv /\ OrderInv /\ [Next]_vars => OrderInv'
<1> SUFFICES ASSUME Inv, OrderInv, [Next]_vars, alwaysSent PROVE OrderInv'
  <2> SUFFICES ASSUME Inv, OrderInv, [Next]_vars, ~alwaysSent PROVE ~alwaysSent'
    BY DEF OrderInv
  <2> QED BY ZenonT(30) DEF Next, Users, System, vars, rest, ghost, Send, SendMessage, OwnRead,
          SendPendingReadInbox, RequestDialogEntry, ReadElsewhere, ReadInboxTill, Cancel,
          ToggleSendReads, AnswerSimple, AnswerUnfinished, AnswerRead, ServerReads,
          ServerReturns, AnswerEntries, EntriesRefused, ReadTimerFires, SendDialogRequests
<1>0. sendReads /\ Apart(Now) /\ Now.home = home
  BY DEF OrderInv, Now
<1>1. ASSUME NEW h, NEW what \in {"History", "Delete", "DeleteChannel"}, Send(h, what)
      PROVE  OrderInv'
  <2>1. Apart(Sending(Now, h, what, 0)) /\ NoNewReads(Sending(Now, h, what, 0), Now)
    BY <1>0, <1>1, SendingApart DEF Send, Types, Tills
  <2> QED BY <1>1, <2>1, RequestsOrder DEF Send
<1>2. ASSUME NEW h, OwnRead(h)
      PROVE  OrderInv'
  BY <1>0, <1>2 DEF OwnRead
<1>3. ASSUME NEW h, SendMessage(h)
      PROVE  OrderInv'
  <2>1. Free(Now) # {} /\ Becomes(Sending(Now, h, "Send", 0)) /\ UNCHANGED <<reads, local, rest>>
    BY <1>0, <1>3 DEF SendMessage
  <2>2. Apart(Sending(Now, h, "Send", 0)) /\ NoNewReads(Sending(Now, h, "Send", 0), Now)
    BY <1>0, <2>1, SendingApart DEF Types, Tills
  <2> QED BY <2>1, <2>2, RequestsOrder
<1>4. ASSUME NEW h, SendPendingReadInbox(h)
      PROVE  OrderInv'
  <2>1. /\ SendPending(h) /\ sendReads' = sendReads /\ position' = position /\ Positions'
    BY <1>4 DEF SendPendingReadInbox, local, rest, ghost, OrderInv, Positions
  <2>2. \A g \in Chats : position[g] \in Int
    BY HistoriesAssumption DEF OrderInv, Positions, Tills, Messages
  <2> QED BY <2>1, <2>2, SendPendingOrder
<1>5. ASSUME NEW h, RequestDialogEntry(h)
      PROVE  OrderInv'
  <2>1. Apart(RequestingEntry(Now, h)) /\ NoNewReads(RequestingEntry(Now, h), Now)
    BY <1>0, RequestingApart
  <2> QED BY <1>5, <2>1, RequestsOrder DEF RequestDialogEntry
<1>6. ASSUME NEW r, Cancel(r)
      PROVE  OrderInv'
  <2> DEFINE q == [Now EXCEPT !.postponed = @ \ {r}]
             n == Now
  <2>1. Apart(q) /\ NoNewReads(q, n)
    <3>1. Apart(n) /\ q = [n EXCEPT !.postponed = @ \ {r}]
      BY <1>0
    <3> HIDE DEF n, q
    <3> QED BY <3>1 DEF Apart, IsQueue, NoNewReads
  <2>2. Becomes(Finishing(q, r)) /\ UNCHANGED <<reads, local, rest>>
    BY <1>6 DEF Cancel
  <2> HIDE DEF q
  <2>3. Apart(Finishing(q, r)) /\ NoNewReads(Finishing(q, r), q)
    BY <2>1, FinishingApart
  <2>4. NoNewReads(Finishing(q, r), Now)
    BY <2>1, <2>3 DEF NoNewReads
  <2> QED BY <2>2, <2>3, <2>4, RequestsOrder
<1>7. ASSUME NEW r, AnswerSimple(r)
      PROVE  OrderInv'
  <2> DEFINE a == Answered(Now, r)
             d == Sending(a, home[r], "Delete", 0)
  <2>1. Apart(a) /\ NoNewReads(a, Now) /\ Free(a) = Free(Now)
    BY <1>0, CancellingApart DEF Answered
  <2>2. CASE Becomes(Finishing(a, r))
    <3> HIDE DEF a
    <3>1. Apart(Finishing(a, r)) /\ NoNewReads(Finishing(a, r), a)
      BY <2>1, FinishingApart
    <3>2. NoNewReads(Finishing(a, r), Now)
      BY <2>1, <3>1 DEF NoNewReads
    <3> QED BY <1>7, <2>2, <3>1, <3>2, RequestsOrder DEF AnswerSimple
  <2>3. CASE Free(Now) # {} /\ Becomes(Finishing(d, r))
    <3> HIDE DEF a
    <3>1. Apart(d) /\ NoNewReads(d, a)
      BY <2>1, <2>3, SendingApart DEF Types, Tills
    <3> HIDE DEF d
    <3>2. Apart(Finishing(d, r)) /\ NoNewReads(Finishing(d, r), d)
      BY <3>1, FinishingApart
    <3>3. NoNewReads(Finishing(d, r), Now)
      BY <2>1, <3>1, <3>2 DEF NoNewReads
    <3> QED BY <1>7, <2>3, <3>2, <3>3, RequestsOrder DEF AnswerSimple
  <2> QED BY <1>7, <2>2, <2>3 DEF AnswerSimple
<1>8. ASSUME NEW r, AnswerUnfinished(r)
      PROVE  OrderInv'
  <2>1. Apart(Answered(Now, r)) /\ NoNewReads(Answered(Now, r), Now)
    BY <1>0, CancellingApart DEF Answered
  <2> QED BY <1>8, <2>1, RequestsOrder DEF AnswerUnfinished
<1>9. CASE ToggleSendReads
  BY <1>9 DEF ToggleSendReads, OrderInv
<1>10. ASSUME NEW b \in Batches, ServerReturns(b)
       PROVE  OrderInv'
  <2>1. Positions' /\ sendReads' = sendReads /\ position' = position /\ UNCHANGED <<queue, reads>>
    BY <1>10 DEF ServerReturns, OrderInv, Positions, local, ghost
  <2>2. \A g \in Chats : position[g] \in Int
    BY HistoriesAssumption DEF OrderInv, Positions, Tills, Messages
  <2> QED BY <2>1, <2>2, PositionsOrder
<1>11. CASE UNCHANGED vars
  <2>1. Positions' /\ sendReads' = sendReads /\ position' = position /\ UNCHANGED <<queue, reads>>
    BY <1>11 DEF vars, rest, OrderInv, Positions, local, ghost
  <2>2. \A g \in Chats : position[g] \in Int
    BY HistoriesAssumption DEF OrderInv, Positions, Tills, Messages
  <2> QED BY <2>1, <2>2, PositionsOrder
<1> QED
  BY <1>1, <1>2, <1>3, <1>4, <1>5, <1>6, <1>7, <1>8, <1>9, <1>10, <1>11,
     ReadInboxTillOrder, AnswerReadOrder, ReadTimerFiresOrder, SendDialogRequestsOrder,
     ReadElsewhereOrder, ServerReadsOrder, AnswerEntriesOrder
  DEF Next, Users, System

-----------------------------------------------------------------------------
(* The theorems                                                            *)

\* A read that was put off for three seconds is watched by the timer, whatever is answered,
\* cancelled or turned off in between.
THEOREM ReadsAreTold == Spec => []ReadsWatched
<1>1. Init => Inv
  BY InvInit
<1>2. Inv /\ [Next]_vars => Inv'
  BY InvStep
<1>3. Inv => ReadsWatched
  BY DEF Inv
<1> QED BY <1>1, <1>2, <1>3, PTL DEF Spec

\* A read that waits is beyond the one sent before: what sendReadRequest() expects.
THEOREM ReadsAreBeyondThoseTold == Spec => []ReadsGrow
<1>1. Init => Inv
  BY InvInit
<1>2. Inv /\ [Next]_vars => Inv'
  BY InvStep
<1>3. Inv => ReadsGrow
  BY DEF Inv
<1> QED BY <1>1, <1>2, <1>3, PTL DEF Spec

\* The two assertions of finishSentRequest() never fail.
THEOREM EntriesAreHeld == Spec => []EntryHeld
<1>1. Init => Inv
  BY InvInit
<1>2. Inv /\ [Next]_vars => Inv'
  BY InvStep
<1>3. Inv => EntryHeld
  BY DEF Inv
<1> QED BY <1>1, <1>2, <1>3, PTL DEF Spec

\* As long as reads are always sent their answers come in order, and deletions are alone:
\* what histories_ghost refutes holds without the ghost mode.
THEOREM RequestsAreInOrder == Spec => []InOrder
<1>1. Init => Inv /\ OrderInv
  BY InvInit, OrderInit
<1>2. Inv /\ OrderInv /\ [Next]_vars => (Inv /\ OrderInv)'
  BY InvStep, OrderStep
<1>3. Inv /\ OrderInv => InOrder
  <2> SUFFICES ASSUME Inv, OrderInv, alwaysSent PROVE AnswersInOrder /\ DeleteIsAlone
    BY DEF InOrder
  <2>1. AnswersInOrder
    <3> SUFFICES ASSUME NEW r \in Requests, type[r] = "ReadInbox", net[r] # "none",
                        sentTill[home[r]] # 0
                 PROVE  sentTill[home[r]] >= till[r]
      BY DEF AnswersInOrder
    <3>1. till[r] <= sentTill[home[r]] /\ home[r] \in Chats
      BY DEF OrderInv, Ordered, Now
    <3>2. till[r] \in Int /\ sentTill[home[r]] \in Int
      BY <3>1, HistoriesAssumption DEF OrderInv, Apart, Now, Inv, ReadTypes, Tills, Messages
    <3> QED BY <3>1, <3>2
  <2>2. DeleteIsAlone
    BY DEF DeleteIsAlone, InFlight, OrderInv, Apart, Now
  <2> QED BY <2>1, <2>2
<1> QED BY <1>1, <1>2, <1>3, PTL DEF Spec
=============================================================================
