------------------------ MODULE HistoriesAgreeProofs ------------------------
EXTENDS HistoriesProofs, FiniteSetTheorems

(***************************************************************************)
(* That the device and the server agree on what is read once nothing is    *)
(* under way.  The module proves the types of Histories first (they carry  *)
(* that the unread count never becomes negative), then that AgreeInvariant *)
(* is inductive together with the invariant of HistoriesProofs, and gets   *)
(* ReadsAgree from it.                                                     *)
(*                                                                         *)
(* The requests are reasoned about as a queue: an operator of Histories    *)
(* takes the queue to the next one, and a lemma says of each operator      *)
(* which reads are under way after it.  An action is then a few of these   *)
(* lemmas, and what it does to the positions and the counts.               *)
(***************************************************************************)

-----------------------------------------------------------------------------
(* Types                                                                   *)

\* The types of a queue.
Typed(q) ==
    /\ IsQueue(q)
    /\ q.type \in [Requests -> Types \cup {"none"}]
    /\ q.home \in [Requests -> Chats]
    /\ q.till \in [Requests -> Tills]
    /\ q.net \in [Requests -> {"none", "asked", "handled"}]
    /\ q.sent \subseteq Requests /\ q.postponed \subseteq Requests
    /\ q.entryPostponed \subseteq Chats
    /\ q.entries \subseteq Chats /\ q.pending \subseteq Chats /\ q.posted \in BOOLEAN

\* Asking for requests and cancelling some keep the types of a queue.
LEMMA AskingTyped ==
    ASSUME NEW q, Typed(q), NEW some
    PROVE  Typed(Asking(q, some)) /\ Typed(Cancelling(q, some))
BY DEF Typed, IsQueue, Asking, Cancelling

\* So does asking for an entry of the list of chats.
LEMMA RequestingTyped ==
    ASSUME NEW q, Typed(q), NEW h \in Chats
    PROVE  Typed(RequestingEntry(q, h))
<1> DEFINE p == [q EXCEPT !.pending = @ \cup {h}, !.posted = @ \/ q.pending = {}]
<1>1. Typed(p)
  BY DEF Typed, IsQueue
<1>2. RequestingEntry(q, h) = q \/ RequestingEntry(q, h) = p
  BY DEF RequestingEntry
<1> HIDE DEF p
<1> QED BY <1>1, <1>2

\* sendRequest() keeps the types, and takes one free request.
LEMMA SendingTyped ==
    ASSUME NEW q, Typed(q), Free(q) # {}, NEW h \in Chats, NEW what \in Types, NEW upTo \in Tills
    PROVE  /\ Typed(Sending(q, h, what, upTo))
           /\ \E r \in Free(q) : Free(q) \ {r} \subseteq Free(Sending(q, h, what, upTo))
<1> DEFINE r == CHOOSE r \in Free(q) : TRUE
           new == [q EXCEPT !.type[r] = what, !.home[r] = h, !.till[r] = upTo]
           asked == [new EXCEPT !.sent = @ \cup {r}]
           now == Asking(asked, {r})
           again == IF PostponesHistory(now, h) THEN Of(now, h, {"History"}) ELSE {}
           late == IF PostponesEntry(now, h) /\ h \in new.entries
                   THEN now.entryPostponed \cup {h} ELSE now.entryPostponed
           after == [now EXCEPT !.entryPostponed = late, !.sent = @ \ again,
                                !.postponed = @ \cup again]
           waits == [new EXCEPT !.postponed = @ \cup {r}]
<1>1. r \in Free(q) /\ r \in Requests
  BY DEF Free
<1> HIDE DEF r
<1>2. /\ Typed(new) /\ new.type = [q.type EXCEPT ![r] = what]
  BY <1>1 DEF Typed, IsQueue
<1> HIDE DEF new
<1>3. Typed(asked) /\ asked.type = new.type
  BY <1>1, <1>2 DEF Typed, IsQueue
<1> HIDE DEF asked
<1>4. Typed(now) /\ now.type = new.type
  BY <1>3, AskingTyped DEF Typed, IsQueue, Asking
<1> HIDE DEF now
<1>5. again \subseteq Requests
  BY <1>4 DEF Of, Typed
<1>6. late \subseteq Chats
  BY <1>4 DEF Typed
<1> HIDE DEF again, late
<1>7. Typed(after) /\ after.type = new.type
  BY <1>4, <1>5, <1>6 DEF Typed, IsQueue
<1>8. Typed(waits) /\ waits.type = new.type
  BY <1>1, <1>2 DEF Typed, IsQueue
<1> HIDE DEF after, waits
<1>9. Typed(Cancelling(after, again)) /\ Cancelling(after, again).type = new.type
  BY <1>7, AskingTyped DEF Cancelling, Typed, IsQueue
<1>10. Sending(q, h, what, upTo) =
        IF what = "History" /\ PostponesHistory(q, h) THEN waits ELSE Cancelling(after, again)
  <2>1. SendingNow(new, h, r) = Cancelling(after, again)
    BY DEF SendingNow, after, again, late, now, asked
  <2> QED BY <2>1 DEF Sending, waits, new, r
<1> DEFINE s == Sending(q, h, what, upTo)
<1>11. Typed(s) /\ s.type = new.type
  BY <1>8, <1>9, <1>10
<1> HIDE DEF s
<1>12. Free(q) \ {r} \subseteq Free(s)
  BY <1>1, <1>2, <1>11 DEF Free, Typed
<1> QED BY <1>1, <1>11, <1>12 DEF s

\* sendReadRequest() keeps the types.
LEMMA ToldTyped ==
    ASSUME NEW q, Typed(q), NEW now \in SUBSET Chats, NEW will \in [Chats -> Tills],
           sendReads => Injection(now, Free(q)) # {}
    PROVE  Typed(Told(q, will, now))
<1>1. CASE ~sendReads
  BY <1>1 DEF Told, Typed, IsQueue
<1>2. CASE sendReads
  <2> DEFINE request == CHOOSE f \in Injection(now, Free(q)) : TRUE
             read == {request[h] : h \in now}
             new == [r \in read |-> CHOOSE h \in now : request[h] = r]
             told == [q EXCEPT
                !.type = [r \in Requests |-> IF r \in read THEN "ReadInbox" ELSE @[r]],
                !.home = [r \in Requests |-> IF r \in read THEN new[r] ELSE @[r]],
                !.till = [r \in Requests |-> IF r \in read THEN will[new[r]] ELSE @[r]],
                !.sent = @ \cup read,
                !.entryPostponed = @ \cup (now \cap q.entries)]
  <2>1. request \in [now -> Free(q)]
    BY <1>2 DEF Injection
  <2> HIDE DEF request
  <2>2. read \subseteq Requests /\ \A r \in read : new[r] \in Chats
    BY <2>1 DEF Free
  <2> HIDE DEF read, new
  <2>3. Typed(told)
    BY <2>2 DEF Typed, IsQueue, Types
  <2>4. Told(q, will, now) = Asking(told, read)
    BY <1>2 DEF Told, request, read, new
  <2> HIDE DEF told
  <2> QED BY <2>3, <2>4, AskingTyped
<1> QED BY <1>1, <1>2

\* finishSentRequest() and what it sends after it keep the types.
LEMMA FinishingTyped ==
    ASSUME NEW q, Typed(q), NEW r \in Requests
    PROVE  Typed(Finishing(q, r))
<1>1. ASSUME NEW p, Typed(p), NEW h
      PROVE  Typed(Resending(p, h))
  <2> DEFINE waited == {x \in p.postponed : p.home[x] = h}
             s == [p EXCEPT !.sent = @ \cup waited, !.postponed = @ \ waited]
  <2>0. waited \subseteq Requests
    BY <1>1 DEF Typed
  <2>1. Typed(s)
    <3> HIDE DEF waited
    <3> QED BY <1>1, <2>0 DEF Typed, IsQueue
  <2>2. Resending(p, h) = IF PostponesHistory(p, h) THEN p ELSE Asking(s, waited)
    BY DEF Resending
  <2> HIDE DEF s, waited
  <2> QED BY <1>1, <2>1, <2>2, AskingTyped
<1>2. ASSUME NEW p, Typed(p), NEW h \in Chats
      PROVE  Typed(EntryAgain(p, h))
  <2> DEFINE s == [p EXCEPT !.entries = @ \ {h}]
             a == RequestingEntry(s, h)
  <2>1. Typed(s)
    BY <1>2 DEF Typed, IsQueue
  <2> HIDE DEF s
  <2>2. Typed(a)
    BY <2>1, RequestingTyped
  <2>3. EntryAgain(p, h) = p \/ EntryAgain(p, h) = [a EXCEPT !.entryPostponed = @ \ {h}]
    BY DEF EntryAgain, s
  <2> HIDE DEF a
  <2>4. Typed([a EXCEPT !.entryPostponed = @ \ {h}])
    BY <2>2 DEF Typed, IsQueue
  <2> QED BY <1>2, <2>3, <2>4
<1> DEFINE less == [q EXCEPT !.sent = @ \ {r}]
           done == Cancelling(less, {r} \cap q.sent)
<1>3. Typed(less)
  BY DEF Typed, IsQueue
<1> HIDE DEF less
<1>4. Typed(done)
  BY <1>3, AskingTyped
<1>5. Finishing(q, r) = EntryAgain(Resending(done, q.home[r]), q.home[r])
  BY DEF Finishing, less
<1>6. q.home[r] \in Chats
  BY DEF Typed
<1> HIDE DEF done
<1> QED BY <1>1, <1>2, <1>4, <1>5, <1>6

\* The variables, taken as a queue, have its types.
LEMMA NowTyped == TypeOK => Typed(Now)
BY DEF TypeOK, Typed, IsQueue, Now, Tills

\* The types of the variables of the queue.
QueueTypes ==
    /\ type \in [Requests -> Types \cup {"none"}]
    /\ home \in [Requests -> Chats]
    /\ till \in [Requests -> {0} \cup Messages]
    /\ net \in [Requests -> {"none", "asked", "handled"}]
    /\ sent \subseteq Requests /\ postponed \subseteq Requests
    /\ entryPostponed \subseteq Chats
    /\ entries \subseteq Chats /\ pending \subseteq Chats /\ posted \in BOOLEAN

\* The variables have their types once they become a queue that has them.
LEMMA BecomesTyped ==
    ASSUME NEW STATE q, Typed(q), Becomes(q)
    PROVE  QueueTypes'
<1> DEFINE live == {r \in Requests : r \in q.sent \cup q.postponed \/ q.net[r] # "none"}
<1>1. /\ type' = [r \in Requests |-> IF r \in live THEN q.type[r] ELSE "none"]
      /\ home' = [r \in Requests |-> IF r \in live THEN q.home[r] ELSE 1]
      /\ till' = [r \in Requests |-> IF r \in live THEN q.till[r] ELSE 0]
      /\ net' = q.net /\ sent' = q.sent /\ postponed' = q.postponed
      /\ entryPostponed' = q.entryPostponed
      /\ entries' = q.entries /\ pending' = q.pending /\ posted' = q.posted
  BY DEF Becomes
<1> HIDE DEF live
<1>2. 1 \in Chats
  BY HistoriesAssumption DEF Chats
<1>3. /\ type' \in [Requests -> Types \cup {"none"}] /\ home' \in [Requests -> Chats]
      /\ till' \in [Requests -> {0} \cup Messages]
  BY <1>1, <1>2 DEF Typed, Tills
<1> QED BY <1>1, <1>3 DEF Typed, QueueTypes

-----------------------------------------------------------------------------
(* Counts                                                                  *)

\* What is unread after a position is a finite set.
LEMMA UnreadSize ==
    ASSUME NEW h, NEW t
    PROVE  IsFiniteSet(Unread(h, t)) /\ Cardinality(Unread(h, t)) \in 0..LastMessage
<1>1. IsFiniteSet(Messages) /\ Cardinality(Messages) = LastMessage
  BY HistoriesAssumption, FS_Interval DEF Messages
<1>2. Unread(h, t) \subseteq Messages
  BY DEF Unread, Incoming
<1>3. /\ IsFiniteSet(Unread(h, t)) /\ Cardinality(Unread(h, t)) <= Cardinality(Messages)
  BY <1>1, <1>2, FS_Subset
<1>4. Cardinality(Unread(h, t)) \in Nat
  BY <1>3, FS_CardinalityType
<1> QED BY <1>1, <1>3, <1>4, HistoriesAssumption

Counts == {Unknown} \cup 0..LastMessage

\* The count that is left is a number, no larger than what is unread.
LEMMA StillUnreadTyped ==
    ASSUME NEW h \in Chats, count[h] \in Counts, NEW t, NEW still \in StillUnread(h, t)
    PROVE  still \in Counts
<1> DEFINE gone == Unread(h, position[h]) \ Unread(h, t)
           less == count[h] - Cardinality(gone)
<1>1. Cardinality(Unread(h, t)) \in 0..LastMessage
  BY UnreadSize
<1>2. CASE count[h] = Unknown
  BY <1>2 DEF StillUnread, Counts
<1>3. CASE count[h] # Unknown
  <2>1. count[h] \in 0..LastMessage
    BY <1>3 DEF Counts
  <2>2. Cardinality(gone) \in Nat
    <3>1. IsFiniteSet(Unread(h, position[h]))
      BY UnreadSize
    <3> QED BY <3>1, FS_Subset, FS_CardinalityType
  <2> HIDE DEF gone
  <2>3. less \in Int /\ less <= LastMessage
    BY <2>1, <2>2, HistoriesAssumption
  <2> HIDE DEF less
  <2>4. Max({0, less}) \in 0..LastMessage
    <3>1. \E x \in {0, less} : \A y \in {0, less} : x >= y
      BY <2>3
    <3>2. Max({0, less}) \in {0, less} /\ \A y \in {0, less} : Max({0, less}) >= y
      BY <3>1 DEF Max
    <3> QED BY <2>3, <3>2, HistoriesAssumption
  <2>5. still \in {Unknown, Cardinality(Unread(h, t)), Max({0, less})}
    BY <1>3 DEF StillUnread, less, gone
  <2> QED BY <1>1, <2>4, <2>5 DEF Counts
<1> QED BY <1>2, <1>3

ReadsTyped ==
    /\ willTill \in [Chats -> Tills] /\ sentTill \in [Chats -> Tills]
    /\ delayed \subseteq Chats /\ sentDone \subseteq Chats /\ timer \in BOOLEAN
LocalTyped == position \in [Chats -> Tills] /\ count \in [Chats -> Counts]
RestTyped ==
    /\ batches \in [Batches -> [of : SUBSET Chats, read : {<<>>} \cup [Chats -> Tills]]]
    /\ serverTill \in [Chats -> Tills]
    /\ sendReads \in BOOLEAN /\ alwaysSent \in BOOLEAN

\* TypeOK, and the types of the answers for entries.
TypeInv == QueueTypes /\ ReadsTyped /\ LocalTyped /\ RestTyped /\ events \in 0..MaxEvents

\* The types the run checks are among those the proof carries.
LEMMA TypeInvOK == TypeInv => TypeOK
BY DEF TypeInv, TypeOK, QueueTypes, ReadsTyped, LocalTyped, RestTyped, Tills, Counts

\* In typed states the queue is typed.
LEMMA TypeInvNow == TypeInv => Typed(Now)
BY TypeInvOK, NowTyped

\* The events stay within their bound.
LEMMA EventTyped == events \in 0..MaxEvents /\ Event => events' \in 0..MaxEvents
BY HistoriesAssumption DEF Event

\* The maps of one chat each stay maps of all chats.
LEMMA ReadsBecomeTyped ==
    ASSUME NEW STATE will, will \in [Chats -> Tills], NEW STATE done, done \in [Chats -> Tills],
           NEW STATE finished, finished \subseteq Chats, NEW STATE now,
           NEW STATE active, active \in BOOLEAN,
           ReadsBecome(will, done, finished, now, active)
    PROVE  ReadsTyped'
<1>1. CASE sendReads
  BY <1>1 DEF ReadsBecome, ReadsTyped, TimerFor, Tills
<1>2. CASE ~sendReads
  BY <1>2 DEF ReadsBecome, ReadsTyped, Tills
<1> QED BY <1>1, <1>2

\* sendReadRequests() keeps the types of the queue and of what was told.
LEMMA SendReadRequestsTyped ==
    ASSUME TypeInv, NEW STATE will, will \in [Chats -> Tills], NEW STATE late,
           SendReadRequests(will, late)
    PROVE  QueueTypes' /\ ReadsTyped'
<1>1. PICK now \in DueNow(will, late) :
          /\ Becomes(Told(Now, will, now))
          /\ ReadsBecome(will, sentTill, sentDone, now, timer)
  BY DEF SendReadRequests
<1>2. now \in SUBSET Chats /\ (sendReads => Injection(now, Free(Now)) # {})
  BY DEF DueNow
<1>3. Typed(Told(Now, will, now))
  BY <1>2, TypeInvNow, ToldTyped
<1> QED BY ZenonT(30), <1>1, <1>3, BecomesTyped, ReadsBecomeTyped DEF TypeInv, ReadsTyped

\* The later of two positions is a position.
LEMMA MaxTyped ==
    ASSUME NEW a \in Tills, NEW b \in Tills
    PROVE  Max({a, b}) \in Tills
BY MaxOfTwo

\* What becomes of one chat has the types.
LEMMA GoesTyped ==
    ASSUME TypeInv, NEW h, NEW x, NEW c \in Counts, LocalGoes(h, x, c)
    PROVE  LocalTyped'
BY DEF LocalGoes, TypeInv, LocalTyped

\* What is read locally.
LEMMA MarkReadTyped ==
    ASSUME TypeInv, NEW h \in Chats, NEW t \in Messages
    PROVE  /\ \A left \in Counts : MarkRead(h, t, left) => LocalTyped'
           /\ OnlySync(h, t) => LocalTyped'
<1>1. /\ position \in [Chats -> Tills] /\ position[h] \in Tills
      /\ count \in [Chats -> Counts] /\ count = [g \in Chats |-> count[g]]
  BY DEF TypeInv, LocalTyped
<1>2. 0 \in Counts
  BY HistoriesAssumption DEF Counts
<1>3. ASSUME NEW left \in Counts, MarkRead(h, t, left) PROVE LocalTyped'
  <2>1. PICK x, c : /\ LocalGoes(h, x, c) /\ x >= t
                    /\ c = left \/ (t = LastMessage /\ left > 0 /\ c = 0)
                    /\ \/ x = Max({position[h], t})
                       \/ left = 0 /\ x = LastMessage
                       \/ left = 1 /\ x = LastMessage - 1
    BY <1>1, <1>3, MarkReadIs
  <2> QED BY <1>2, <2>1, GoesTyped
<1>4. ASSUME OnlySync(h, t) PROVE LocalTyped'
  <2>1. \/ position' = position /\ count' = count
        \/ \E x : LocalGoes(h, x, 0)
    BY <1>1, <1>4, OnlySyncIs
  <2> QED BY <1>1, <1>2, <2>1, GoesTyped DEF LocalTyped
<1> QED BY <1>3, <1>4

\* Reading up to a message, in any of the three ways, keeps the types.
LEMMA ReadInboxTillTyped ==
    ASSUME TypeInv, NEW h \in Chats, NEW t \in Messages, NEW force \in BOOLEAN,
           ReadInboxTill(h, t, force)
    PROVE  TypeInv'
<1>1. events' \in 0..MaxEvents /\ RestTyped'
  BY EventTyped DEF ReadInboxTill, TypeInv, RestTyped, rest, ghost
<1> DEFINE will == [willTill EXCEPT ![h] = t]
<1>2. will \in [Chats -> Tills]
  BY DEF TypeInv, ReadsTyped, Tills
<1>3. \A still \in StillUnread(h, t) : still \in Counts
  BY StillUnreadTyped DEF TypeInv, LocalTyped
<1>4. LocalTyped'
  <2>1. \/ OnlySync(h, t)
        \/ \E still \in StillUnread(h, t) :
              MarkRead(h, t, still) \/ ReadNow(h, t, still) \/ ReadLater(h, t, still)
    BY DEF ReadInboxTill
  <2>2. \/ OnlySync(h, t)
        \/ \E still \in StillUnread(h, t) : MarkRead(h, t, still)
    BY <2>1 DEF ReadNow, ReadLater
  <2> QED BY <1>3, <2>2, MarkReadTyped
<1>5. ASSUME UNCHANGED <<queue, reads>>
      PROVE  QueueTypes' /\ ReadsTyped'
  BY <1>5 DEF TypeInv, QueueTypes, ReadsTyped, queue, reads
<1>6. ASSUME SendReadRequests(willTill, delayed \ {h})
      PROVE  QueueTypes' /\ ReadsTyped'
  BY <1>6, SendReadRequestsTyped DEF TypeInv, ReadsTyped
<1>7. ASSUME SendReadRequests(will, delayed \ {h})
      PROVE  QueueTypes' /\ ReadsTyped'
  <2> HIDE DEF will
  <2> QED BY <1>2, <1>7, SendReadRequestsTyped
<1>8. ASSUME NEW still, ReadLater(h, t, still)
      PROVE  QueueTypes' /\ ReadsTyped'
  <2>1. QueueTypes'
    BY <1>8 DEF ReadLater, TypeInv, QueueTypes, queue
  <2>2. ReadsTyped'
    BY <1>8, <1>2 DEF ReadLater, TypeInv, ReadsTyped
  <2> QED BY <2>1, <2>2
<1>9. \/ UNCHANGED <<queue, reads>>
      \/ SendReadRequests(willTill, delayed \ {h})
      \/ SendReadRequests(will, delayed \ {h})
      \/ \E still : ReadLater(h, t, still)
  BY DEF ReadInboxTill, SendPending, ReadNow
<1>10. QueueTypes' /\ ReadsTyped'
  <2> HIDE DEF will
  <2> QED BY <1>5, <1>6, <1>7, <1>8, <1>9 DEF TypeInv
<1> QED BY <1>1, <1>4, <1>10 DEF TypeInv

\* The answer to a read, done or failed, keeps the types.
LEMMA AnswerReadTyped ==
    ASSUME TypeInv, NEW r \in Requests, AnswerRead(r)
    PROVE  TypeInv'
<1> DEFINE h == home[r]
           last == sentTill[h] = till[r]
           refresh == last /\ RefreshNeeded(h, till[r])
           asked == IF refresh THEN RequestingEntry(Answered(Now, r), h) ELSE Answered(Now, r)
           done == IF last /\ ~refresh THEN [sentTill EXCEPT ![h] = 0] ELSE sentTill
           finished == IF refresh THEN sentDone \cup {h} ELSE sentDone
<1>1. PICK now \in DueNow(willTill, delayed) :
          /\ Becomes(Finishing(Told(asked, willTill, now), r))
          /\ ReadsBecome(willTill, done, finished, now, timer)
  BY DEF AnswerRead
<1>2. h \in Chats
  BY DEF TypeInv, QueueTypes
<1>3. done \in [Chats -> Tills] /\ finished \subseteq Chats
  BY <1>2 DEF TypeInv, ReadsTyped, Tills
<1>4. Typed(asked) /\ Free(asked) = Free(Now)
  <2> DEFINE answered == Answered(Now, r)
  <2>1. Typed(answered)
    BY TypeInvNow, AskingTyped DEF Answered
  <2>2. Free(answered) = Free(Now)
    BY TypeInvNow DEF Answered, Cancelling, Free, Typed, IsQueue
  <2>3. \A q : Typed(q) => Free(RequestingEntry(q, h)) = Free(q)
    BY DEF RequestingEntry, Free, Typed, IsQueue
  <2> HIDE DEF answered, h
  <2>4. Typed(RequestingEntry(answered, h))
    BY <1>2, <2>1, RequestingTyped
  <2>5. asked = answered \/ asked = RequestingEntry(answered, h)
    BY DEF answered
  <2> HIDE DEF asked
  <2> QED BY <2>1, <2>2, <2>3, <2>4, <2>5
<1> HIDE DEF asked, done, finished
<1>5. now \in SUBSET Chats /\ (sendReads => Injection(now, Free(asked)) # {})
  BY <1>4 DEF DueNow
<1>6. Typed(Finishing(Told(asked, willTill, now), r))
  BY <1>4, <1>5, ToldTyped, FinishingTyped DEF TypeInv, ReadsTyped
<1>7. QueueTypes'
  BY <1>1, <1>6, BecomesTyped
<1>8. ReadsTyped'
  BY <1>1, <1>3, ReadsBecomeTyped DEF TypeInv, ReadsTyped
<1> QED BY <1>7, <1>8 DEF AnswerRead, TypeInv, LocalTyped, RestTyped, local, rest, ghost

\* The timer of the reads that wait keeps the types.
LEMMA ReadTimerFiresTyped ==
    ASSUME TypeInv, ReadTimerFires
    PROVE  TypeInv'
<1>1. PICK now \in DueNow(willTill, delayed) :
          /\ Becomes(Told(Now, willTill, now))
          /\ ReadsBecome(willTill, sentTill, sentDone, now, FALSE)
  BY DEF ReadTimerFires
<1>2. now \in SUBSET Chats /\ (sendReads => Injection(now, Free(Now)) # {})
  BY DEF DueNow
<1>3. Typed(Told(Now, willTill, now))
  BY <1>2, TypeInvNow, ToldTyped DEF TypeInv, ReadsTyped
<1>4. QueueTypes' /\ ReadsTyped'
  BY <1>1, <1>3, BecomesTyped, ReadsBecomeTyped DEF TypeInv, ReadsTyped
<1> QED BY <1>4 DEF ReadTimerFires, TypeInv, LocalTyped, RestTyped, local, rest, ghost

\* Applying the entries the server gave keeps the types.
LEMMA EntriesAppliedTyped ==
    ASSUME TypeInv, NEW STATE some, EntriesApplied(some)
    PROVE  QueueTypes' /\ ReadsTyped'
<1> DEFINE applied == some \ entryPostponed
           told == {h \in applied : sentTill[h] # 0 /\ h \in sentDone}
           n == Now
           q == [n EXCEPT !.entries = @ \ applied, !.pending = @ \ applied]
<1>1. Typed(n)
  BY TypeInvNow
<1>2. Becomes(q)
  BY DEF EntriesApplied
<1>3. Typed(q)
  <2> HIDE DEF n, applied
  <2> QED BY <1>1 DEF Typed, IsQueue
<1>4. QueueTypes'
  <2> HIDE DEF q
  <2> QED BY <1>2, <1>3, BecomesTyped
<1>5. /\ sentTill' = [h \in Chats |-> IF h \in told THEN 0 ELSE sentTill[h]]
      /\ sentDone' = sentDone \ told
      /\ UNCHANGED <<willTill, delayed, timer>>
  BY DEF EntriesApplied
<1>6. ReadsTyped'
  <2> HIDE DEF told
  <2> QED BY <1>5 DEF TypeInv, ReadsTyped, Tills
<1> QED BY <1>4, <1>6

\* The position the answer is compared with is a position.
LEMMA ToldTillTyped ==
    ASSUME TypeInv, NEW h \in Chats, NEW at \in Tills
    PROVE  ToldTill(h, at) \in Tills
<1>1. sentTill[h] \in Tills
  BY DEF TypeInv, ReadsTyped
<1>2. Max({at, sentTill[h]}) \in Tills
  BY <1>1, MaxTyped
<1> QED BY <1>2 DEF ToldTill

\* Entries that are answered or refused keep the types.
LEMMA AnswerEntriesTyped ==
    ASSUME TypeInv, NEW b \in Batches, AnswerEntries(b) \/ EntriesRefused(b)
    PROVE  TypeInv'
<1> DEFINE of == batches[b].of
           read == batches[b].read
<1>1. EntriesApplied(of)
  BY DEF AnswerEntries, EntriesRefused
<1>2. QueueTypes' /\ ReadsTyped'
  <2> HIDE DEF of
  <2> QED BY <1>1, EntriesAppliedTyped
<1>3. RestTyped'
  <2>1. batches' = [batches EXCEPT ![b] = NoBatch] /\ serverTill' = serverTill
        /\ sendReads' = sendReads /\ alwaysSent' = alwaysSent
    BY DEF AnswerEntries, EntriesRefused, ghost
  <2>2. NoBatch \in [of : SUBSET Chats, read : {<<>>} \cup [Chats -> Tills]]
    BY DEF NoBatch
  <2> QED BY <2>1, <2>2 DEF TypeInv, RestTyped
<1>4. events' \in 0..MaxEvents
  BY EventTyped DEF AnswerEntries, EntriesRefused, TypeInv
<1>5. position \in [Chats -> Tills] /\ count \in [Chats -> Counts]
  BY DEF TypeInv, LocalTyped
<1>6. LocalTyped'
  <2>1. CASE AnswerEntries(b)
    <3>1. read \in [Chats -> Tills]
      BY <2>1 DEF AnswerEntries, TypeInv, RestTyped
    <3>2. PICK ahead \in SUBSET of :
             /\ count' = [h \in Chats |->
                   IF h \in of THEN Applied(h, read[h], h \in ahead).count ELSE count[h]]
             /\ position' = [h \in Chats |->
                   IF h \in of THEN ToldTill(h, Applied(h, read[h], h \in ahead).position)
                   ELSE position[h]]
      BY <2>1 DEF AnswerEntries
    <3>3. ASSUME NEW h \in Chats
          PROVE  /\ Applied(h, read[h], h \in ahead).position \in Tills
                 /\ Applied(h, read[h], h \in ahead).count \in Counts
      <4> DEFINE a == Applied(h, read[h], h \in ahead)
                 c == Cardinality(Unread(h, read[h]))
      <4>1. position[h] \in Tills /\ read[h] \in Tills /\ count[h] \in Counts
        BY <1>5, <3>1
      <4>2. IsLocal(a) /\ (a = Local(h) \/ a.count = c)
        BY <4>1, AppliedIs
      <4> HIDE DEF a
      <4>3. c \in Counts
        BY UnreadSize DEF Counts
      <4>4. a.position \in Tills /\ a.count \in Counts
        BY <4>1, <4>2, <4>3 DEF IsLocal, Local
      <4> QED BY <4>4 DEF a
    <3>4. \A h \in Chats : ToldTill(h, Applied(h, read[h], h \in ahead).position) \in Tills
      BY <3>3, ToldTillTyped
    <3> HIDE DEF of, read
    <3> QED BY <1>5, <3>2, <3>3, <3>4 DEF LocalTyped
  <2>2. CASE EntriesRefused(b)
    <3>1. \A h \in Chats : ToldTill(h, position[h]) \in Tills
      BY <1>5, ToldTillTyped
    <3>2. /\ position' = [h \in Chats |-> IF h \in of THEN ToldTill(h, position[h]) ELSE position[h]]
          /\ count' = count
      BY <2>2 DEF EntriesRefused
    <3> HIDE DEF of
    <3> QED BY <1>5, <3>1, <3>2 DEF LocalTyped
  <2> QED BY <2>1, <2>2
<1> QED BY <1>2, <1>3, <1>4, <1>6 DEF TypeInv

\* sendDialogRequests() keeps the types.
LEMMA SendDialogRequestsTyped ==
    ASSUME TypeInv, SendDialogRequests
    PROVE  TypeInv'
<1> DEFINE later == {h \in pending : PostponesEntry(Now, h)}
           n == Now
           q == [n EXCEPT !.posted = FALSE, !.pending = {}, !.entries = @ \cup pending,
                          !.entryPostponed = @ \cup later]
<1>1. Becomes(q)
  BY DEF SendDialogRequests
<1>2. pending \subseteq Chats /\ later \subseteq Chats
  BY DEF TypeInv, QueueTypes
<1>3. Typed(q)
  <2>1. Typed(n)
    BY TypeInvNow
  <2> HIDE DEF n, later
  <2> QED BY <1>2, <2>1 DEF Typed, IsQueue
<1>4. QueueTypes'
  <2> HIDE DEF q
  <2> QED BY <1>1, <1>3, BecomesTyped
<1>5. RestTyped'
  <2>1. \/ batches' = batches
        \/ \E b : batches' = [batches EXCEPT ![b] = [of |-> pending \ later, read |-> <<>>]]
    BY DEF SendDialogRequests
  <2> HIDE DEF later
  <2>2. [of |-> pending \ later, read |-> <<>>] \in
            [of : SUBSET Chats, read : {<<>>} \cup [Chats -> Tills]]
    BY <1>2
  <2>3. batches' \in [Batches -> [of : SUBSET Chats, read : {<<>>} \cup [Chats -> Tills]]]
    BY <2>1, <2>2 DEF TypeInv, RestTyped
  <2> QED BY <2>3 DEF SendDialogRequests, TypeInv, RestTyped, ghost
<1> QED BY <1>4, <1>5 DEF SendDialogRequests, TypeInv, ReadsTyped, LocalTyped, reads, local

\* A read on another device keeps the types.
LEMMA ReadElsewhereTyped ==
    ASSUME TypeInv, NEW h \in Chats, NEW t \in Messages, ReadElsewhere(h, t)
    PROVE  TypeInv'
<1>1. t \in Tills
  BY DEF Tills
<1>2. RestTyped' /\ ReadsTyped' /\ events' \in 0..MaxEvents
  <2>1. events' \in 0..MaxEvents
    BY EventTyped DEF ReadElsewhere, TypeInv
  <2> QED BY <1>1, <2>1 DEF ReadElsewhere, TypeInv, RestTyped, ReadsTyped, ghost, reads
<1>3. QueueTypes'
  <2>1. CASE UNCHANGED queue
    BY <2>1 DEF TypeInv, QueueTypes, queue
  <2>2. CASE Becomes(RequestingEntry(Now, h))
    BY <2>2, TypeInvNow, RequestingTyped, BecomesTyped
  <2> QED BY <2>1, <2>2 DEF ReadElsewhere
<1>4. LocalTyped'
  <2>1. position[h] \in Tills /\ count[h] \in Counts
    BY DEF TypeInv, LocalTyped
  <2>2. \A still \in StillUnread(h, t) \cup {Cardinality(Unread(h, t))} : still \in Counts
    BY <2>1, StillUnreadTyped, UnreadSize DEF Counts
  <2>3. \/ position' = position /\ count' = count
        \/ \E x, c : /\ LocalGoes(h, x, c)
                     /\ \/ c = count[h]
                        \/ c \in StillUnread(h, t) \cup
                                 (IF count[h] = Unknown THEN {} ELSE {Cardinality(Unread(h, t))})
    BY <2>1, ElsewhereIs
  <2>4. CASE position' = position /\ count' = count
    BY <2>4 DEF TypeInv, LocalTyped
  <2> QED BY <2>1, <2>2, <2>3, <2>4, GoesTyped
<1> QED BY <1>2, <1>3, <1>4 DEF TypeInv

\* A read at the server keeps the types.
LEMMA ServerReadsTyped ==
    ASSUME TypeInv, NEW r \in Requests, ServerReads(r)
    PROVE  TypeInv'
<1>1. home[r] \in Chats /\ till[r] \in Tills /\ serverTill[home[r]] \in Tills
  BY DEF TypeInv, QueueTypes, RestTyped, Tills
<1>2. Max({serverTill[home[r]], till[r]}) \in Tills
  BY <1>1, MaxTyped
<1>3. RestTyped'
  BY <1>1, <1>2 DEF ServerReads, TypeInv, RestTyped, ghost
<1>4. QueueTypes'
  BY DEF ServerReads, TypeInv, QueueTypes
<1> QED BY <1>3, <1>4 DEF ServerReads, TypeInv, ReadsTyped, LocalTyped, reads, local

\* The actions that change nothing but the requests.
LEMMA RequestsTyped ==
    ASSUME TypeInv, NEW STATE q, Typed(q), Becomes(q), UNCHANGED <<reads, local, rest>>,
           events' \in 0..MaxEvents
    PROVE  TypeInv'
<1>1. QueueTypes'
  BY BecomesTyped
<1> QED BY <1>1 DEF TypeInv, ReadsTyped, LocalTyped, RestTyped, reads, local, rest, ghost

\* The types hold at the start.
LEMMA TypeInit == Init => TypeInv
<1> SUFFICES ASSUME Init PROVE TypeInv
  OBVIOUS
<1>1. 1 \in Chats
  BY HistoriesAssumption DEF Chats
<1>2. QueueTypes
  BY <1>1 DEF Init, QueueTypes
<1>3. ReadsTyped
  BY DEF Init, ReadsTyped, Tills
<1>4. LocalTyped
  <2>1. Unknown \in Counts /\ \A h \in Chats : Cardinality(Unread(h, 0)) \in Counts
    BY UnreadSize DEF Counts
  <2> QED BY <2>1 DEF Init, LocalTyped, Tills
<1>5. RestTyped
  BY DEF Init, RestTyped, NoBatch, Tills
<1> QED BY <1>2, <1>3, <1>4, <1>5, HistoriesAssumption DEF TypeInv, Init

\* Every step keeps the types.
LEMMA TypeStep == TypeInv /\ [Next]_vars => TypeInv'
<1> SUFFICES ASSUME TypeInv, [Next]_vars PROVE TypeInv'
  OBVIOUS
<1>0. Typed(Now) /\ events \in 0..MaxEvents
  BY TypeInvNow DEF TypeInv
<1>1. ASSUME NEW h \in Chats, NEW what \in {"History", "Delete", "DeleteChannel"}, Send(h, what)
      PROVE  TypeInv'
  <2>1. Typed(Sending(Now, h, what, 0))
    BY <1>0, <1>1, SendingTyped DEF Send, Types, Tills
  <2> QED BY <1>0, <1>1, <2>1, RequestsTyped, EventTyped DEF Send
<1>2. ASSUME NEW h \in Chats, OwnRead(h)
      PROVE  TypeInv'
  <2>1. PICK t \in Incoming(h) : Becomes(Sending(Now, h, "OwnRead", t))
    BY <1>2 DEF OwnRead
  <2>2. Typed(Sending(Now, h, "OwnRead", t))
    BY <1>0, <1>2, SendingTyped DEF OwnRead, Types, Tills, Incoming
  <2> QED BY <1>0, <1>2, <2>1, <2>2, RequestsTyped, EventTyped DEF OwnRead
<1>3. ASSUME NEW h \in Chats, SendMessage(h)
      PROVE  TypeInv'
  <2>1. CASE Free(Now) # {} /\ Becomes(Sending(Now, h, "Send", 0))
    <3>1. Typed(Sending(Now, h, "Send", 0))
      BY <1>0, <2>1, SendingTyped DEF Types, Tills
    <3> QED BY <1>0, <1>3, <2>1, <3>1, RequestsTyped, EventTyped DEF SendMessage
  <2>2. CASE /\ Cardinality(Free(Now)) > 1
             /\ Becomes(Sending(Sending(Now, h, "OwnRead", LastMessage), h, "Send", 0))
    <3> DEFINE s == Sending(Now, h, "OwnRead", LastMessage)
    <3>1. LastMessage \in Tills /\ 0 \in Tills
      BY HistoriesAssumption DEF Tills, Messages
    <3>2. Free(Now) # {} /\ \A x : Free(Now) # {x}
      <4>1. Free(Now) = {} => Cardinality(Free(Now)) = 0
        BY FS_EmptySet
      <4>2. \A x : Free(Now) = {x} => Cardinality(Free(Now)) = 1
        BY FS_Singleton
      <4> DEFINE c == Cardinality(Free(Now))
      <4>3. c # 0 /\ c # 1
        <5>1. c > 1
          BY <2>2
        <5> HIDE DEF c
        <5> QED BY <5>1
      <4> QED BY <4>1, <4>2, <4>3
    <3>3. Typed(s) /\ \E r \in Free(Now) : Free(Now) \ {r} \subseteq Free(s)
      BY <1>0, <3>1, <3>2, SendingTyped DEF Types
    <3>4. Free(s) # {}
      BY <3>2, <3>3
    <3> HIDE DEF s
    <3>5. Typed(Sending(s, h, "Send", 0))
      BY <3>1, <3>3, <3>4, SendingTyped DEF Types
    <3> QED BY <1>0, <1>3, <2>2, <3>5, RequestsTyped, EventTyped DEF SendMessage, s
  <2> QED BY <1>3, <2>1, <2>2 DEF SendMessage
<1>4. ASSUME NEW h \in Chats, SendPendingReadInbox(h)
      PROVE  TypeInv'
  <2>1. CASE SendReadRequests(willTill, delayed \ {h})
    <3>1. QueueTypes' /\ ReadsTyped'
      BY <2>1, SendReadRequestsTyped DEF TypeInv, ReadsTyped
    <3> QED BY <1>0, <1>4, <3>1, EventTyped
            DEF SendPendingReadInbox, TypeInv, LocalTyped, RestTyped, local, rest, ghost
  <2>2. CASE UNCHANGED <<queue, reads>>
    BY <1>0, <1>4, <2>2, EventTyped DEF SendPendingReadInbox, TypeInv, QueueTypes, ReadsTyped,
       LocalTyped, RestTyped, queue, reads, local, rest, ghost
  <2> QED BY <1>4, <2>1, <2>2 DEF SendPendingReadInbox, SendPending
<1>5. ASSUME NEW h \in Chats, RequestDialogEntry(h)
      PROVE  TypeInv'
  <2>1. Typed(RequestingEntry(Now, h))
    BY <1>0, RequestingTyped
  <2> QED BY <1>0, <1>5, <2>1, RequestsTyped, EventTyped DEF RequestDialogEntry
<1>6. ASSUME NEW r \in Requests, Cancel(r)
      PROVE  TypeInv'
  <2> DEFINE n == Now
             q == [n EXCEPT !.postponed = @ \ {r}]
  <2>1. Typed(q)
    <3>1. Typed(n)
      BY <1>0
    <3> HIDE DEF n
    <3> QED BY <3>1 DEF Typed, IsQueue
  <2>2. Becomes(Finishing(q, r))
    BY <1>6 DEF Cancel
  <2> HIDE DEF q
  <2>3. Typed(Finishing(q, r))
    BY <2>1, FinishingTyped
  <2> QED BY <1>0, <1>6, <2>2, <2>3, RequestsTyped, EventTyped DEF Cancel
<1>7. ASSUME NEW r \in Requests, AnswerSimple(r)
      PROVE  TypeInv'
  <2> DEFINE a == Answered(Now, r)
             d == Sending(a, home[r], "Delete", 0)
  <2>1. Typed(a) /\ Free(a) = Free(Now)
    <3>1. Typed(a)
      BY <1>0, AskingTyped DEF Answered
    <3>2. Free(a) = Free(Now)
      BY <1>0 DEF Answered, Cancelling, Free, Typed, IsQueue
    <3> QED BY <3>1, <3>2
  <2>2. events' \in 0..MaxEvents
    BY <1>0, <1>7, EventTyped DEF AnswerSimple
  <2>3. CASE Becomes(Finishing(a, r))
    <3> HIDE DEF a
    <3> QED BY <1>7, <2>1, <2>2, <2>3, FinishingTyped, RequestsTyped DEF AnswerSimple
  <2>4. CASE Free(Now) # {} /\ Becomes(Finishing(d, r))
    <3>1. home[r] \in Chats
      BY DEF TypeInv, QueueTypes
    <3> HIDE DEF a
    <3>2. Typed(d)
      BY <2>1, <2>4, <3>1, SendingTyped DEF Types, Tills
    <3> HIDE DEF d
    <3> QED BY <1>7, <2>2, <2>4, <3>2, FinishingTyped, RequestsTyped DEF AnswerSimple
  <2> QED BY <1>7, <2>3, <2>4 DEF AnswerSimple
<1>8. ASSUME NEW r \in Requests, AnswerUnfinished(r)
      PROVE  TypeInv'
  <2>1. Typed(Answered(Now, r))
    BY <1>0, AskingTyped DEF Answered
  <2> QED BY <1>0, <1>8, <2>1, RequestsTyped DEF AnswerUnfinished
<1>9. CASE ToggleSendReads
  BY <1>0, <1>9, EventTyped DEF ToggleSendReads, TypeInv, QueueTypes, ReadsTyped, LocalTyped,
     RestTyped, queue, reads, local
<1>10. ASSUME NEW b \in Batches, ServerReturns(b)
       PROVE  TypeInv'
  <2>1. RestTyped'
    BY <1>10 DEF ServerReturns, TypeInv, RestTyped, ghost
  <2> QED BY <1>10, <2>1 DEF ServerReturns, TypeInv, QueueTypes, ReadsTyped, LocalTyped,
          queue, reads, local
<1>11. CASE UNCHANGED vars
  BY <1>11 DEF vars, rest, TypeInv, QueueTypes, ReadsTyped, LocalTyped, RestTyped,
     queue, reads, local, ghost
<1> QED
  BY <1>1, <1>2, <1>3, <1>4, <1>5, <1>6, <1>7, <1>8, <1>9, <1>10, <1>11,
     ReadInboxTillTyped, AnswerReadTyped, ReadTimerFiresTyped, SendDialogRequestsTyped,
     ReadElsewhereTyped, ServerReadsTyped, AnswerEntriesTyped
  DEF Next, Users, System

\* The types, whatever is sent, answered, cancelled or turned off: no count of unread messages
\* becomes negative.
THEOREM HistoriesTypeCorrect == Spec => []TypeOK
<1>1. Init => TypeInv
  BY TypeInit
<1>2. TypeInv /\ [Next]_vars => TypeInv'
  BY TypeStep
<1>3. TypeInv => TypeOK
  BY TypeInvOK
<1> QED BY <1>1, <1>2, <1>3, PTL DEF Spec

-----------------------------------------------------------------------------
(* The reads under way                                                     *)

\* Request r tells the server what is read.
IsRead(q, r) == q.type[r] = "ReadInbox" /\ q.net[r] # "none"

\* None is read as the ghost mode does.
NoOwnReads(q) == \A r \in Requests : q.type[r] # "OwnRead"

\* The same reads are under way, and every entry that was asked for still is.
SameReads(p, q) ==
    /\ NoOwnReads(q) => NoOwnReads(p)
    /\ \A r \in Requests :
          /\ IsRead(p, r) <=> IsRead(q, r)
          /\ IsRead(q, r) => /\ p.net[r] = q.net[r]
                             /\ p.home[r] = q.home[r] /\ p.till[r] = q.till[r]
    /\ q.entries \cup q.pending \subseteq p.entries \cup p.pending

\* Queues with the same reads as a third have the same reads.
LEMMA SameReadsTransitive ==
    ASSUME NEW p, NEW q, NEW s, SameReads(p, q), SameReads(q, s)
    PROVE  SameReads(p, s)
BY DEF SameReads, NoOwnReads

\* What is cancelled is no read.
LEMMA CancellingSame ==
    ASSUME NEW q, Typed(q), NEW some, \A r \in some : ~IsRead(q, r)
    PROVE  SameReads(Cancelling(q, some), q)
<1> DEFINE p == Cancelling(q, some)
<1>1. /\ p.type = q.type /\ p.home = q.home /\ p.till = q.till
      /\ p.entries = q.entries /\ p.pending = q.pending
      /\ \A r \in Requests : p.net[r] = IF r \in some THEN "none" ELSE q.net[r]
  BY DEF Cancelling, Typed, IsQueue
<1> HIDE DEF p
<1>2. SameReads(p, q)
  BY <1>1 DEF SameReads, NoOwnReads, IsRead
<1> QED BY <1>2 DEF p

\* What is asked for again is no read.
LEMMA AskingSame ==
    ASSUME NEW q, Typed(q), NEW some, \A r \in some : q.type[r] # "ReadInbox"
    PROVE  SameReads(Asking(q, some), q)
<1> DEFINE p == Asking(q, some)
<1>1. /\ p.type = q.type /\ p.home = q.home /\ p.till = q.till
      /\ p.entries = q.entries /\ p.pending = q.pending
      /\ \A r \in Requests : p.net[r] = IF r \in some THEN "asked" ELSE q.net[r]
  BY DEF Asking, Typed, IsQueue
<1> HIDE DEF p
<1>2. SameReads(p, q)
  BY <1>1 DEF SameReads, NoOwnReads, IsRead
<1> QED BY <1>2 DEF p

\* An entry is asked for.
LEMMA RequestingSame ==
    ASSUME NEW q, Typed(q), NEW h
    PROVE  /\ SameReads(RequestingEntry(q, h), q)
           /\ h \in RequestingEntry(q, h).entries \cup RequestingEntry(q, h).pending
<1> DEFINE p == [q EXCEPT !.pending = @ \cup {h}, !.posted = @ \/ q.pending = {}]
<1>1. SameReads(p, q) /\ h \in p.pending
  BY DEF SameReads, NoOwnReads, IsRead, Typed, IsQueue
<1>2. \/ RequestingEntry(q, h) = q /\ h \in q.entries \cup q.pending
      \/ RequestingEntry(q, h) = p
  BY DEF RequestingEntry
<1>3. SameReads(q, q)
  BY DEF SameReads, NoOwnReads
<1> HIDE DEF p
<1> QED BY <1>1, <1>2, <1>3

\* sendRequest(), for other requests than reads.
LEMMA SendingSame ==
    ASSUME NEW q, Typed(q), Apart(q), Free(q) # {}, NEW h, NEW what \in Types \ {"ReadInbox", "OwnRead"},
           NEW upTo
    PROVE  SameReads(Sending(q, h, what, upTo), q)
<1> DEFINE r == CHOOSE r \in Free(q) : TRUE
           new == [q EXCEPT !.type[r] = what, !.home[r] = h, !.till[r] = upTo]
           asked == [new EXCEPT !.sent = @ \cup {r}]
           now == Asking(asked, {r})
           again == IF PostponesHistory(now, h) THEN Of(now, h, {"History"}) ELSE {}
           late == IF PostponesEntry(now, h) /\ h \in new.entries
                   THEN now.entryPostponed \cup {h} ELSE now.entryPostponed
           after == [now EXCEPT !.entryPostponed = late, !.sent = @ \ again,
                                !.postponed = @ \cup again]
           end == Cancelling(after, again)
           waits == [new EXCEPT !.postponed = @ \cup {r}]
<1>1. r \in Requests /\ q.type[r] = "none" /\ what \notin {"ReadInbox", "OwnRead"} /\ ~IsRead(q, r)
  BY DEF Free, IsRead
<1> HIDE DEF r
<1>2. /\ IsQueue(new) /\ DOMAIN new.net = Requests
      /\ new.type[r] = what /\ new.net = q.net
      /\ new.entries = q.entries /\ new.pending = q.pending
      /\ \A x \in Requests \ {r} :
            new.type[x] = q.type[x] /\ new.home[x] = q.home[x] /\ new.till[x] = q.till[x]
  BY <1>1 DEF Typed, IsQueue
<1> HIDE DEF new
<1>3. /\ IsQueue(now) /\ DOMAIN now.net = Requests
      /\ now.type = new.type /\ now.home = new.home /\ now.till = new.till
      /\ now.entries = q.entries /\ now.pending = q.pending
      /\ \A x \in Requests \ {r} : now.net[x] = q.net[x]
  BY <1>2 DEF IsQueue, Asking
<1> HIDE DEF now, asked
<1>4. \A x \in again : now.type[x] = "History"
  BY DEF Of
<1> HIDE DEF again, late
<1>5. /\ end.type = now.type /\ end.home = now.home /\ end.till = now.till
      /\ end.entries = now.entries /\ end.pending = now.pending
      /\ \A x \in Requests : end.net[x] = IF x \in again THEN "none" ELSE now.net[x]
  BY <1>3 DEF IsQueue, Cancelling
<1>6. /\ waits.type = new.type /\ waits.home = new.home /\ waits.till = new.till
      /\ waits.net = new.net /\ waits.entries = new.entries /\ waits.pending = new.pending
  BY <1>2 DEF IsQueue
<1> HIDE DEF end, waits, after
<1>7. SameReads(end, q)
  BY <1>1, <1>2, <1>3, <1>4, <1>5 DEF SameReads, NoOwnReads, IsRead
<1>8. SameReads(waits, q)
  BY <1>1, <1>2, <1>6 DEF SameReads, NoOwnReads, IsRead
<1>9. Sending(q, h, what, upTo) = waits \/ Sending(q, h, what, upTo) = end
  <2>1. SendingNow(new, h, r) = end
    BY DEF SendingNow, end, after, again, late, now, asked
  <2> QED BY <2>1 DEF Sending, waits, new, r
<1> QED BY <1>7, <1>8, <1>9

\* finishSentRequest() of a request that is no read, or not any more.
LEMMA FinishingSame ==
    ASSUME NEW q, Typed(q), Apart(q), NEW r \in Requests, ~IsRead(q, r)
    PROVE  SameReads(Finishing(q, r), q)
<1> DEFINE less == [q EXCEPT !.sent = @ \ {r}]
           done == Cancelling(less, {r} \cap q.sent)
           h == q.home[r]
<1>1. Typed(less) /\ SameReads(less, q) /\ ~IsRead(less, r) /\ less.postponed = q.postponed
      /\ less.type = q.type
  BY DEF Typed, IsQueue, SameReads, NoOwnReads, IsRead
<1> HIDE DEF less
<1>2. Typed(done) /\ SameReads(done, less) /\ done.type = q.type /\ done.postponed = q.postponed
  <2>1. Typed(done) /\ SameReads(done, less)
    BY <1>1, CancellingSame, AskingTyped
  <2>2. done.type = less.type /\ done.postponed = less.postponed
    BY <1>1 DEF Cancelling, Typed, IsQueue
  <2> QED BY <1>1, <2>1, <2>2
<1> HIDE DEF done
<1> DEFINE waited == {p \in done.postponed : done.home[p] = h}
           s == [done EXCEPT !.sent = @ \cup waited, !.postponed = @ \ waited]
           resent == Resending(done, h)
<1>3. Typed(resent) /\ SameReads(resent, done)
  <2>1. \A x \in waited : done.type[x] # "ReadInbox"
    BY <1>2 DEF Apart
  <2>2. waited \subseteq Requests
    BY <1>2 DEF Typed
  <2>3. resent = IF PostponesHistory(done, h) THEN done ELSE Asking(s, waited)
    BY DEF Resending
  <2> HIDE DEF waited
  <2>4. Typed(s) /\ SameReads(s, done) /\ s.type = done.type
    BY <1>2, <2>2 DEF Typed, IsQueue, SameReads, NoOwnReads, IsRead
  <2> HIDE DEF s, resent
  <2>5. Typed(Asking(s, waited)) /\ SameReads(Asking(s, waited), s)
    BY <2>1, <2>4, AskingSame, AskingTyped
  <2>6. SameReads(done, done)
    BY DEF SameReads, NoOwnReads
  <2> QED BY <1>2, <2>3, <2>4, <2>5, <2>6, SameReadsTransitive
<1> HIDE DEF resent
<1>4. SameReads(EntryAgain(resent, h), resent)
  <2> DEFINE e == [resent EXCEPT !.entries = @ \ {h}]
             a == RequestingEntry(e, h)
             z == [a EXCEPT !.entryPostponed = @ \ {h}]
  <2>0. h \in Chats
    BY DEF Typed
  <2>1. Typed(e) /\ e.entries = resent.entries \ {h} /\ e.pending = resent.pending
        /\ e.type = resent.type /\ e.net = resent.net /\ e.home = resent.home
        /\ e.till = resent.till
    BY <1>3 DEF Typed, IsQueue
  <2> HIDE DEF e, h
  <2>2. SameReads(a, e) /\ h \in a.entries \cup a.pending /\ Typed(a)
    BY <2>0, <2>1, RequestingSame, RequestingTyped
  <2> HIDE DEF a
  <2>3. SameReads(z, a) /\ z.entries = a.entries /\ z.pending = a.pending
    BY <2>2 DEF SameReads, NoOwnReads, IsRead, Typed, IsQueue
  <2> HIDE DEF z
  <2>4. SameReads(z, resent)
    BY <2>1, <2>2, <2>3 DEF SameReads, NoOwnReads, IsRead
  <2>5. EntryAgain(resent, h) = resent \/ EntryAgain(resent, h) = z
    BY DEF EntryAgain, e, a, z
  <2>6. SameReads(resent, resent)
    BY DEF SameReads, NoOwnReads
  <2> QED BY <2>4, <2>5, <2>6
<1>5. Finishing(q, r) = EntryAgain(resent, h)
  BY DEF Finishing, less, done, h, resent
<1> QED BY <1>1, <1>2, <1>3, <1>4, <1>5, SameReadsTransitive

\* The reads under way are those of the queue the variables become.
LEMMA BecomesSame ==
    ASSUME NEW STATE q, Typed(q), Becomes(q)
    PROVE  SameReads(Now', q)
<1> DEFINE live == {r \in Requests : r \in q.sent \cup q.postponed \/ q.net[r] # "none"}
<1>1. /\ type' = [r \in Requests |-> IF r \in live THEN q.type[r] ELSE "none"]
      /\ home' = [r \in Requests |-> IF r \in live THEN q.home[r] ELSE 1]
      /\ till' = [r \in Requests |-> IF r \in live THEN q.till[r] ELSE 0]
      /\ net' = q.net /\ entries' = q.entries /\ pending' = q.pending
  BY DEF Becomes
<1>2. \A r \in Requests : q.net[r] # "none" => r \in live
  OBVIOUS
<1> HIDE DEF live
<1>3. /\ Now'.type = type' /\ Now'.home = home' /\ Now'.till = till'
      /\ Now'.net = net' /\ Now'.entries = entries' /\ Now'.pending = pending'
  BY DEF Now
<1> QED BY <1>1, <1>2, <1>3 DEF SameReads, NoOwnReads, IsRead

\* The reads that are told are under way then, each up to where it was to be told, with those
\* that were.
LEMMA ToldReads ==
    ASSUME NEW q, Typed(q), sendReads, NEW now \in SUBSET Chats,
           Injection(now, Free(q)) # {}, NEW will
    PROVE  LET t == Told(q, will, now)
           IN  /\ t.entries = q.entries /\ t.pending = q.pending
               /\ \A r \in Requests : IsRead(q, r) =>
                     /\ IsRead(t, r) /\ t.net[r] = q.net[r]
                     /\ t.home[r] = q.home[r] /\ t.till[r] = q.till[r]
               /\ \A h \in now : \E r \in Requests :
                     IsRead(t, r) /\ t.home[r] = h /\ t.till[r] = will[h]
               /\ \A r \in Requests : IsRead(t, r) =>
                     \/ /\ t.net[r] = "asked" /\ t.home[r] \in now /\ t.till[r] = will[t.home[r]]
                        /\ \A p \in Requests : IsRead(t, p) /\ p # r /\ t.home[p] = t.home[r] =>
                              IsRead(q, p)
                     \/ IsRead(q, r)
               /\ \A r \in Requests : q.type[r] # "none" => t.type[r] = q.type[r] /\ t.net[r] = q.net[r]
               /\ NoOwnReads(q) => NoOwnReads(t)
<1> DEFINE request == CHOOSE f \in Injection(now, Free(q)) : TRUE
           read == {request[h] : h \in now}
           new == [r \in read |-> CHOOSE h \in now : request[h] = r]
           told == [q EXCEPT
              !.type = [r \in Requests |-> IF r \in read THEN "ReadInbox" ELSE @[r]],
              !.home = [r \in Requests |-> IF r \in read THEN new[r] ELSE @[r]],
              !.till = [r \in Requests |-> IF r \in read THEN will[new[r]] ELSE @[r]],
              !.sent = @ \cup read,
              !.entryPostponed = @ \cup (now \cap q.entries)]
           t == Asking(told, read)
<1>1. Told(q, will, now) = t
  BY DEF Told
<1>2. /\ request \in [now -> Free(q)]
      /\ \A g, h \in now : request[g] = request[h] => g = h
  <2>1. request \in Injection(now, Free(q))
    OBVIOUS
  <2> HIDE DEF request
  <2> QED BY <2>1 DEF Injection, IsInjective
<1> HIDE DEF request
<1>3. /\ read \subseteq Free(q)
      /\ \A r \in read : new[r] \in now /\ request[new[r]] = r
      /\ \A h \in now : request[h] \in read /\ new[request[h]] = h
  BY <1>2
<1>4. \A r \in read : r \in Requests /\ q.type[r] = "none" /\ ~IsRead(q, r)
  BY <1>3 DEF Free, IsRead
<1>5. /\ t.entries = q.entries /\ t.pending = q.pending
      /\ \A r \in read : /\ t.type[r] = "ReadInbox" /\ t.home[r] = new[r]
                         /\ t.till[r] = will[new[r]] /\ t.net[r] = "asked"
      /\ \A r \in Requests \ read : /\ t.type[r] = q.type[r] /\ t.home[r] = q.home[r]
                                    /\ t.till[r] = q.till[r] /\ t.net[r] = q.net[r]
  <2> HIDE DEF read, new
  <2> QED BY <1>4 DEF IsQueue, Asking, Typed
<1> HIDE DEF t, told, read, new
<1>6. \A r \in Requests : IsRead(q, r) =>
         /\ IsRead(t, r) /\ t.net[r] = q.net[r]
         /\ t.home[r] = q.home[r] /\ t.till[r] = q.till[r]
  BY <1>4, <1>5 DEF IsRead
<1>7. \A h \in now : \E r \in Requests : IsRead(t, r) /\ t.home[r] = h /\ t.till[r] = will[h]
  BY <1>3, <1>4, <1>5 DEF IsRead
<1>8. ASSUME NEW r \in Requests, IsRead(t, r), ~IsRead(q, r)
      PROVE  /\ t.net[r] = "asked" /\ t.home[r] \in now /\ t.till[r] = will[t.home[r]]
             /\ \A p \in Requests : IsRead(t, p) /\ p # r /\ t.home[p] = t.home[r] =>
                   IsRead(q, p)
  <2>1. r \in read
    BY <1>5, <1>8 DEF IsRead
  <2>2. ASSUME NEW p \in Requests, IsRead(t, p), p # r, t.home[p] = t.home[r]
        PROVE  IsRead(q, p)
    BY <1>3, <1>5, <2>1, <2>2 DEF IsRead
  <2> QED BY <1>3, <1>5, <2>1, <2>2
<1>9. \A r \in Requests : q.type[r] # "none" => t.type[r] = q.type[r] /\ t.net[r] = q.net[r]
  BY <1>4, <1>5
<1>10. NoOwnReads(q) => NoOwnReads(t)
  BY <1>5 DEF NoOwnReads
<1> QED BY <1>1, <1>5, <1>6, <1>7, <1>8, <1>9, <1>10

-----------------------------------------------------------------------------
(* What is read on both sides                                              *)

\* The reads of a chat that are under way.
ReadsFor(q, h) == {r \in Requests : IsRead(q, r) /\ q.home[r] = h}

\* The parts of AgreeInvariant, of any queue and any positions: what is read here (pos) and at
\* the server (srv), what will be told (will), what was told last (done) and known to be (fin).
Tells(q, srv, will, h, m) ==
    m <= srv[h] \/ m <= will[h] \/ \E r \in ReadsFor(q, h) : m <= q.till[r]
ToldAt(q, srv, will, h, at) ==
    \/ \A m \in Incoming(h) : m <= at => Tells(q, srv, will, h, m)
    \/ /\ LastMessage \in Outgoing[h] /\ Unread(h, at) = {}
       /\ \E x : \A m \in Incoming(h) : m # x => Tells(q, srv, will, h, m)
IsTold(q, pos, srv, will) == \A h \in Chats : ToldAt(q, srv, will, h, pos[h])
IsHeard(q, pos, srv, done, fin) ==
    \A h \in Chats : \/ srv[h] <= pos[h]
                     \/ \E r \in ReadsFor(q, h) : srv[h] <= q.till[r]
                     \/ h \in fin /\ srv[h] <= done[h]
IsAsked(q, done, fin) ==
    \A h \in Chats : done[h] = 0 \/ h \in fin \/ \E r \in ReadsFor(q, h) : q.till[r] = done[h]
IsDone(q, srv, done, fin) ==
    \A h \in fin : done[h] # 0 /\ done[h] <= srv[h] /\ h \in q.entries \cup q.pending
Differ(q, will, done, fin) ==
    \A h \in Chats : \A r \in ReadsFor(q, h) :
        /\ will[h] # 0 => q.till[r] < will[h]
        /\ h \in fin => q.till[r] < done[h]
        /\ \A p \in ReadsFor(q, h) \ {r} : q.till[p] # q.till[r]
Knows(q, srv) ==
    \A h \in Chats : \A r \in ReadsFor(q, h) :
        q.till[r] > 0 /\ (q.net[r] = "handled" => q.till[r] <= srv[h])

Agree(q, pos, srv, will, done, fin) ==
    /\ IsTold(q, pos, srv, will) /\ IsHeard(q, pos, srv, done, fin) /\ IsAsked(q, done, fin)
    /\ IsDone(q, srv, done, fin) /\ Differ(q, will, done, fin) /\ Knows(q, srv)

BatchesKnow ==
    \A b \in Batches : batches[b].read # <<>> =>
        \A h \in Chats : batches[b].read[h] <= serverTill[h]

AgreeInv ==
    alwaysSent => /\ Agree(Now, position, serverTill, willTill, sentTill, sentDone)
                  /\ NoOwnReads(Now) /\ BatchesKnow /\ WillIsRead /\ CountCovers

\* Positions are numbers.
LEMMA TillsAreNumbers == \A t \in Tills : t \in Nat /\ t <= LastMessage
BY HistoriesAssumption DEF Tills, Messages

\* Messages are either read or unread.
LEMMA AllWithin ==
    ASSUME NEW h \in Chats, NEW t \in Tills, NEW m \in Incoming(h)
    PROVE  m \in Nat /\ t \in Nat /\ (m \in Unread(h, t) <=> ~(m <= t))
BY TillsAreNumbers, HistoriesAssumption DEF Messages, Incoming, Unread

\* The invariant of the proof is the one Histories states.
LEMMA AgreeInvIs ==
    ASSUME LocalTyped
    PROVE  AgreeInv <=> AgreeInvariant
<1> DEFINE n == Now
<1>1. /\ n.type = type /\ n.till = till /\ n.net = net /\ n.entries = entries /\ n.pending = pending
      /\ \A h : ReadsFor(n, h) = Reading(h)
  BY DEF Now, ReadsFor, IsRead, Reading, InFlight
<1> HIDE DEF n
<1>2. IsTold(n, position, serverTill, willTill) <=> ReadIsTold
  <2>1. \A h, m : Tells(n, serverTill, willTill, h, m) <=> Telling(h, m)
    BY <1>1 DEF Tells, Telling
  <2> SUFFICES ASSUME NEW h \in Chats
               PROVE  LET untold == {m \in Incoming(h) : m <= position[h] /\ ~Telling(h, m)}
                      IN (\/ untold = {}
                          \/ /\ LastMessage \in Outgoing[h] /\ Unread(h, position[h]) = {}
                             /\ \E x : \A m \in Incoming(h) : m # x => Telling(h, m))
                         <=> (untold = {} \/ (Unread(h, position[h]) = {} /\ PassedBy(h, untold)))
    BY <2>1 DEF IsTold, ToldAt, ReadIsTold
  <2> DEFINE untold == {m \in Incoming(h) : m <= position[h] /\ ~Telling(h, m)}
  <2>2. ASSUME LastMessage \in Outgoing[h], Unread(h, position[h]) = {}, untold # {},
               NEW x, \A m \in Incoming(h) : m # x => Telling(h, m)
        PROVE  PassedBy(h, untold)
    <3>1. untold = {x}
      BY <2>2
    <3> HIDE DEF untold
    <3>2. Cardinality(untold) = 1
      BY <3>1, FS_Singleton
    <3> QED BY <2>2, <3>2 DEF PassedBy
  <2>3. ASSUME Unread(h, position[h]) = {}, PassedBy(h, untold)
        PROVE  LastMessage \in Outgoing[h] /\ \E x : \A m \in Incoming(h) : m # x => Telling(h, m)
    <3>1. IsFiniteSet(untold)
      <4>1. IsFiniteSet(Messages)
        BY HistoriesAssumption, FS_Interval DEF Messages
      <4>2. untold \subseteq Messages
        BY DEF Incoming
      <4> HIDE DEF untold
      <4> QED BY <4>1, <4>2, FS_Subset
    <3>2. \E x : untold = {x}
      <4> HIDE DEF untold
      <4> QED BY <2>3, <3>1, FS_Singleton DEF PassedBy
    <3>3. ASSUME NEW m \in Incoming(h) PROVE m <= position[h]
      BY <2>3, AllWithin DEF LocalTyped
    <3> QED BY <2>3, <3>2, <3>3 DEF PassedBy
  <2> QED BY <2>2, <2>3
<1>3. IsHeard(n, position, serverTill, sentTill, sentDone) <=> ReadIsHeard
  BY <1>1 DEF IsHeard, ReadIsHeard
<1>4. IsAsked(n, sentTill, sentDone) <=> SentIsAsked
  BY <1>1 DEF IsAsked, SentIsAsked
<1>5. IsDone(n, serverTill, sentTill, sentDone) <=> SentIsDone
  BY <1>1 DEF IsDone, SentIsDone
<1>6. Differ(n, willTill, sentTill, sentDone) <=> ReadsDiffer
  BY <1>1 DEF Differ, ReadsDiffer
<1>7. Knows(n, serverTill) /\ BatchesKnow <=> ServerKnows
  BY <1>1 DEF Knows, BatchesKnow, ServerKnows
<1>8. NoOwnReads(n) <=> OnlyReadInbox
  BY <1>1 DEF NoOwnReads, OnlyReadInbox
<1> QED BY <1>2, <1>3, <1>4, <1>5, <1>6, <1>7, <1>8 DEF AgreeInv, AgreeInvariant, Agree, n

\* More is told: as much of what is read here is.
LEMMA MoreIsTold ==
    ASSUME NEW q, NEW p, NEW pos, NEW srv, NEW srv2, NEW will, NEW will2,
           IsTold(q, pos, srv, will),
           \A h \in Chats : \A m \in Incoming(h) :
              Tells(q, srv, will, h, m) => Tells(p, srv2, will2, h, m)
    PROVE  IsTold(p, pos, srv2, will2)
<1> SUFFICES ASSUME NEW h \in Chats PROVE ToldAt(p, srv2, will2, h, pos[h])
  BY DEF IsTold
<1>1. ToldAt(q, srv, will, h, pos[h])
  BY DEF IsTold
<1> QED BY <1>1 DEF ToldAt

\* The position goes from T to x past no message that is to be read, or past one of them
\* before a last message of one's own.
Skips(h, T, x) ==
    \/ \A m \in Incoming(h) : m <= x => m <= T
    \/ /\ LastMessage \in Outgoing[h] /\ Unread(h, x) = {}
       /\ \E y : \A m \in Incoming(h) : m # y => m <= T

\* More is read here, until T, and what is skipped after it.
LEMMA GoesTold ==
    ASSUME NEW q, NEW p, NEW srv, NEW srv2, NEW will, NEW will2,
           NEW h \in Chats, NEW at \in Tills, NEW x \in Tills, x >= at, NEW T,
           ToldAt(q, srv, will, h, at), Skips(h, T, x),
           \A m \in Incoming(h) : m <= T => m <= at \/ Tells(p, srv2, will2, h, m),
           \A m \in Incoming(h) : Tells(q, srv, will, h, m) => Tells(p, srv2, will2, h, m)
    PROVE  ToldAt(p, srv2, will2, h, x)
<1>1. CASE \A m \in Incoming(h) : m <= at => Tells(q, srv, will, h, m)
  <2>1. \A m \in Incoming(h) : m <= T => Tells(p, srv2, will2, h, m)
    BY <1>1
  <2> QED BY <2>1 DEF Skips, ToldAt
<1>2. CASE /\ LastMessage \in Outgoing[h] /\ Unread(h, at) = {}
           /\ \E y : \A m \in Incoming(h) : m # y => Tells(q, srv, will, h, m)
  <2>1. ASSUME NEW m \in Incoming(h) PROVE m <= x
    <3>1. m \in Nat /\ at \in Nat /\ x \in Nat /\ m <= at
      BY <1>2, AllWithin
    <3> QED BY <3>1
  <2>2. Unread(h, x) = {}
    BY <2>1, AllWithin DEF Unread
  <2> QED BY <1>2, <2>2 DEF ToldAt
<1> QED BY <1>1, <1>2 DEF ToldAt

\* It is the same with the same reads under way.
LEMMA SameAgrees ==
    ASSUME NEW q, NEW p, SameReads(p, q), NEW pos, NEW srv, NEW will, NEW done, NEW fin,
           Agree(q, pos, srv, will, done, fin)
    PROVE  Agree(p, pos, srv, will, done, fin)
<1>1. /\ \A h : ReadsFor(p, h) = ReadsFor(q, h)
      /\ \A h : \A r \in ReadsFor(q, h) : p.till[r] = q.till[r] /\ p.net[r] = q.net[r]
      /\ q.entries \cup q.pending \subseteq p.entries \cup p.pending
  BY DEF ReadsFor, SameReads
<1>2. IsTold(p, pos, srv, will)
  BY <1>1, MoreIsTold DEF Agree, Tells
<1>3. IsHeard(p, pos, srv, done, fin)
  BY <1>1 DEF Agree, IsHeard
<1>4. IsAsked(p, done, fin) /\ IsDone(p, srv, done, fin)
  BY <1>1 DEF Agree, IsAsked, IsDone
<1>5. Differ(p, will, done, fin)
  BY <1>1 DEF Agree, Differ
<1>6. Knows(p, srv)
  BY <1>1 DEF Agree, Knows
<1> QED BY <1>2, <1>3, <1>4, <1>5, <1>6 DEF Agree

\* The reads that are told take the place of what was to be told.
LEMMA ToldAgrees ==
    ASSUME NEW q, Typed(q), sendReads, NEW now \in SUBSET Chats,
           Injection(now, Free(q)) # {},
           NEW will \in [Chats -> Tills], NEW done \in [Chats -> Tills],
           NEW srv \in [Chats -> Tills], NEW pos, NEW fin, fin \subseteq Chats,
           \A h \in now : will[h] # 0, \A h \in Chats : will[h] # 0 => will[h] > done[h],
           Agree(q, pos, srv, will, done, fin)
    PROVE  Agree(Told(q, will, now), pos, srv,
                 [h \in Chats |-> IF h \in now THEN 0 ELSE will[h]],
                 [h \in Chats |-> IF h \in now THEN will[h] ELSE done[h]], fin \ now)
<1> DEFINE t == Told(q, will, now)
           will2 == [h \in Chats |-> IF h \in now THEN 0 ELSE will[h]]
           done2 == [h \in Chats |-> IF h \in now THEN will[h] ELSE done[h]]
<1>1. /\ t.entries = q.entries /\ t.pending = q.pending
      /\ \A r \in Requests : IsRead(q, r) =>
            /\ IsRead(t, r) /\ t.net[r] = q.net[r]
            /\ t.home[r] = q.home[r] /\ t.till[r] = q.till[r]
      /\ \A h \in now : \E r \in Requests : IsRead(t, r) /\ t.home[r] = h /\ t.till[r] = will[h]
      /\ \A r \in Requests : IsRead(t, r) =>
            \/ /\ t.net[r] = "asked" /\ t.home[r] \in now /\ t.till[r] = will[t.home[r]]
               /\ \A p \in Requests : IsRead(t, p) /\ p # r /\ t.home[p] = t.home[r] =>
                     IsRead(q, p)
            \/ IsRead(q, r)
  BY ToldReads
<1> HIDE DEF t
<1>2. \A h \in Chats : \A r \in ReadsFor(q, h) :
         r \in ReadsFor(t, h) /\ t.till[r] = q.till[r] /\ t.net[r] = q.net[r]
  BY <1>1 DEF ReadsFor
<1>3. \A h \in now : \E r \in ReadsFor(t, h) : t.till[r] = will[h]
  BY <1>1 DEF ReadsFor
<1>4. \A h \in Chats : \A r \in ReadsFor(t, h) :
         \/ r \in ReadsFor(q, h)
         \/ /\ h \in now /\ t.till[r] = will[h] /\ t.net[r] = "asked"
            /\ \A p \in ReadsFor(t, h) \ {r} : p \in ReadsFor(q, h)
  BY <1>1 DEF ReadsFor
<1>5. \A h \in Chats : /\ will[h] \in Nat /\ done[h] \in Nat /\ srv[h] \in Nat
                       /\ will2[h] = IF h \in now THEN 0 ELSE will[h]
                       /\ done2[h] = IF h \in now THEN will[h] ELSE done[h]
  BY TillsAreNumbers
<1>6. \A h \in Chats : \A r \in ReadsFor(q, h) : q.till[r] \in Nat
  BY TillsAreNumbers DEF ReadsFor, Typed
<1> HIDE DEF will2, done2
<1>7. IsTold(t, pos, srv, will2)
  <2>1. \A h \in Chats : \A m \in Incoming(h) :
           Tells(q, srv, will, h, m) => Tells(t, srv, will2, h, m)
    BY <1>2, <1>3, <1>5 DEF Tells
  <2> QED BY <2>1, MoreIsTold DEF Agree
<1>8. IsHeard(t, pos, srv, done2, fin \ now)
  <2> SUFFICES ASSUME NEW h \in Chats
               PROVE  \/ srv[h] <= pos[h]
                      \/ \E r \in ReadsFor(t, h) : srv[h] <= t.till[r]
                      \/ h \in fin \ now /\ srv[h] <= done2[h]
    BY DEF IsHeard
  <2>1. \/ srv[h] <= pos[h]
        \/ \E r \in ReadsFor(q, h) : srv[h] <= q.till[r]
        \/ h \in fin /\ srv[h] <= done[h]
    BY DEF Agree, IsHeard
  <2>2. CASE h \in fin /\ srv[h] <= done[h] /\ h \in now
    <3>1. will[h] > done[h]
      BY <2>2
    <3>2. srv[h] <= will[h]
      BY <1>5, <2>2, <3>1
    <3> QED BY <1>3, <2>2, <3>2
  <2> QED BY <1>2, <1>5, <2>1, <2>2
<1>9. IsAsked(t, done2, fin \ now)
  <2> SUFFICES ASSUME NEW h \in Chats
               PROVE  done2[h] = 0 \/ h \in fin \ now \/ \E r \in ReadsFor(t, h) : t.till[r] = done2[h]
    BY DEF IsAsked
  <2>1. done[h] = 0 \/ h \in fin \/ \E r \in ReadsFor(q, h) : q.till[r] = done[h]
    BY DEF Agree, IsAsked
  <2> QED BY <1>2, <1>3, <1>5, <2>1
<1>10. IsDone(t, srv, done2, fin \ now)
  BY <1>1, <1>5 DEF Agree, IsDone
<1>11. Differ(t, will2, done2, fin \ now)
  <2> SUFFICES ASSUME NEW h \in Chats, NEW r \in ReadsFor(t, h)
               PROVE  /\ will2[h] # 0 => t.till[r] < will2[h]
                      /\ h \in fin \ now => t.till[r] < done2[h]
                      /\ \A p \in ReadsFor(t, h) \ {r} : t.till[p] # t.till[r]
    BY DEF Differ
  <2>1. \A x \in ReadsFor(q, h) : /\ will[h] # 0 => q.till[x] < will[h]
                                  /\ h \in fin => q.till[x] < done[h]
                                  /\ \A p \in ReadsFor(q, h) \ {x} : q.till[p] # q.till[x]
    BY DEF Agree, Differ
  <2>2. CASE r \in ReadsFor(q, h)
    <3>1. ASSUME NEW p \in ReadsFor(t, h) \ {r}
          PROVE  t.till[p] # t.till[r]
      <4>1. CASE p \in ReadsFor(q, h)
        BY <1>2, <2>1, <2>2, <3>1, <4>1
      <4>2. CASE p \notin ReadsFor(q, h)
        <5>1. h \in now /\ t.till[p] = will[h]
          BY <1>4, <3>1, <4>2
        <5>2. t.till[r] = q.till[r] /\ q.till[r] < will[h] /\ q.till[r] \in Nat /\ will[h] \in Nat
          BY <1>2, <1>5, <1>6, <2>1, <2>2, <5>1
        <5> QED BY <5>1, <5>2
      <4> QED BY <4>1, <4>2
    <3> QED BY <1>2, <1>5, <2>1, <2>2, <3>1
  <2>3. CASE r \notin ReadsFor(q, h)
    <3>1. h \in now /\ t.till[r] = will[h] /\ \A p \in ReadsFor(t, h) \ {r} : p \in ReadsFor(q, h)
      BY <1>4, <2>3
    <3>2. ASSUME NEW p \in ReadsFor(t, h) \ {r}
          PROVE  t.till[p] # t.till[r]
      <4>1. t.till[p] = q.till[p] /\ q.till[p] < will[h] /\ q.till[p] \in Nat /\ will[h] \in Nat
        BY <1>2, <1>5, <1>6, <2>1, <3>1, <3>2
      <4> QED BY <3>1, <4>1
    <3> QED BY <1>5, <3>1, <3>2
  <2> QED BY <2>2, <2>3
<1>12. Knows(t, srv)
  <2> SUFFICES ASSUME NEW h \in Chats, NEW r \in ReadsFor(t, h)
               PROVE  t.till[r] > 0 /\ (t.net[r] = "handled" => t.till[r] <= srv[h])
    BY DEF Knows
  <2>1. CASE r \in ReadsFor(q, h)
    BY <1>2, <2>1 DEF Agree, Knows
  <2>2. CASE r \notin ReadsFor(q, h)
    <3>1. h \in now /\ t.till[r] = will[h] /\ t.net[r] = "asked" /\ will[h] # 0
      BY <1>4, <2>2
    <3> QED BY <1>5, <3>1
  <2> QED BY <2>1, <2>2
<1> QED BY <1>7, <1>8, <1>9, <1>10, <1>11, <1>12 DEF Agree, t, will2, done2

\* More is read here that is or will be read at the server.
LEMMA PositionAgrees ==
    ASSUME NEW q, Typed(q), NEW will \in [Chats -> Tills], NEW will2 \in [Chats -> Tills],
           NEW pos \in [Chats -> Tills], NEW pos2 \in [Chats -> Tills],
           NEW srv \in [Chats -> Tills], NEW done, NEW fin,
           Agree(q, pos, srv, will, done, fin),
           \A h \in Chats : pos2[h] >= pos[h] /\ will2[h] >= will[h],
           IsTold(q, pos2, srv, will2),
           \A h \in Chats : will2[h] # will[h] => \A r \in ReadsFor(q, h) : q.till[r] < will2[h]
    PROVE  Agree(q, pos2, srv, will2, done, fin)
<1>1. \A h \in Chats : /\ will[h] \in Nat /\ will2[h] \in Nat /\ pos[h] \in Nat /\ pos2[h] \in Nat
                       /\ srv[h] \in Nat
  BY TillsAreNumbers
<1>4. IsHeard(q, pos2, srv, done, fin)
  <2> SUFFICES ASSUME NEW h \in Chats
               PROVE  \/ srv[h] <= pos2[h]
                      \/ \E r \in ReadsFor(q, h) : srv[h] <= q.till[r]
                      \/ h \in fin /\ srv[h] <= done[h]
    BY DEF IsHeard
  <2>1. \/ srv[h] <= pos[h]
        \/ \E r \in ReadsFor(q, h) : srv[h] <= q.till[r]
        \/ h \in fin /\ srv[h] <= done[h]
    BY DEF Agree, IsHeard
  <2> QED BY <1>1, <2>1
<1>5. Differ(q, will2, done, fin)
  <2> SUFFICES ASSUME NEW h \in Chats, NEW r \in ReadsFor(q, h)
               PROVE  /\ will2[h] # 0 => q.till[r] < will2[h]
                      /\ h \in fin => q.till[r] < done[h]
                      /\ \A p \in ReadsFor(q, h) \ {r} : q.till[p] # q.till[r]
    BY DEF Differ
  <2> QED BY DEF Agree, Differ
<1> QED BY <1>4, <1>5 DEF Agree

\* The answer to a read: it is known to be read here, or the entry of the chat is asked for, or
\* a later one is under way.
LEMMA AnswerAgrees ==
    ASSUME NEW q, Typed(q), NEW p, NEW r \in Requests, IsRead(q, r), q.net[r] = "handled",
           NEW pos \in [Chats -> Tills], NEW srv \in [Chats -> Tills],
           NEW will \in [Chats -> Tills], NEW done \in [Chats -> Tills],
           NEW fin, fin \subseteq Chats,
           Agree(q, pos, srv, will, done, fin), Ordered(q, pos, done, will),
           NEW done2, NEW fin2, NEW h, h = q.home[r],
           ~IsRead(p, r),
           \A x \in Requests \ {r} :
              /\ IsRead(p, x) <=> IsRead(q, x)
              /\ IsRead(q, x) => /\ p.net[x] = q.net[x]
                                 /\ p.home[x] = q.home[x] /\ p.till[x] = q.till[x],
           q.entries \cup q.pending \subseteq p.entries \cup p.pending,
           \/ /\ done[h] # q.till[r] /\ (done[h] = 0 \/ done[h] > q.till[r])
              /\ done2 = done /\ fin2 = fin
           \/ /\ done[h] = q.till[r] /\ q.till[r] <= pos[h]
              /\ done2 = [done EXCEPT ![h] = 0] /\ fin2 = fin
           \/ /\ done[h] = q.till[r]
              /\ done2 = done /\ fin2 = fin \cup {h} /\ h \in p.entries \cup p.pending
    PROVE  Agree(p, pos, srv, will, done2, fin2)
<1>1. /\ \A g \in Chats : ReadsFor(p, g) = ReadsFor(q, g) \ {r}
      /\ \A g \in Chats : \A x \in ReadsFor(p, g) :
            p.till[x] = q.till[x] /\ p.net[x] = q.net[x] /\ q.till[x] \in Nat
      /\ r \in ReadsFor(q, h) /\ h \in Chats /\ q.till[r] \in Nat
      /\ \A g \in Chats : g # h => r \notin ReadsFor(q, g)
  BY TillsAreNumbers DEF ReadsFor, Typed
<1>2. \A g \in Chats : /\ pos[g] \in Nat /\ srv[g] \in Nat /\ will[g] \in Nat /\ done[g] \in Nat
                       /\ g # h => done2[g] = done[g] /\ (g \in fin2 <=> g \in fin)
  BY TillsAreNumbers
<1>3. q.till[r] <= srv[h] /\ q.till[r] > 0
  BY <1>1 DEF Agree, Knows
<1>4. h \in fin => q.till[r] < done[h]
  BY <1>1 DEF Agree, Differ
<1>5. done[h] = 0 => q.till[r] <= pos[h]
  BY DEF Ordered, IsRead
<1>6. IsTold(p, pos, srv, will)
  <2>1. ASSUME NEW g \in Chats, NEW m \in Incoming(g), Tells(q, srv, will, g, m)
        PROVE  Tells(p, srv, will, g, m)
    <3>1. m <= srv[g] \/ m <= will[g] \/ \E x \in ReadsFor(q, g) : m <= q.till[x]
      BY <2>1 DEF Tells
    <3>2. CASE g = h /\ m <= q.till[r]
      <4>1. m \in Nat
        BY HistoriesAssumption DEF Messages, Incoming
      <4> QED BY <1>1, <1>2, <1>3, <3>2, <4>1 DEF Tells
    <3> QED BY <1>1, <3>1, <3>2 DEF Tells
  <2> QED BY <2>1, MoreIsTold DEF Agree
<1>7. IsHeard(p, pos, srv, done2, fin2)
  <2> SUFFICES ASSUME NEW g \in Chats
               PROVE  \/ srv[g] <= pos[g]
                      \/ \E x \in ReadsFor(p, g) : srv[g] <= p.till[x]
                      \/ g \in fin2 /\ srv[g] <= done2[g]
    BY DEF IsHeard
  <2>1. \/ srv[g] <= pos[g]
        \/ \E x \in ReadsFor(q, g) : srv[g] <= q.till[x]
        \/ g \in fin /\ srv[g] <= done[g]
    BY DEF Agree, IsHeard
  <2>2. CASE g # h
    BY <1>1, <1>2, <2>1, <2>2
  <2>3. CASE g = h /\ srv[g] <= q.till[r]
    <3>1. CASE done[h] = 0
      BY <1>1, <1>2, <1>5, <2>3, <3>1
    <3>2. CASE done[h] # 0 /\ done[h] # q.till[r]
      <4>1. done[h] > q.till[r] /\ done2 = done /\ fin2 = fin
        BY <3>2
      <4>2. h \in fin \/ \E x \in ReadsFor(q, h) : q.till[x] = done[h]
        BY <1>1, <3>2 DEF Agree, IsAsked
      <4>3. srv[h] <= done[h]
        BY <1>1, <1>2, <2>3, <4>1
      <4> QED BY <1>1, <2>3, <3>2, <4>1, <4>2, <4>3
    <3>3. CASE done[h] = q.till[r]
      BY <1>1, <1>2, <1>3, <2>3, <3>3
    <3> QED BY <3>1, <3>2, <3>3
  <2>4. CASE g = h /\ ~(srv[g] <= q.till[r])
    BY <1>1, <1>2, <1>4, <2>1, <2>4
  <2> QED BY <2>2, <2>3, <2>4
<1>8. IsAsked(p, done2, fin2)
  <2> SUFFICES ASSUME NEW g \in Chats
               PROVE  done2[g] = 0 \/ g \in fin2 \/ \E x \in ReadsFor(p, g) : p.till[x] = done2[g]
    BY DEF IsAsked
  <2>1. done[g] = 0 \/ g \in fin \/ \E x \in ReadsFor(q, g) : q.till[x] = done[g]
    BY DEF Agree, IsAsked
  <2>2. CASE g # h
    BY <1>1, <1>2, <2>1, <2>2
  <2>3. CASE g = h
    BY <1>1, <1>2, <2>1, <2>3
  <2> QED BY <2>2, <2>3
<1>9. IsDone(p, srv, done2, fin2)
  <2> SUFFICES ASSUME NEW g \in fin2
               PROVE  done2[g] # 0 /\ done2[g] <= srv[g] /\ g \in p.entries \cup p.pending
    BY DEF IsDone
  <2>1. g \in Chats /\ (g \in fin => done[g] # 0 /\ done[g] <= srv[g] /\ g \in q.entries \cup q.pending)
    BY <1>1 DEF Agree, IsDone
  <2>2. CASE g # h
    BY <1>2, <2>1, <2>2
  <2>3. CASE g = h
    BY <1>1, <1>2, <1>3, <1>4, <2>1, <2>3
  <2> QED BY <2>2, <2>3
<1>10. Differ(p, will, done2, fin2)
  <2> SUFFICES ASSUME NEW g \in Chats, NEW x \in ReadsFor(p, g)
               PROVE  /\ will[g] # 0 => p.till[x] < will[g]
                      /\ g \in fin2 => p.till[x] < done2[g]
                      /\ \A y \in ReadsFor(p, g) \ {x} : p.till[y] # p.till[x]
    BY DEF Differ
  <2>1. x \in ReadsFor(q, g) /\ x # r /\ p.till[x] = q.till[x]
    BY <1>1
  <2>2. /\ will[g] # 0 => q.till[x] < will[g]
        /\ g \in fin => q.till[x] < done[g]
        /\ \A y \in ReadsFor(q, g) \ {x} : q.till[y] # q.till[x]
    BY <2>1 DEF Agree, Differ
  <2>3. \A y \in ReadsFor(p, g) \ {x} : p.till[y] # p.till[x]
    BY <1>1, <2>1, <2>2
  <2>4. g \in fin2 => p.till[x] < done2[g]
    <3>1. CASE g # h
      BY <1>2, <2>1, <2>2, <3>1
    <3>2. CASE g = h /\ done2 = done /\ done[h] = q.till[r]
      <4>1. q.till[x] # q.till[r]
        BY <1>1, <2>1, <2>2, <3>2
      <4>2. q.till[x] <= done[h]
        <5>1. IsRead(q, x) /\ q.home[x] = h
          BY <2>1, <3>2 DEF ReadsFor
        <5>2. done[h] # 0
          BY <1>1, <1>3, <3>2
        <5> QED BY <5>1, <5>2 DEF Ordered, IsRead, ReadsFor
      <4>3. q.till[x] \in Nat /\ q.till[r] \in Nat
        BY <1>1
      <4> QED BY <2>1, <3>2, <4>1, <4>2, <4>3
    <3>3. CASE g = h /\ fin2 = fin
      BY <1>1, <1>2, <1>4, <2>1, <2>2, <3>3
    <3> QED BY <3>1, <3>2, <3>3
  <2> QED BY <2>1, <2>2, <2>3, <2>4
<1>11. Knows(p, srv)
  BY <1>1 DEF Agree, Knows
<1> QED BY <1>6, <1>7, <1>8, <1>9, <1>10, <1>11 DEF Agree

\* The same reads are under way, whatever entries are asked for.
SameOnTheWay(p, q) ==
    \A r \in Requests :
        /\ IsRead(p, r) <=> IsRead(q, r)
        /\ IsRead(q, r) => p.net[r] = q.net[r] /\ p.home[r] = q.home[r] /\ p.till[r] = q.till[r]

\* The entries that are applied end the reads that are done.
LEMMA EntriesAgree ==
    ASSUME NEW q, NEW p, SameOnTheWay(p, q),
           NEW pos \in [Chats -> Tills], NEW srv \in [Chats -> Tills], NEW will,
           NEW done \in [Chats -> Tills], NEW fin, fin \subseteq Chats,
           Agree(q, pos, srv, will, done, fin),
           NEW done2 \in [Chats -> Tills], NEW fin2, fin2 \subseteq fin,
           \A h \in Chats :
              \/ done2[h] = done[h] /\ (h \in fin => h \in fin2 /\ h \in p.entries \cup p.pending)
              \/ done2[h] = 0 /\ h \notin fin2 /\ pos[h] >= done[h]
    PROVE  Agree(p, pos, srv, will, done2, fin2)
<1>1. /\ \A h : ReadsFor(p, h) = ReadsFor(q, h)
      /\ \A h : \A r \in ReadsFor(q, h) : p.till[r] = q.till[r] /\ p.net[r] = q.net[r]
  BY DEF ReadsFor, SameOnTheWay
<1>2. \A h \in Chats : pos[h] \in Nat /\ srv[h] \in Nat /\ done[h] \in Nat /\ done2[h] \in Nat
  BY TillsAreNumbers
<1>3. IsTold(p, pos, srv, will)
  BY <1>1, MoreIsTold DEF Agree, Tells
<1>4. IsHeard(p, pos, srv, done2, fin2)
  <2> SUFFICES ASSUME NEW h \in Chats
               PROVE  \/ srv[h] <= pos[h]
                      \/ \E r \in ReadsFor(p, h) : srv[h] <= p.till[r]
                      \/ h \in fin2 /\ srv[h] <= done2[h]
    BY DEF IsHeard
  <2>1. \/ srv[h] <= pos[h]
        \/ \E r \in ReadsFor(q, h) : srv[h] <= q.till[r]
        \/ h \in fin /\ srv[h] <= done[h]
    BY DEF Agree, IsHeard
  <2>2. CASE h \in fin /\ srv[h] <= done[h]
    BY <1>2, <2>2
  <2> QED BY <1>1, <1>2, <2>1, <2>2
<1>5. IsAsked(p, done2, fin2)
  BY <1>1, <1>2 DEF Agree, IsAsked
<1>6. IsDone(p, srv, done2, fin2)
  BY <1>1, <1>2 DEF Agree, IsDone
<1>7. Differ(p, will, done2, fin2)
  BY <1>1, <1>2 DEF Agree, Differ
<1>8. Knows(p, srv)
  BY <1>1 DEF Agree, Knows
<1> QED BY <1>3, <1>4, <1>5, <1>6, <1>7, <1>8 DEF Agree

\* The server handles a read.
LEMMA HandledAgrees ==
    ASSUME NEW q, Typed(q), NEW p, NEW r \in Requests, IsRead(q, r), IsRead(p, r),
           p.net[r] = "handled",
           \A x \in Requests : /\ IsRead(p, x) <=> IsRead(q, x)
                               /\ IsRead(q, x) /\ x # r => p.net[x] = q.net[x]
                               /\ p.home[x] = q.home[x] /\ p.till[x] = q.till[x],
           q.entries \cup q.pending \subseteq p.entries \cup p.pending,
           NEW pos \in [Chats -> Tills], NEW srv \in [Chats -> Tills], NEW will,
           NEW done \in [Chats -> Tills], NEW fin, fin \subseteq Chats,
           Agree(q, pos, srv, will, done, fin)
    PROVE  Agree(p, pos, [srv EXCEPT ![q.home[r]] = Max({@, q.till[r]})], will, done, fin)
<1> DEFINE h == q.home[r]
           srv2 == [srv EXCEPT ![h] = Max({@, q.till[r]})]
<1>1. /\ \A g : ReadsFor(p, g) = ReadsFor(q, g)
      /\ \A g : \A x \in ReadsFor(q, g) :
            p.till[x] = q.till[x] /\ (x # r => p.net[x] = q.net[x]) /\ q.till[x] \in Nat
      /\ r \in ReadsFor(q, h) /\ h \in Chats /\ q.till[r] \in Tills
      /\ \A g : g # h => r \notin ReadsFor(q, g)
  BY TillsAreNumbers DEF ReadsFor, Typed
<1>2. /\ Max({srv[h], q.till[r]}) \in {srv[h], q.till[r]}
      /\ Max({srv[h], q.till[r]}) >= srv[h] /\ Max({srv[h], q.till[r]}) >= q.till[r]
  <2>1. srv[h] \in Int /\ q.till[r] \in Int
    BY <1>1, TillsAreNumbers
  <2>2. \E x \in {srv[h], q.till[r]} : \A y \in {srv[h], q.till[r]} : x >= y
    BY <2>1
  <2> QED BY <2>2 DEF Max
<1>3. \A g \in Chats : /\ pos[g] \in Nat /\ srv[g] \in Nat /\ srv2[g] \in Nat /\ done[g] \in Nat
                       /\ srv2[g] >= srv[g]
                       /\ srv2[g] = srv[g] \/ (g = h /\ srv2[g] = q.till[r])
                       /\ g = h => srv2[g] >= q.till[r]
  <2>1. \A g \in Chats : srv2[g] = IF g = h THEN Max({srv[h], q.till[r]}) ELSE srv[g]
    BY <1>1
  <2>2. \A g \in Chats : pos[g] \in Nat /\ srv[g] \in Nat /\ done[g] \in Nat
    BY TillsAreNumbers
  <2>3. q.till[r] \in Nat /\ h \in Chats
    BY <1>1, TillsAreNumbers
  <2> DEFINE most == Max({srv[h], q.till[r]})
  <2>4. /\ most = srv[h] \/ most = q.till[r]
        /\ most >= srv[h] /\ most >= q.till[r]
    BY <1>2
  <2>5. \A g \in Chats : srv2[g] = IF g = h THEN most ELSE srv[g]
    BY <2>1
  <2> HIDE DEF srv2, h, most
  <2>6. ASSUME NEW g \in Chats
        PROVE  /\ srv2[g] \in Nat /\ srv2[g] >= srv[g]
               /\ srv2[g] = srv[g] \/ (g = h /\ srv2[g] = q.till[r])
               /\ g = h => srv2[g] >= q.till[r]
    <3>1. CASE g # h
      BY <2>2, <2>5, <3>1
    <3>2. CASE g = h
      BY <2>2, <2>3, <2>4, <2>5, <3>2
    <3> QED BY <3>1, <3>2
  <2> QED BY <2>2, <2>6
<1> HIDE DEF srv2, h
<1>4. IsTold(p, pos, srv2, will)
  <2>1. ASSUME NEW g \in Chats, NEW m \in Incoming(g), Tells(q, srv, will, g, m)
        PROVE  Tells(p, srv2, will, g, m)
    <3>1. m \in Nat
      BY HistoriesAssumption DEF Messages, Incoming
    <3>2. CASE m <= srv[g]
      <4>1. srv[g] \in Nat /\ srv2[g] \in Nat /\ srv2[g] >= srv[g]
        BY <1>3
      <4>2. m <= srv2[g]
        BY <3>1, <3>2, <4>1
      <4> QED BY <4>2 DEF Tells
    <3> QED BY <1>1, <2>1, <3>2 DEF Tells
  <2> QED BY <2>1, MoreIsTold DEF Agree
<1>5. IsHeard(p, pos, srv2, done, fin)
  <2> SUFFICES ASSUME NEW g \in Chats
               PROVE  \/ srv2[g] <= pos[g]
                      \/ \E x \in ReadsFor(p, g) : srv2[g] <= p.till[x]
                      \/ g \in fin /\ srv2[g] <= done[g]
    BY DEF IsHeard
  <2>1. \/ srv[g] <= pos[g]
        \/ \E x \in ReadsFor(q, g) : srv[g] <= q.till[x]
        \/ g \in fin /\ srv[g] <= done[g]
    BY DEF Agree, IsHeard
  <2>2. CASE srv2[g] = srv[g]
    BY <1>1, <2>1, <2>2
  <2>3. CASE g = h /\ srv2[g] = q.till[r]
    <3>1. p.till[r] = q.till[r] /\ q.till[r] \in Nat /\ r \in ReadsFor(p, g)
      BY <1>1, <2>3
    <3> QED BY <2>3, <3>1
  <2> QED BY <1>3, <2>2, <2>3
<1>6. IsAsked(p, done, fin)
  BY <1>1 DEF Agree, IsAsked
<1>7. IsDone(p, srv2, done, fin)
  <2> SUFFICES ASSUME NEW g \in fin
               PROVE  done[g] # 0 /\ done[g] <= srv2[g] /\ g \in p.entries \cup p.pending
    BY DEF IsDone
  <2>1. g \in Chats /\ done[g] # 0 /\ done[g] <= srv[g] /\ g \in q.entries \cup q.pending
    BY DEF Agree, IsDone
  <2>2. done[g] \in Nat /\ srv[g] \in Nat /\ srv2[g] \in Nat /\ srv2[g] >= srv[g]
    BY <1>3, <2>1
  <2> QED BY <2>1, <2>2
<1>8. Differ(p, will, done, fin)
  BY <1>1 DEF Agree, Differ
<1>9. Knows(p, srv2)
  <2> SUFFICES ASSUME NEW g \in Chats, NEW x \in ReadsFor(p, g)
               PROVE  p.till[x] > 0 /\ (p.net[x] = "handled" => p.till[x] <= srv2[g])
    BY DEF Knows
  <2>1. x \in ReadsFor(q, g) /\ p.till[x] = q.till[x] /\ q.till[x] \in Nat
    BY <1>1
  <2>2. q.till[x] > 0 /\ (q.net[x] = "handled" => q.till[x] <= srv[g])
    BY <2>1 DEF Agree, Knows
  <2>3. CASE x = r
    BY <1>1, <1>3, <2>1, <2>2, <2>3
  <2>4. CASE x # r
    <3>1. p.net[x] = q.net[x] /\ srv[g] \in Nat /\ srv2[g] \in Nat /\ srv2[g] >= srv[g]
      BY <1>1, <1>3, <2>1, <2>4
    <3> QED BY <2>1, <2>2, <3>1
  <2> QED BY <2>3, <2>4
<1> QED BY <1>4, <1>5, <1>6, <1>7, <1>8, <1>9 DEF Agree, srv2, h

-----------------------------------------------------------------------------
(* What is unread                                                          *)

\* Less is unread the more is read.
LEMMA UnreadShrinks ==
    ASSUME NEW h, NEW a \in Tills, NEW b \in Tills, a <= b
    PROVE  /\ Unread(h, b) \subseteq Unread(h, a)
           /\ Cardinality(Unread(h, b)) \in Nat /\ Cardinality(Unread(h, a)) \in Nat
           /\ Cardinality(Unread(h, b)) <= Cardinality(Unread(h, a))
<1>1. Unread(h, b) \subseteq Unread(h, a)
  <2>1. a \in Nat /\ b \in Nat /\ \A m \in Messages : m \in Nat
    BY TillsAreNumbers DEF Tills
  <2> QED BY <2>1 DEF Unread, Incoming
<1>2. IsFiniteSet(Unread(h, a)) /\ IsFiniteSet(Unread(h, b))
  BY UnreadSize
<1>3. Cardinality(Unread(h, b)) \in Nat /\ Cardinality(Unread(h, a)) \in Nat
  BY <1>2, FS_CardinalityType
<1> QED BY <1>1, <1>2, <1>3, FS_Subset

\* Nothing is unread after the last message.
LEMMA AllRead ==
    ASSUME NEW h
    PROVE  Unread(h, LastMessage) = {} /\ Cardinality(Unread(h, LastMessage)) = 0
<1>1. Unread(h, LastMessage) = {}
  BY HistoriesAssumption DEF Unread, Incoming, Messages
<1> QED BY <1>1, FS_EmptySet

\* Count c leaves out no message that is unread after pos, unless the last one is told.
Covers(h, c, pos, done) ==
    c = Unknown \/ done = LastMessage \/ c >= Cardinality(Unread(h, pos))

\* countStillUnreadLocal() leaves out no message that is still unread, and finds the same count
\* only if there is none between.
LEMMA StillUnreadCovers ==
    ASSUME NEW h \in Chats, count[h] \in Counts, position[h] \in Tills, NEW t \in Messages,
           NEW still \in StillUnread(h, t), still # Unknown,
           count[h] >= Cardinality(Unread(h, position[h]))
    PROVE  /\ position[h] <= t => still >= Cardinality(Unread(h, t))
           /\ t <= position[h] => still >= Cardinality(Unread(h, position[h]))
           /\ still = count[h] => \A m \in Incoming(h) : m <= t => m <= position[h]
<1> DEFINE before == Unread(h, position[h])
           after == Unread(h, t)
           gone == before \ after
           less == count[h] - Cardinality(gone)
<1>1. /\ IsFiniteSet(before) /\ IsFiniteSet(after) /\ IsFiniteSet(gone)
      /\ Cardinality(before) \in Nat /\ Cardinality(after) \in Nat /\ Cardinality(gone) \in Nat
  <2>1. IsFiniteSet(before) /\ IsFiniteSet(after)
    BY UnreadSize
  <2>2. IsFiniteSet(gone)
    BY <2>1, FS_Subset
  <2> QED BY <2>1, <2>2, FS_CardinalityType
<1>2. t \in Tills /\ t \in Nat /\ position[h] \in Nat /\ \A m \in Messages : m \in Nat
  BY TillsAreNumbers DEF Tills
<1>3. count[h] # Unknown
  BY DEF StillUnread
<1>4. count[h] \in Nat
  BY <1>3 DEF Counts
<1>5. still = Cardinality(after) \/ still = Max({0, less})
  BY <1>3 DEF StillUnread
<1>6. position[h] <= t => /\ after \subseteq before
                          /\ Cardinality(before) = Cardinality(gone) + Cardinality(after)
  <2> SUFFICES ASSUME position[h] <= t
               PROVE  /\ after \subseteq before
                      /\ Cardinality(before) = Cardinality(gone) + Cardinality(after)
    OBVIOUS
  <2>1. after \subseteq before
    BY <1>2, UnreadShrinks
  <2> HIDE DEF before, after
  <2>2. before = gone \cup after /\ gone \cap after = {}
    BY <2>1
  <2>3. Cardinality(gone \cap after) = 0
    BY <2>2, FS_EmptySet
  <2>4. IsFiniteSet(gone) /\ IsFiniteSet(after)
    BY <1>1
  <2> HIDE DEF gone
  <2>5. Cardinality(gone \cup after) =
            Cardinality(gone) + Cardinality(after) - Cardinality(gone \cap after)
    BY <2>4, FS_Union
  <2>6. Cardinality(gone) \in Nat /\ Cardinality(after) \in Nat
    BY <2>4, FS_CardinalityType
  <2>7. Cardinality(before) = Cardinality(gone) + Cardinality(after) - 0
    BY <2>2, <2>3, <2>5
  <2> QED BY <2>1, <2>6, <2>7
<1>7. t <= position[h] => Cardinality(gone) = 0 /\ Cardinality(after) >= Cardinality(before)
  <2> SUFFICES ASSUME t <= position[h]
               PROVE  Cardinality(gone) = 0 /\ Cardinality(after) >= Cardinality(before)
    OBVIOUS
  <2>1. before \subseteq after /\ Cardinality(before) <= Cardinality(after)
    BY <1>2, UnreadShrinks
  <2>2. gone = {}
    BY <2>1
  <2> QED BY <1>1, <2>1, <2>2, FS_EmptySet
<1>8. Max({0, less}) \in {0, less} /\ Max({0, less}) >= 0 /\ Max({0, less}) >= less /\ less \in Int
  <2>1. less \in Int
    BY <1>1, <1>4
  <2> HIDE DEF less
  <2>2. \E x \in {0, less} : \A y \in {0, less} : x >= y
    BY <2>1
  <2> QED BY <2>1, <2>2 DEF Max
<1>9. ASSUME still = count[h], NEW m \in Incoming(h), m <= t, ~(m <= position[h])
      PROVE  FALSE
  <2>1. position[h] <= t /\ m \in before /\ m \notin after /\ m \in gone
    BY <1>2, <1>9, AllWithin
  <2>2. Cardinality(gone) # 0
    BY <1>1, <2>1, FS_EmptySet
  <2> DEFINE b == Cardinality(before)
             a == Cardinality(after)
             g == Cardinality(gone)
  <2>3. b = g + a /\ g # 0 /\ b \in Nat /\ a \in Nat /\ g \in Nat /\ count[h] >= b
    BY <1>1, <1>6, <2>1, <2>2
  <2>4. still = a \/ still = 0 \/ still = count[h] - g
    BY <1>5, <1>8
  <2> HIDE DEF a, b, g
  <2> QED BY <1>4, <1>9, <2>3, <2>4
<1>10. position[h] <= t => still >= Cardinality(after)
  <2> DEFINE b == Cardinality(before)
             a == Cardinality(after)
             g == Cardinality(gone)
             x == Max({0, less})
  <2> SUFFICES ASSUME position[h] <= t PROVE still >= a
    OBVIOUS
  <2>1. /\ b = g + a /\ b \in Nat /\ a \in Nat /\ g \in Nat /\ count[h] >= b /\ less = count[h] - g
        /\ x \in {0, less} /\ x >= less
    BY <1>1, <1>6, <1>8
  <2>2. still = a \/ still = x
    BY <1>5
  <2> HIDE DEF a, b, g, less, x
  <2> QED BY <1>4, <2>1, <2>2
<1>11. t <= position[h] => still >= Cardinality(before)
  <2> DEFINE b == Cardinality(before)
             a == Cardinality(after)
             g == Cardinality(gone)
             x == Max({0, less})
  <2> SUFFICES ASSUME t <= position[h] PROVE still >= b
    OBVIOUS
  <2>1. /\ g = 0 /\ b \in Nat /\ a \in Nat /\ a >= b /\ count[h] >= b /\ less = count[h] - g
        /\ x \in {0, less} /\ x >= less
    BY <1>1, <1>7, <1>8
  <2>2. still = a \/ still = x
    BY <1>5
  <2> HIDE DEF a, b, g, less, x
  <2> QED BY <1>4, <2>1, <2>2
<1> QED BY <1>9, <1>10, <1>11

\* setUnreadCount() goes past none that is left, or past the one that is.
LEMMA GoesSkips ==
    ASSUME NEW h \in Chats, NEW T \in Tills, NEW x \in Tills, x >= T, NEW left,
           left >= Cardinality(Unread(h, T)),
           \/ x = T
           \/ left = 0 /\ x = LastMessage
           \/ left = 1 /\ x = LastMessage - 1
    PROVE  Skips(h, T, x)
<1> DEFINE u == Unread(h, T)
<1>1. IsFiniteSet(u) /\ Cardinality(u) \in Nat
  BY UnreadSize, FS_CardinalityType
<1>2. T \in Nat /\ x \in Nat /\ T <= LastMessage /\ LastMessage \in Nat
  BY TillsAreNumbers, HistoriesAssumption
<1>3. \A m \in Incoming(h) : m \in Nat /\ m <= LastMessage /\ (m \in u <=> ~(m <= T))
  BY AllWithin, HistoriesAssumption DEF Incoming, Messages
<1>4. u \subseteq Incoming(h)
  BY DEF Unread
<1> HIDE DEF u
<1>5. CASE x = T
  BY <1>5 DEF Skips
<1>6. CASE left = 0
  <2>1. Cardinality(u) = 0
    BY <1>1, <1>6 DEF u
  <2>2. u = {}
    BY <1>1, <2>1, FS_EmptySet
  <2> QED BY <1>3, <2>2 DEF Skips
<1>7. CASE left = 1 /\ x = LastMessage - 1
  <2>1. Cardinality(u) = 0 \/ Cardinality(u) = 1
    BY <1>1, <1>7 DEF u
  <2>2. \E y : u \subseteq {y}
    BY <1>1, <2>1, FS_EmptySet, FS_Singleton
  <2>3. CASE LastMessage \in Outgoing[h]
    <3>1. Unread(h, x) = {}
      <4> SUFFICES ASSUME NEW m \in Unread(h, x) PROVE FALSE
        OBVIOUS
      <4>1. m \in Incoming(h) /\ ~(m <= x)
        BY AllWithin DEF Unread
      <4>2. m = LastMessage
        BY <1>2, <1>3, <1>7, <4>1
      <4> QED BY <2>3, <4>1, <4>2 DEF Incoming
    <3> QED BY <1>3, <2>2, <2>3, <3>1 DEF Skips
  <2>4. CASE LastMessage \notin Outgoing[h]
    <3>1. LastMessage \in u
      <4>1. LastMessage \in Incoming(h)
        BY <2>4, HistoriesAssumption DEF Incoming, Messages
      <4>2. ~(LastMessage <= T)
        BY <1>2, <1>7
      <4> QED BY <1>3, <4>1, <4>2
    <3>2. ASSUME NEW m \in Incoming(h), m <= x PROVE m <= T
      <4>1. m # LastMessage
        BY <1>2, <1>3, <1>7, <3>2
      <4>2. m \notin u
        BY <2>2, <3>1, <4>1
      <4> QED BY <1>3, <4>2
    <3> QED BY <3>2 DEF Skips
  <2> QED BY <2>3, <2>4
<1> QED BY <1>5, <1>6, <1>7


-----------------------------------------------------------------------------
(* Every step leaves both sides in agreement                               *)

\* What every step starts from, as long as reads are always sent.
Steady ==
    /\ Inv /\ OrderInv /\ TypeInv /\ alwaysSent
    /\ Agree(Now, position, serverTill, willTill, sentTill, sentDone)
    /\ NoOwnReads(Now) /\ BatchesKnow /\ WillIsRead /\ CountCovers

\* What stays when nothing of the agreement changes has its types.
LEMMA SteadyTypes ==
    Steady => /\ sendReads /\ Typed(Now) /\ Apart(Now)
              /\ position \in [Chats -> Tills] /\ serverTill \in [Chats -> Tills]
              /\ willTill \in [Chats -> Tills] /\ sentTill \in [Chats -> Tills]
              /\ count \in [Chats -> Counts] /\ sentDone \subseteq Chats
              /\ Ordered(Now, position, sentTill, willTill)
BY TypeInvNow DEF Steady, OrderInv, TypeInv, LocalTyped, ReadsTyped, RestTyped

\* What is left to show of a step.
Agreeing ==
    /\ Agree(Now, position, serverTill, willTill, sentTill, sentDone)
    /\ NoOwnReads(Now) /\ BatchesKnow /\ WillIsRead /\ CountCovers

\* It only depends on the variables.
LEMMA AgreeingAfter ==
    ASSUME NEW STATE q, Agree(q, position', serverTill', willTill', sentTill', sentDone'),
           NoOwnReads(q), SameReads(Now', q), BatchesKnow', WillIsRead', CountCovers'
    PROVE  Agreeing'
<1>1. Agree(Now', position', serverTill', willTill', sentTill', sentDone')
  BY SameAgrees
<1>2. NoOwnReads(Now')
  BY DEF SameReads
<1> QED BY <1>1, <1>2 DEF Agreeing

\* The actions that change nothing but the requests.
LEMMA RequestsAgree ==
    ASSUME Steady, NEW STATE q, Typed(q), SameReads(q, Now), Becomes(q),
           UNCHANGED <<reads, local, rest>>
    PROVE  Agreeing'
<1>1. SameReads(Now', q)
  BY BecomesSame
<1>2. SameReads(Now', Now)
  BY <1>1, SameReadsTransitive
<1>3. /\ position' = position /\ serverTill' = serverTill /\ willTill' = willTill
      /\ sentTill' = sentTill /\ sentDone' = sentDone /\ batches' = batches /\ count' = count
  BY DEF reads, local, rest
<1>4. BatchesKnow' /\ WillIsRead' /\ CountCovers'
  BY <1>3 DEF Steady, BatchesKnow, WillIsRead, CountCovers
<1> QED BY <1>2, <1>3, <1>4, AgreeingAfter DEF Steady

\* The actions that change nothing of the requests and the reads.
LEMMA UnchangedSame ==
    ASSUME UNCHANGED queue
    PROVE  SameReads(Now', Now)
<1>1. Now' = Now
  BY DEF queue, Now
<1> QED BY <1>1 DEF SameReads

\* sendReadRequests(), and what is done to the requests after it.
LEMMA ToldAgree ==
    ASSUME Steady, NEW STATE q, Typed(q), NoOwnReads(q), Free(q) = Free(Now),
           NEW STATE will, will \in [Chats -> Tills],
           NEW STATE done, done \in [Chats -> Tills],
           NEW STATE late, NEW now \in DueNow(will, late),
           NEW STATE finished, finished \subseteq Chats, NEW STATE active,
           NEW STATE p, Typed(p), SameReads(p, Told(q, will, now)), Becomes(p),
           ReadsBecome(will, done, finished, now, active),
           \A h \in Chats : will[h] # 0 => will[h] > done[h],
           NEW STATE pos, Agree(q, pos, serverTill, will, done, finished)
    PROVE  /\ Agree(Now', pos, serverTill, willTill', sentTill', sentDone')
           /\ NoOwnReads(Now')
           /\ \A h \in Chats : /\ willTill'[h] = IF h \in now THEN 0 ELSE will[h]
                               /\ sentTill'[h] = IF h \in now THEN will[h] ELSE done[h]
                               /\ done[h] = LastMessage => sentTill'[h] = LastMessage
<1>1. sendReads /\ serverTill \in [Chats -> Tills]
  BY SteadyTypes
<1>2. now \in SUBSET Chats /\ Injection(now, Free(q)) # {} /\ \A h \in now : will[h] # 0
  BY <1>1 DEF DueNow
<1> DEFINE t == Told(q, will, now)
           willNow == [h \in Chats |-> IF h \in now THEN 0 ELSE will[h]]
           sentNow == [h \in Chats |-> IF h \in now THEN will[h] ELSE done[h]]
<1>3. Agree(t, pos, serverTill, willNow, sentNow, finished \ now)
  BY <1>1, <1>2, ToldAgrees
<1>4. NoOwnReads(t)
  BY <1>1, <1>2, ToldReads
<1>5. SameReads(Now', t)
  BY BecomesSame, SameReadsTransitive
<1>6. willTill' = willNow /\ sentTill' = sentNow /\ sentDone' = finished \ now
  BY <1>1 DEF ReadsBecome
<1>7. ASSUME NEW h \in Chats, done[h] = LastMessage PROVE h \notin now
  <2>1. will[h] \in Nat /\ will[h] <= LastMessage /\ LastMessage \in Nat
    BY TillsAreNumbers, HistoriesAssumption
  <2> QED BY <1>2, <1>7, <2>1
<1> HIDE DEF t
<1>8. Agree(Now', pos, serverTill, willNow, sentNow, finished \ now)
  BY <1>3, <1>5, SameAgrees
<1>9. NoOwnReads(Now')
  BY <1>4, <1>5 DEF SameReads
<1> QED BY <1>6, <1>7, <1>8, <1>9

\* What is told has been read here, and the counts stay.
LEMMA ToldLeaves ==
    ASSUME Steady, NEW STATE will, will \in [Chats -> Tills], NEW now,
           UNCHANGED local,
           \A h \in Chats : /\ willTill'[h] = IF h \in now THEN 0 ELSE will[h]
                            /\ h \in now \/ will[h] = willTill[h]
                            /\ sentTill[h] = LastMessage => \/ sentTill'[h] = LastMessage
                                                            \/ position[h] = LastMessage
    PROVE  WillIsRead' /\ CountCovers'
<1>1. /\ position' = position /\ count' = count
      /\ position \in [Chats -> Tills] /\ count \in [Chats -> Counts]
  BY SteadyTypes DEF local
<1>2. WillIsRead'
  <2>1. ASSUME NEW h \in Chats PROVE willTill'[h] <= position'[h]
    <3>1. willTill[h] <= position[h]
      BY DEF Steady, WillIsRead
    <3>2. position[h] \in Nat
      BY <1>1, TillsAreNumbers
    <3>3. willTill'[h] = 0 \/ willTill'[h] = willTill[h]
      OBVIOUS
    <3> QED BY <1>1, <3>1, <3>2, <3>3
  <2> QED BY <2>1 DEF WillIsRead
<1>3. CountCovers'
  <2>1. ASSUME NEW h \in Chats
        PROVE  \/ count'[h] = Unknown \/ sentTill'[h] = LastMessage
               \/ count'[h] >= Cardinality(Unread(h, position'[h]))
    <3>1. \/ count[h] = Unknown \/ sentTill[h] = LastMessage
          \/ count[h] >= Cardinality(Unread(h, position[h]))
      BY DEF Steady, CountCovers
    <3>2. CASE position[h] = LastMessage
      <4>1. Cardinality(Unread(h, position[h])) = 0
        BY <3>2, AllRead
      <4>2. count[h] = Unknown \/ count[h] \in Nat
        BY <1>1 DEF Counts
      <4> QED BY <1>1, <4>1, <4>2
    <3> QED BY <1>1, <3>1, <3>2
  <2> QED BY <2>1 DEF CountCovers, Unread, Incoming
<1> QED BY <1>2, <1>3

\* sendReadRequests() when nothing was read.
LEMMA SendReadRequestsAgree ==
    ASSUME Steady, NEW STATE late, NEW STATE active, NEW now \in DueNow(willTill, late),
           Becomes(Told(Now, willTill, now)),
           ReadsBecome(willTill, sentTill, sentDone, now, active),
           UNCHANGED <<local, rest>>
    PROVE  Agreeing'
<1>1. /\ sendReads /\ Typed(Now) /\ sentTill \in [Chats -> Tills]
      /\ willTill \in [Chats -> Tills] /\ sentDone \subseteq Chats
  BY SteadyTypes
<1>2. /\ position' = position /\ serverTill' = serverTill /\ batches' = batches
  BY DEF local, rest
<1>3. Typed(Told(Now, willTill, now))
  BY <1>1, ToldTyped DEF DueNow
<1>4. SameReads(Told(Now, willTill, now), Told(Now, willTill, now))
  BY DEF SameReads
<1>5. \A h \in Chats : willTill[h] # 0 => willTill[h] > sentTill[h]
  BY DEF Steady, Inv, ReadsGrow
<1>6. Agree(Now, position, serverTill, willTill, sentTill, sentDone) /\ NoOwnReads(Now)
  BY DEF Steady
<1>7. /\ Agree(Now', position, serverTill, willTill', sentTill', sentDone')
      /\ NoOwnReads(Now')
      /\ \A h \in Chats : /\ willTill'[h] = IF h \in now THEN 0 ELSE willTill[h]
                          /\ sentTill[h] = LastMessage => sentTill'[h] = LastMessage
  BY <1>1, <1>3, <1>4, <1>5, <1>6, ToldAgree
<1>8. WillIsRead' /\ CountCovers'
  BY <1>1, <1>7, ToldLeaves
<1>9. BatchesKnow'
  BY <1>2 DEF Steady, BatchesKnow
<1> QED BY <1>2, <1>7, <1>8, <1>9 DEF Agreeing

\* A read that waited is told.
LEMMA SendPendingAgree ==
    ASSUME Steady, NEW h \in Chats, SendPending(h), UNCHANGED <<local, rest>>
    PROVE  Agreeing'
<1>1. CASE UNCHANGED <<queue, reads>>
  <2>1. /\ Agree(Now, position', serverTill', willTill', sentTill', sentDone')
        /\ NoOwnReads(Now) /\ SameReads(Now', Now)
    BY <1>1, UnchangedSame DEF Steady, reads, local, rest
  <2>2. BatchesKnow' /\ WillIsRead' /\ CountCovers'
    BY <1>1 DEF Steady, reads, local, rest, BatchesKnow, WillIsRead, CountCovers
  <2> QED BY <2>1, <2>2, AgreeingAfter
<1>2. CASE SendReadRequests(willTill, delayed \ {h})
  <2>1. PICK now \in DueNow(willTill, delayed \ {h}) :
           /\ Becomes(Told(Now, willTill, now))
           /\ ReadsBecome(willTill, sentTill, sentDone, now, timer)
    BY <1>2 DEF SendReadRequests
  <2> QED BY <2>1, SendReadRequestsAgree
<1> QED BY <1>1, <1>2 DEF SendPending

\* The timer tells what waited.
LEMMA ReadTimerFiresAgree ==
    ASSUME Steady, ReadTimerFires
    PROVE  Agreeing'
<1>1. PICK now \in DueNow(willTill, delayed) :
          /\ Becomes(Told(Now, willTill, now))
          /\ ReadsBecome(willTill, sentTill, sentDone, now, FALSE)
  BY DEF ReadTimerFires
<1> QED BY <1>1, SendReadRequestsAgree DEF ReadTimerFires

\* What a count covers it covers when more is read, or all.
LEMMA CoversFurther ==
    ASSUME NEW h, NEW c \in Counts, NEW at \in Tills, NEW x \in Tills, at <= x, NEW done,
           Covers(h, c, at, done)
    PROVE  Covers(h, c, x, done)
<1>1. CASE c \in Nat /\ c >= Cardinality(Unread(h, at))
  <2> DEFINE a == Cardinality(Unread(h, at))
             b == Cardinality(Unread(h, x))
  <2>1. a \in Nat /\ b \in Nat /\ b <= a /\ c >= a
    BY <1>1, UnreadShrinks
  <2>2. c >= b
    <3> HIDE DEF a, b
    <3> QED BY <1>1, <2>1
  <2> QED BY <2>2 DEF Covers
<1> QED BY <1>1 DEF Covers, Counts

\* Any count covers it when all is read.
LEMMA CoversAll ==
    ASSUME NEW h, NEW c \in Counts, NEW done
    PROVE  Covers(h, c, LastMessage, done)
BY AllRead DEF Covers, Counts

\* The syncGuard takes the position and the count to the end, if anywhere.
LEMMA SyncGoes ==
    ASSUME Steady, NEW h \in Chats, NEW t \in Messages, OnlySync(h, t)
    PROVE  \E x, c : /\ LocalGoes(h, x, c) /\ c \in Counts
                     /\ x = position[h] \/ (t = LastMessage /\ x = LastMessage)
                     /\ c = count[h] \/ t = LastMessage
<1>1. /\ position \in [Chats -> Tills] /\ count = [g \in Chats |-> count[g]]
      /\ count \in [Chats -> Counts] /\ 0 \in Counts
      /\ position[h] >= position[h]
  BY SteadyTypes, TillsAreNumbers, HistoriesAssumption DEF Counts
<1>2. \/ position' = position /\ count' = count
      \/ /\ t = LastMessage /\ count[h] > 0
         /\ \E x \in {position[h], LastMessage} : LocalGoes(h, x, 0)
  BY <1>1, OnlySyncIs
<1>3. CASE position' = position /\ count' = count
  <2>1. LocalGoes(h, position[h], count[h])
    BY <1>1, <1>3 DEF LocalGoes
  <2> QED BY <1>1, <2>1
<1> QED BY <1>1, <1>2, <1>3

\* What is read here goes past what is counted only, and the count covers the rest.
LEMMA MarkGoes ==
    ASSUME Steady, NEW h \in Chats, NEW t \in Messages, ~SentEnough(h, t),
           NEW still \in StillUnread(h, t), still # Unknown, MarkRead(h, t, still)
    PROVE  /\ \E x, c : /\ LocalGoes(h, x, c) /\ x >= t /\ \A done : Covers(h, c, x, done)
                        /\ Skips(h, Max({position[h], t}), x)
           /\ still = count[h] => \A m \in Incoming(h) : m <= t => m <= position[h]
<1>1. /\ position[h] \in Tills /\ count[h] \in Counts /\ sentTill[h] \in Nat
      /\ position[h] \in Nat /\ t \in Nat /\ t <= LastMessage /\ t \in Tills
      /\ position[h] <= LastMessage /\ LastMessage \in Nat
  BY SteadyTypes, TillsAreNumbers, HistoriesAssumption DEF Tills
<1>2. count[h] >= Cardinality(Unread(h, position[h]))
  <2>1. count[h] # Unknown
    BY DEF StillUnread
  <2>2. sentTill[h] # LastMessage
    BY <1>1 DEF SentEnough
  <2> QED BY <2>1, <2>2 DEF Steady, CountCovers
<1>3. /\ position[h] <= t => still >= Cardinality(Unread(h, t))
      /\ t <= position[h] => still >= Cardinality(Unread(h, position[h]))
      /\ still = count[h] => \A m \in Incoming(h) : m <= t => m <= position[h]
  BY <1>1, <1>2, StillUnreadCovers
<1> DEFINE most == Max({position[h], t})
<1>4. most \in Tills /\ (most = position[h] \/ most = t) /\ most >= position[h] /\ most >= t
  <2>1. \E x \in {position[h], t} : \A y \in {position[h], t} : x >= y
    BY <1>1
  <2>2. most \in {position[h], t} /\ \A y \in {position[h], t} : most >= y
    BY <2>1 DEF Max
  <2> QED BY <1>1, <2>2
<1>5. PICK x, c : /\ LocalGoes(h, x, c) /\ x >= t
                  /\ c = still \/ (t = LastMessage /\ still > 0 /\ c = 0)
                  /\ \/ x = most
                     \/ still = 0 /\ x = LastMessage
                     \/ still = 1 /\ x = LastMessage - 1
  BY <1>1, MarkReadIs
<1> HIDE DEF most
<1>6. still >= Cardinality(Unread(h, most))
  BY <1>1, <1>3, <1>4
<1>7. still \in Counts /\ 0 \in Counts
  BY <1>1, StillUnreadTyped, HistoriesAssumption DEF Counts
<1>8. x \in Tills /\ x >= most /\ x <= LastMessage /\ x \in Nat
  BY <1>1, <1>4, <1>5, TillsAreNumbers DEF LocalGoes
<1>9. Skips(h, most, x)
  BY <1>4, <1>5, <1>6, <1>8, GoesSkips
<1>10. ASSUME NEW done PROVE Covers(h, c, x, done)
  <2>1. CASE c = still
    <3>1. Covers(h, c, most, done)
      BY <1>6, <2>1 DEF Covers
    <3>2. most <= x
      BY <1>4, <1>8, TillsAreNumbers
    <3> QED BY <1>4, <1>7, <1>8, <2>1, <3>1, <3>2, CoversFurther
  <2>2. CASE t = LastMessage /\ c = 0
    <3>1. x = LastMessage
      BY <1>1, <1>5, <1>8, <2>2
    <3> QED BY <1>7, <2>2, <3>1, CoversAll
  <2> QED BY <1>5, <2>1, <2>2
<1> QED BY <1>3, <1>5, <1>9, <1>10 DEF most

\* What was told last is known to the server, or on the way to it.
LEMMA SentTells ==
    ASSUME Steady, NEW h \in Chats, sentTill[h] # 0, NEW m \in Incoming(h), m <= sentTill[h]
    PROVE  Tells(Now, serverTill, willTill, h, m)
<1>1. m \in Nat /\ sentTill[h] \in Nat /\ serverTill[h] \in Nat
  BY SteadyTypes, TillsAreNumbers, HistoriesAssumption DEF Incoming, Messages
<1>2. h \in sentDone \/ \E r \in ReadsFor(Now, h) : Now.till[r] = sentTill[h]
  BY DEF Steady, Agree, IsAsked
<1>3. h \in sentDone => sentTill[h] <= serverTill[h]
  BY DEF Steady, Agree, IsDone
<1> QED BY <1>1, <1>2, <1>3 DEF Tells

\* Once the history is read until x the rest is as it was.
LEMMA OneGoesTold ==
    ASSUME Steady, NEW h \in Chats, NEW will \in [Chats -> Tills],
           \A g \in Chats : will[g] >= willTill[g],
           NEW x \in Tills, x >= position[h], NEW T, Skips(h, T, x),
           \A m \in Incoming(h) : m <= T =>
              m <= position[h] \/ Tells(Now, serverTill, will, h, m)
    PROVE  IsTold(Now, [position EXCEPT ![h] = x], serverTill, will)
<1>1. \A g \in Chats : \A m \in Incoming(g) :
         Tells(Now, serverTill, willTill, g, m) => Tells(Now, serverTill, will, g, m)
  <2> SUFFICES ASSUME NEW g \in Chats, NEW m \in Incoming(g), m <= willTill[g]
               PROVE  m <= will[g]
    BY DEF Tells
  <2>1. m \in Nat /\ will[g] \in Nat /\ willTill[g] \in Nat
    BY SteadyTypes, TillsAreNumbers, HistoriesAssumption DEF Incoming, Messages
  <2> QED BY <2>1
<1> SUFFICES ASSUME NEW g \in Chats
             PROVE  ToldAt(Now, serverTill, will, g, [position EXCEPT ![h] = x][g])
  BY DEF IsTold
<1>2. position \in [Chats -> Tills] /\ position[g] \in Tills
  BY SteadyTypes
<1>3. ToldAt(Now, serverTill, willTill, g, position[g])
  BY DEF Steady, Agree, IsTold
<1>4. CASE g = h
  <2>1. [position EXCEPT ![h] = x][g] = x
    BY <1>2, <1>4
  <2>2. ToldAt(Now, serverTill, will, h, x)
    BY <1>1, <1>2, <1>3, <1>4, GoesTold
  <2> QED BY <1>4, <2>1, <2>2
<1>5. CASE g # h
  <2>1. [position EXCEPT ![h] = x][g] = position[g]
    BY <1>2, <1>5
  <2>2. ToldAt(Now, serverTill, will, g, position[g])
    BY <1>1, <1>3 DEF ToldAt
  <2> QED BY <2>1, <2>2
<1> QED BY <1>4, <1>5

\* The counts, one by one.
LEMMA CoversEach ==
    ASSUME \A h \in Chats : Covers(h, count'[h], position'[h], sentTill'[h])
    PROVE  CountCovers'
BY DEF CountCovers, Covers, Unread, Incoming

\* ... and all of them together.
LEMMA EachCovers ==
    ASSUME Steady, NEW h \in Chats
    PROVE  Covers(h, count[h], position[h], sentTill[h])
BY DEF Steady, CountCovers, Covers

\* A message is read: now, later, or with those before it.
LEMMA ReadInboxTillAgree ==
    ASSUME Steady, NEW h \in Chats, NEW t \in Messages, NEW force \in BOOLEAN,
           ReadInboxTill(h, t, force)
    PROVE  Agreeing'
<1>0. /\ sendReads /\ Typed(Now)
      /\ position \in [Chats -> Tills] /\ serverTill \in [Chats -> Tills]
      /\ willTill \in [Chats -> Tills] /\ sentTill \in [Chats -> Tills]
      /\ count \in [Chats -> Counts] /\ sentDone \subseteq Chats
      /\ Ordered(Now, position, sentTill, willTill)
  BY SteadyTypes
<1>1. /\ t \in Tills /\ t \in Nat /\ t <= LastMessage /\ t # 0
      /\ \A x \in Tills : x \in Nat /\ x <= LastMessage
      /\ LastMessage \in Nat
  BY TillsAreNumbers, HistoriesAssumption DEF Tills, Messages
<1>num. \A g \in Chats : /\ position[g] \in Nat /\ position[g] <= LastMessage
                         /\ willTill[g] \in Nat /\ willTill[g] <= LastMessage
                         /\ sentTill[g] \in Nat /\ sentTill[g] <= LastMessage
                         /\ serverTill[g] \in Nat
  BY <1>0, TillsAreNumbers
<1>2. serverTill' = serverTill /\ batches' = batches
  BY DEF ReadInboxTill, rest
<1>3. BatchesKnow'
  BY <1>2 DEF Steady, BatchesKnow
<1>4. Agree(Now, position, serverTill, willTill, sentTill, sentDone) /\ NoOwnReads(Now)
  BY DEF Steady
<1>5. \A g \in Chats : willTill[g] <= position[g]
  BY DEF Steady, WillIsRead
<1> DEFINE most == Max({position[h], t})
           nothing == \/ ~NeedsRequest(h, t) /\ (~force \/ willTill[h] = 0)
                      \/ SentEnough(h, t)
           enough == willTill[h] >= t
           will == [willTill EXCEPT ![h] = t]
<1>6. /\ most \in Tills /\ most >= position[h] /\ most >= t
      /\ most = position[h] \/ most = t
  <2>1. most \in Tills /\ most >= position[h] /\ most >= t
    BY <1>0, <1>1, MaxOfTwo
  <2>2. \E x \in {position[h], t} : \A y \in {position[h], t} : x >= y
    <3>1. position[h] \in Nat /\ t \in Nat
      BY <1>num, <1>1
    <3> QED BY <3>1
  <2>3. most \in {position[h], t}
    BY <2>2 DEF Max
  <2> QED BY <2>1, <2>3
<1>7. /\ will \in [Chats -> Tills]
      /\ will[h] = t /\ \A g \in Chats \ {h} : will[g] = willTill[g]
  BY <1>0, <1>1
\* What the history becomes.
<1>goes. ASSUME NEW x, NEW c, LocalGoes(h, x, c)
         PROVE  /\ position' = [position EXCEPT ![h] = x] /\ position' \in [Chats -> Tills]
                /\ x \in Tills /\ x \in Nat /\ x <= LastMessage /\ x >= position[h]
                /\ position'[h] = x /\ count'[h] = c
                /\ \A g \in Chats : position'[g] >= position[g] /\ position'[g] \in Nat
                /\ \A g \in Chats \ {h} : position'[g] = position[g] /\ count'[g] = count[g]
  <2>1. /\ position' = [position EXCEPT ![h] = x] /\ count' = [count EXCEPT ![h] = c]
        /\ x \in Tills /\ x >= position[h]
    BY <1>goes DEF LocalGoes
  <2>2. x \in Nat /\ x <= LastMessage
    BY <1>1, <2>1
  <2> QED BY <1>0, <1>num, <2>1, <2>2
<1>covers. ASSUME NEW x, NEW c, LocalGoes(h, x, c), Covers(h, c, x, sentTill'[h]),
                  \A g \in Chats : sentTill'[g] = sentTill[g] \/ g = h
                                   \/ (sentTill[g] = LastMessage => sentTill'[g] = LastMessage)
           PROVE  CountCovers'
  <2>1. ASSUME NEW g \in Chats PROVE Covers(g, count'[g], position'[g], sentTill'[g])
    <3>1. CASE g = h
      BY <1>covers, <1>goes, <3>1
    <3>2. CASE g # h
      <4>1. Covers(g, count[g], position[g], sentTill[g])
        BY EachCovers
      <4>2. position'[g] = position[g] /\ count'[g] = count[g]
        BY <1>covers, <1>goes, <3>2
      <4>3. sentTill[g] = LastMessage => sentTill'[g] = LastMessage
        BY <1>covers, <3>2
      <4> QED BY <4>1, <4>2, <4>3 DEF Covers
    <3> QED BY <3>1, <3>2
  <2> QED BY <2>1, CoversEach
\* What is synchronised with the last message has been read, or told.
<1>8. ASSUME OnlySync(h, t), nothing \/ enough
      PROVE  \E x, c : /\ LocalGoes(h, x, c)
                       /\ Agree(Now, position', serverTill, willTill, sentTill, sentDone)
                       /\ Covers(h, c, x, sentTill[h])
  <2>1. PICK x, c : /\ LocalGoes(h, x, c) /\ c \in Counts
                    /\ x = position[h] \/ (t = LastMessage /\ x = LastMessage)
                    /\ c = count[h] \/ t = LastMessage
    BY <1>8, SyncGoes
  <2>2. position[h] >= t \/ sentTill[h] >= t
    <3>1. position[h] >= t \/ sentTill[h] >= t \/ willTill[h] >= t
      BY <1>1, <1>num, <1>8 DEF NeedsRequest, SentEnough
    <3> QED BY <1>1, <1>num, <1>5, <3>1
  <2>3. ASSUME NEW m \in Incoming(h), m <= x
        PROVE  m <= position[h] \/ Tells(Now, serverTill, willTill, h, m)
    <3>1. CASE x = position[h]
      BY <2>3, <3>1
    <3>2. CASE x = LastMessage /\ t = LastMessage /\ position[h] >= t
      <4>1. m \in Nat
        BY HistoriesAssumption DEF Incoming, Messages
      <4> QED BY <1>1, <1>num, <2>3, <3>2, <4>1
    <3>3. CASE x = LastMessage /\ t = LastMessage /\ sentTill[h] >= t
      <4>1. m <= sentTill[h] /\ sentTill[h] # 0
        BY <1>1, <1>num, <2>3, <3>3
      <4> QED BY <4>1, SentTells
    <3> QED BY <2>1, <2>2, <3>1, <3>2, <3>3
  <2>4. Skips(h, x, x)
    BY DEF Skips
  <2>5. \A g \in Chats : willTill[g] >= willTill[g]
    BY <1>num
  <2>6. IsTold(Now, position', serverTill, willTill)
    BY <1>0, <1>goes, <2>1, <2>3, <2>4, <2>5, OneGoesTold
  <2>7. Agree(Now, position', serverTill, willTill, sentTill, sentDone)
    BY <1>0, <1>4, <1>goes, <2>1, <2>5, <2>6, PositionAgrees
  <2>8. Covers(h, c, x, sentTill[h])
    <3>1. CASE t = LastMessage /\ position[h] >= t
      <4>1. x = LastMessage
        BY <1>1, <1>goes, <1>num, <2>1, <3>1
      <4> QED BY <2>1, <4>1, CoversAll
    <3>2. CASE t = LastMessage /\ sentTill[h] >= t
      <4>1. sentTill[h] = LastMessage
        BY <1>1, <1>num, <3>2
      <4> QED BY <4>1 DEF Covers
    <3>3. CASE t # LastMessage
      BY <2>1, <3>3, EachCovers
    <3> QED BY <2>2, <3>1, <3>2, <3>3
  <2> QED BY <2>1, <2>7, <2>8
<1>nothing. ASSUME OnlySync(h, t), UNCHANGED <<queue, reads>>, nothing \/ enough
            PROVE  Agreeing'
  <2>1. PICK x, c : /\ LocalGoes(h, x, c)
                    /\ Agree(Now, position', serverTill, willTill, sentTill, sentDone)
                    /\ Covers(h, c, x, sentTill[h])
    BY <1>8, <1>nothing
  <2>2. sentTill' = sentTill /\ willTill' = willTill /\ sentDone' = sentDone /\ UNCHANGED queue
    BY <1>nothing DEF reads
  <2>3. SameReads(Now', Now)
    BY <2>2, UnchangedSame
  <2>4. WillIsRead'
    <3>1. ASSUME NEW g \in Chats PROVE willTill[g] <= position'[g]
      BY <1>5, <1>goes, <1>num, <2>1
    <3> QED BY <2>2, <3>1 DEF WillIsRead
  <2>5. CountCovers'
    BY <1>covers, <2>1, <2>2
  <2> QED BY <1>2, <1>3, <1>4, <2>1, <2>2, <2>3, <2>4, <2>5, AgreeingAfter
\* What waited is told at once.
<1>9. ASSUME OnlySync(h, t), SendPending(h), enough, ~SentEnough(h, t)
      PROVE  Agreeing'
  <2>1. CASE UNCHANGED <<queue, reads>>
    BY <1>nothing, <1>9, <2>1
  <2>2. CASE SendReadRequests(willTill, delayed \ {h})
    <3>1. PICK now \in DueNow(willTill, delayed \ {h}) :
             /\ Becomes(Told(Now, willTill, now))
             /\ ReadsBecome(willTill, sentTill, sentDone, now, timer)
      BY <2>2 DEF SendReadRequests
    <3>2. Typed(Told(Now, willTill, now))
      BY <1>0, ToldTyped DEF DueNow
    <3>3. SameReads(Told(Now, willTill, now), Told(Now, willTill, now))
      BY DEF SameReads
    <3>4. \A g \in Chats : willTill[g] # 0 => willTill[g] > sentTill[g]
      BY DEF Steady, Inv, ReadsGrow
    <3>5. PICK x, c : /\ LocalGoes(h, x, c)
                      /\ Agree(Now, position', serverTill, willTill, sentTill, sentDone)
                      /\ Covers(h, c, x, sentTill[h])
      BY <1>8, <1>9
    <3>6. /\ Agree(Now', position', serverTill, willTill', sentTill', sentDone')
          /\ NoOwnReads(Now')
          /\ \A g \in Chats : /\ willTill'[g] = IF g \in now THEN 0 ELSE willTill[g]
                              /\ sentTill[g] = LastMessage => sentTill'[g] = LastMessage
      BY <1>0, <1>4, <3>1, <3>2, <3>3, <3>4, <3>5, ToldAgree
    <3>7. WillIsRead'
      <4>1. ASSUME NEW g \in Chats PROVE willTill'[g] <= position'[g]
        <5>1. willTill'[g] = 0 \/ willTill'[g] = willTill[g]
          BY <3>6
        <5>2. /\ position'[g] \in Nat /\ position'[g] >= position[g] /\ position[g] \in Nat
              /\ willTill[g] \in Nat /\ willTill[g] <= position[g]
          BY <1>5, <1>goes, <1>num, <3>5
        <5> QED BY <5>1, <5>2
      <4> QED BY <4>1 DEF WillIsRead
    <3>8. Covers(h, c, x, sentTill'[h])
      BY <3>5, <3>6 DEF Covers
    <3>9. CountCovers'
      BY <1>covers, <3>5, <3>6, <3>8
    <3> QED BY <1>2, <1>3, <3>6, <3>7, <3>9 DEF Agreeing
  <2> QED BY <1>9, <2>1, <2>2 DEF SendPending
\* What is read is beyond what is being told.
<1>10. ~nothing /\ ~enough => \A r \in ReadsFor(Now, h) : Now.till[r] < t
  <2> SUFFICES ASSUME ~nothing, ~enough, NEW r \in ReadsFor(Now, h) PROVE Now.till[r] < t
    OBVIOUS
  <2>1. r \in Requests /\ IsRead(Now, r) /\ Now.home[r] = h
    BY DEF ReadsFor
  <2>2. /\ sentTill[h] = 0 => Now.till[r] <= position[h]
        /\ sentTill[h] # 0 => Now.till[r] <= sentTill[h]
    BY <1>0, <2>1 DEF Ordered, IsRead
  <2>3. willTill[h] # 0 => Now.till[r] < willTill[h]
    BY <1>4 DEF Agree, Differ
  <2>4. /\ Now.till[r] \in Nat /\ position[h] \in Nat /\ sentTill[h] \in Nat /\ willTill[h] \in Nat
    <3>1. Now.till[r] \in Tills
      BY <1>0, <2>1 DEF Typed
    <3> QED BY <1>1, <1>num, <3>1
  <2>5. /\ ~(sentTill[h] >= t) /\ ~(willTill[h] >= t)
        /\ position[h] < t \/ willTill[h] # 0
    BY DEF NeedsRequest, SentEnough
  <2> DEFINE x == Now.till[r]
  <2> HIDE DEF x
  <2> QED BY <1>1, <2>2, <2>3, <2>4, <2>5 DEF x
<1>11. ASSUME ~nothing, ~enough, NEW x \in Tills, x >= position[h], NEW T, Skips(h, T, x),
              T = most \/ T = position[h] \/ T = t
       PROVE  Agree(Now, [position EXCEPT ![h] = x], serverTill, will, sentTill, sentDone)
  <2> DEFINE further == [position EXCEPT ![h] = x]
  <2>1. \A g \in Chats : will[g] >= willTill[g]
    <3>1. t >= willTill[h]
      BY <1>1, <1>num, <1>11
    <3> HIDE DEF will
    <3> QED BY <1>7, <1>num, <3>1
  <2>2. \A g \in Chats : will[g] # willTill[g] => \A r \in ReadsFor(Now, g) : Now.till[r] < will[g]
    <3> HIDE DEF will
    <3> QED BY <1>7, <1>10, <1>11
  <2>3. \A m \in Incoming(h) : m <= T => m <= position[h] \/ Tells(Now, serverTill, will, h, m)
    <3>1. T = position[h] \/ T = t
      BY <1>6, <1>11
    <3> HIDE DEF will
    <3> QED BY <1>7, <3>1 DEF Tells
  <2>4. /\ further \in [Chats -> Tills]
        /\ \A g \in Chats : further[g] >= position[g]
    BY <1>0, <1>num, <1>11
  <2>5. IsTold(Now, further, serverTill, will)
    <3> HIDE DEF will
    <3> QED BY <1>7, <1>11, <2>1, <2>3, OneGoesTold
  <2> HIDE DEF will, further
  <2>6. Agree(Now, further, serverTill, will, sentTill, sentDone)
    BY <1>0, <1>4, <1>7, <2>1, <2>2, <2>4, <2>5, PositionAgrees
  <2> QED BY <2>6 DEF further
\* The count says that none is left out: no request is needed.
<1>12. ASSUME ~nothing, ~enough, NEW still \in StillUnread(h, t), still # Unknown,
              still = count[h], MarkRead(h, t, still), UNCHANGED <<queue, reads>>
       PROVE  Agreeing'
  <2>1. PICK x, c : /\ LocalGoes(h, x, c) /\ x >= t /\ \A done : Covers(h, c, x, done)
                    /\ Skips(h, most, x)
    BY <1>12, MarkGoes
  <2>2. \A m \in Incoming(h) : m <= t => m <= position[h]
    BY <1>12, MarkGoes
  <2>3. sentTill' = sentTill /\ willTill' = willTill /\ sentDone' = sentDone /\ UNCHANGED queue
    BY <1>12 DEF reads
  <2> HIDE DEF most, will
  <2>4. \A g \in Chats : willTill[g] >= willTill[g]
    BY <1>num
  <2>5. \A m \in Incoming(h) : m <= most => m <= position[h]
    BY <1>6, <2>2
  <2>6. IsTold(Now, position', serverTill, willTill)
    BY <1>0, <1>goes, <2>1, <2>4, <2>5, OneGoesTold
  <2>7. Agree(Now, position', serverTill, willTill, sentTill, sentDone)
    BY <1>0, <1>4, <1>goes, <2>1, <2>4, <2>6, PositionAgrees
  <2>8. SameReads(Now', Now)
    BY <2>3, UnchangedSame
  <2>9. WillIsRead'
    <3>1. ASSUME NEW g \in Chats PROVE willTill[g] <= position'[g]
      BY <1>5, <1>goes, <1>num, <2>1
    <3> QED BY <2>3, <3>1 DEF WillIsRead
  <2>10. CountCovers'
    BY <1>covers, <2>1, <2>3
  <2> QED BY <1>2, <1>3, <1>4, <2>3, <2>7, <2>8, <2>9, <2>10, AgreeingAfter
\* It is told in three seconds.
<1>13. ASSUME ~nothing, ~enough, NEW still \in StillUnread(h, t), still # Unknown,
              ReadLater(h, t, still)
       PROVE  Agreeing'
  <2>1. /\ MarkRead(h, t, still)
        /\ sentTill' = sentTill /\ willTill' = will /\ sentDone' = sentDone /\ UNCHANGED queue
    BY <1>13 DEF ReadLater
  <2>2. PICK x, c : /\ LocalGoes(h, x, c) /\ x >= t /\ \A done : Covers(h, c, x, done)
                    /\ Skips(h, most, x)
    BY <1>13, <2>1, MarkGoes
  <2>3. Agree(Now, position', serverTill, will, sentTill, sentDone)
    BY <1>11, <1>13, <1>goes, <2>2
  <2> HIDE DEF most, will
  <2>4. SameReads(Now', Now)
    BY <2>1, UnchangedSame
  <2>5. WillIsRead'
    <3>1. ASSUME NEW g \in Chats PROVE will[g] <= position'[g]
      <4>1. CASE g = h
        BY <1>7, <1>goes, <2>2, <4>1
      <4>2. CASE g # h
        BY <1>5, <1>7, <1>goes, <2>2, <4>2
      <4> QED BY <4>1, <4>2
    <3> QED BY <2>1, <3>1 DEF WillIsRead
  <2>6. CountCovers'
    BY <1>covers, <2>1, <2>2
  <2> QED BY <1>2, <1>3, <1>4, <2>1, <2>3, <2>4, <2>5, <2>6, AgreeingAfter
\* It is told now.
<1>14. ASSUME ~nothing, ~enough, NEW still \in StillUnread(h, t), ReadNow(h, t, still)
       PROVE  Agreeing'
  <2>1. PICK now \in DueNow(will, delayed \ {h}) :
           /\ Becomes(Told(Now, will, now))
           /\ ReadsBecome(will, sentTill, sentDone, now, timer)
    BY <1>14 DEF ReadNow, SendReadRequests
  <2>2. h \in now
    <3> HIDE DEF will
    <3> QED BY <1>1, <1>7, <2>1 DEF DueNow
  <2>3. PICK x, c : /\ LocalGoes(h, x, c)
                    /\ \E T : Skips(h, T, x) /\ (T = most \/ T = position[h] \/ T = t)
                    /\ t = LastMessage \/ Covers(h, c, x, sentTill[h])
    <3>1. CASE still = Unknown
      <4>1. PICK x, c : /\ LocalGoes(h, x, c) /\ c \in Counts
                        /\ x = position[h] \/ (t = LastMessage /\ x = LastMessage)
                        /\ c = count[h] \/ t = LastMessage
        BY <1>14, <3>1, SyncGoes DEF ReadNow
      <4>2. Skips(h, x, x)
        BY DEF Skips
      <4>3. t = LastMessage \/ Covers(h, c, x, sentTill[h])
        BY <4>1, EachCovers
      <4> QED BY <4>1, <4>2, <4>3
    <3>2. CASE still # Unknown
      <4>1. \E x, c : /\ LocalGoes(h, x, c) /\ x >= t /\ \A done : Covers(h, c, x, done)
                      /\ Skips(h, most, x)
        <5> HIDE DEF most
        <5>1. MarkRead(h, t, still) /\ ~SentEnough(h, t)
          BY <1>14, <3>2 DEF ReadNow
        <5> QED BY <1>14, <3>2, <5>1, MarkGoes DEF most
      <4> QED BY <4>1
    <3> QED BY <3>1, <3>2
  <2>4. Agree(Now, position', serverTill, will, sentTill, sentDone)
    BY <1>11, <1>14, <1>goes, <2>3
  <2>5. \A g \in Chats : will[g] # 0 => will[g] > sentTill[g]
    <3>1. \A g \in Chats : willTill[g] # 0 => willTill[g] > sentTill[g]
      BY DEF Steady, Inv, ReadsGrow
    <3>2. t > sentTill[h]
      BY <1>num, <1>1, <1>14 DEF SentEnough
    <3> HIDE DEF will
    <3> QED BY <1>7, <3>1, <3>2
  <2> HIDE DEF will, most, nothing, enough
  <2>6. Typed(Told(Now, will, now))
    BY <1>0, <1>7, ToldTyped DEF DueNow
  <2>7. SameReads(Told(Now, will, now), Told(Now, will, now))
    BY DEF SameReads
  <2>8. /\ Agree(Now', position', serverTill, willTill', sentTill', sentDone')
        /\ NoOwnReads(Now')
        /\ \A g \in Chats : /\ willTill'[g] = IF g \in now THEN 0 ELSE will[g]
                            /\ sentTill'[g] = IF g \in now THEN will[g] ELSE sentTill[g]
                            /\ sentTill[g] = LastMessage => sentTill'[g] = LastMessage
    BY <1>0, <1>4, <1>7, <2>1, <2>4, <2>5, <2>6, <2>7, ToldAgree
  <2>9. willTill'[h] = 0 /\ sentTill'[h] = t
    BY <1>7, <2>2, <2>8
  <2>10. WillIsRead'
    <3>1. ASSUME NEW g \in Chats PROVE willTill'[g] <= position'[g]
      <4>1. position'[g] \in Nat
        BY <1>goes, <2>3
      <4>2. CASE g = h
        BY <2>9, <4>1, <4>2
      <4>3. CASE g # h
        BY <1>5, <1>7, <1>goes, <2>3, <2>8, <4>1, <4>3
      <4> QED BY <4>2, <4>3
    <3> QED BY <3>1 DEF WillIsRead
  <2>11. Covers(h, c, x, sentTill'[h])
    <3>1. CASE t = LastMessage
      BY <2>9, <3>1 DEF Covers
    <3>2. CASE Covers(h, c, x, sentTill[h])
      BY <2>8, <3>2 DEF Covers
    <3> QED BY <2>3, <3>1, <3>2
  <2>12. CountCovers'
    BY <1>covers, <2>3, <2>8, <2>11
  <2> QED BY <1>2, <1>3, <2>8, <2>10, <2>12 DEF Agreeing
<1> QED
  <2>1. \/ nothing /\ OnlySync(h, t) /\ UNCHANGED <<queue, reads>>
        \/ ~nothing /\ enough /\ OnlySync(h, t) /\ UNCHANGED <<queue, reads>>
        \/ ~nothing /\ enough /\ OnlySync(h, t) /\ SendPending(h)
        \/ ~nothing /\ ~enough /\ \E still \in StillUnread(h, t) :
              \/ still # Unknown /\ still = count[h] /\ MarkRead(h, t, still)
                 /\ UNCHANGED <<queue, reads>>
              \/ ReadNow(h, t, still)
              \/ still # Unknown /\ ReadLater(h, t, still)
    BY DEF ReadInboxTill
  <2> HIDE DEF enough
  <2> QED BY <1>nothing, <1>9, <1>12, <1>13, <1>14, <2>1

\* The answer to a read.
LEMMA AnswerReadAgree ==
    ASSUME Steady, NEW r \in Requests, AnswerRead(r)
    PROVE  Agreeing'
<1>0. /\ sendReads /\ Typed(Now) /\ Apart(Now)
      /\ position \in [Chats -> Tills] /\ serverTill \in [Chats -> Tills]
      /\ willTill \in [Chats -> Tills] /\ sentTill \in [Chats -> Tills]
      /\ count \in [Chats -> Counts] /\ sentDone \subseteq Chats
      /\ Ordered(Now, position, sentTill, willTill)
  BY SteadyTypes
<1> DEFINE h == home[r]
           last == sentTill[h] = till[r]
           refresh == last /\ RefreshNeeded(h, till[r])
           answered == Answered(Now, r)
           asked == IF refresh THEN RequestingEntry(answered, h) ELSE answered
           done == IF last /\ ~refresh THEN [sentTill EXCEPT ![h] = 0] ELSE sentTill
           finished == IF refresh THEN sentDone \cup {h} ELSE sentDone
<1>1. PICK now \in DueNow(willTill, delayed) :
          /\ Becomes(Finishing(Told(asked, willTill, now), r))
          /\ ReadsBecome(willTill, done, finished, now, timer)
  BY DEF AnswerRead
<1>2. /\ type[r] = "ReadInbox" /\ net[r] = "handled"
      /\ last \/ sentTill[h] = 0 \/ sentTill[h] > till[r]
      /\ UNCHANGED <<local, rest>>
  BY DEF AnswerRead
<1>3. IsRead(Now, r) /\ Now.net[r] = "handled" /\ Now.home[r] = h /\ Now.till[r] = till[r]
  BY <1>2 DEF IsRead, Now
<1>4. h \in Chats /\ till[r] \in Nat /\ sentTill[h] \in Nat /\ position[h] \in Nat
  <2>1. h \in Chats /\ till[r] \in Tills
    BY DEF Steady, TypeInv, QueueTypes, Tills
  <2> QED BY <1>0, <2>1, TillsAreNumbers
<1> DEFINE n == Now
<1>5. /\ Typed(answered) /\ Apart(answered) /\ Free(answered) = Free(n)
      /\ answered.type = n.type /\ answered.home = n.home /\ answered.till = n.till
      /\ answered.entries = n.entries /\ answered.pending = n.pending
      /\ \A x \in Requests : answered.net[x] = IF x = r THEN "none" ELSE n.net[x]
  <2>1. Typed(n) /\ Apart(n)
    BY <1>0
  <2>2. answered = Cancelling(n, {r})
    BY DEF Answered
  <2> HIDE DEF n, answered
  <2>3. Typed(answered)
    BY <2>1, <2>2, AskingTyped
  <2>4. Apart(answered) /\ Free(answered) = Free(n)
    BY <2>1, <2>2, CancellingApart
  <2>5. /\ answered.type = n.type /\ answered.home = n.home /\ answered.till = n.till
        /\ answered.entries = n.entries /\ answered.pending = n.pending
        /\ \A x \in Requests : answered.net[x] = IF x = r THEN "none" ELSE n.net[x]
    BY <2>1, <2>2 DEF Cancelling, Typed, IsQueue
  <2> QED BY <2>3, <2>4, <2>5
<1>6. /\ Typed(asked) /\ Apart(asked) /\ Free(asked) = Free(n)
      /\ SameReads(asked, answered) /\ asked.type = n.type
      /\ asked.net = answered.net /\ asked.home = n.home /\ asked.till = n.till
      /\ refresh => h \in asked.entries \cup asked.pending
  <2> DEFINE e == RequestingEntry(answered, h)
  <2> HIDE DEF answered, h, n
  <2>1. Typed(e) /\ Apart(e) /\ Free(e) = Free(answered) /\ SameReads(e, answered)
        /\ h \in e.entries \cup e.pending
    BY <1>4, <1>5, RequestingTyped, RequestingApart, RequestingSame
  <2>2. /\ e.type = answered.type /\ e.net = answered.net /\ e.home = answered.home
        /\ e.till = answered.till
    BY <1>5 DEF RequestingEntry, Typed, IsQueue
  <2>3. SameReads(answered, answered)
    BY DEF SameReads
  <2> HIDE DEF refresh
  <2>4. asked = e \/ (asked = answered /\ ~refresh)
    BY DEF e
  <2> HIDE DEF e, asked
  <2> QED BY <1>5, <2>1, <2>2, <2>3, <2>4
<1> HIDE DEF asked, answered
<1>7. NoOwnReads(asked)
  BY <1>6 DEF Steady, NoOwnReads
<1>8. /\ ~IsRead(asked, r)
      /\ \A x \in Requests \ {r} :
            /\ IsRead(asked, x) <=> IsRead(n, x)
            /\ IsRead(n, x) => /\ asked.net[x] = n.net[x]
                               /\ asked.home[x] = n.home[x] /\ asked.till[x] = n.till[x]
      /\ n.entries \cup n.pending \subseteq asked.entries \cup asked.pending
  <2> HIDE DEF n
  <2> QED BY <1>5, <1>6 DEF IsRead, SameReads
<1>9. Agree(asked, position, serverTill, willTill, done, finished)
  <2>1. \/ /\ sentTill[h] # till[r] /\ (sentTill[h] = 0 \/ sentTill[h] > till[r])
           /\ done = sentTill /\ finished = sentDone
        \/ /\ sentTill[h] = till[r] /\ till[r] <= position[h]
           /\ done = [sentTill EXCEPT ![h] = 0] /\ finished = sentDone
        \/ /\ sentTill[h] = till[r]
           /\ done = sentTill /\ finished = sentDone \cup {h}
           /\ h \in asked.entries \cup asked.pending
    BY <1>2, <1>4, <1>6 DEF RefreshNeeded
  <2>2. Agree(n, position, serverTill, willTill, sentTill, sentDone)
    BY DEF Steady
  <2> HIDE DEF done, finished, n, h
  <2>3. n.till[r] = till[r] /\ n.home[r] = h
    BY <1>3 DEF n
  <2>4. Typed(n) /\ IsRead(n, r) /\ n.net[r] = "handled" /\ Ordered(n, position, sentTill, willTill)
    BY <1>0, <1>3 DEF n
  <2> QED BY SMTT(30), <1>0, <1>8, <2>1, <2>2, <2>3, <2>4, AnswerAgrees
<1>10. /\ done \in [Chats -> Tills] /\ finished \subseteq Chats
       /\ \A g \in Chats : done[g] = sentTill[g] \/ done[g] = 0
       /\ \A g \in Chats : done[g] # sentTill[g] => sentTill[g] <= position[g]
  <2>1. done[h] # sentTill[h] => sentTill[h] <= position[h]
    BY <1>4 DEF RefreshNeeded
  <2>2. 0 \in Tills
    BY DEF Tills
  <2> HIDE DEF h, refresh, last
  <2>3. \A g \in Chats : done[g] # sentTill[g] => g = h /\ done[g] = 0
    BY <1>0
  <2> QED BY <1>0, <1>4, <2>1, <2>2, <2>3
<1> HIDE DEF done, finished, n, h
<1> DEFINE told == Told(asked, willTill, now)
<1>11. now \in SUBSET Chats /\ Injection(now, Free(asked)) # {}
  BY <1>0, <1>6 DEF DueNow, n
<1>12. Typed(told) /\ Apart(told)
  BY <1>0, <1>6, <1>11, ToldTyped, ToldApart
<1>13. ~IsRead(told, r)
  <2>1. asked.type[r] # "none"
    BY <1>2, <1>6 DEF n, Now
  <2>2. told.type[r] = asked.type[r] /\ told.net[r] = asked.net[r]
    BY <1>0, <1>6, <1>11, <2>1, ToldReads
  <2> HIDE DEF told
  <2> QED BY <1>8, <2>2 DEF IsRead
<1>14. Typed(Finishing(told, r)) /\ SameReads(Finishing(told, r), told)
  <2> HIDE DEF told
  <2> QED BY <1>12, <1>13, FinishingTyped, FinishingSame
<1>15. \A g \in Chats : willTill[g] # 0 => willTill[g] > done[g]
  <2>1. \A g \in Chats : willTill[g] # 0 => willTill[g] > sentTill[g]
    BY DEF Steady, Inv, ReadsGrow
  <2>2. \A g \in Chats : willTill[g] \in Nat
    BY <1>0, TillsAreNumbers
  <2> QED BY <1>10, <2>1, <2>2
<1>16. /\ Agree(Now', position, serverTill, willTill', sentTill', sentDone')
       /\ NoOwnReads(Now')
       /\ \A g \in Chats : /\ willTill'[g] = IF g \in now THEN 0 ELSE willTill[g]
                           /\ done[g] = LastMessage => sentTill'[g] = LastMessage
  BY <1>0, <1>1, <1>6, <1>7, <1>9, <1>10, <1>14, <1>15, ToldAgree DEF n
<1>17. WillIsRead' /\ CountCovers'
  <2>1. \A g \in Chats : sentTill[g] = LastMessage => \/ sentTill'[g] = LastMessage
                                                      \/ position[g] = LastMessage
    <3> SUFFICES ASSUME NEW g \in Chats, sentTill[g] = LastMessage
                 PROVE  sentTill'[g] = LastMessage \/ position[g] = LastMessage
      OBVIOUS
    <3>1. CASE done[g] = sentTill[g]
      BY <1>16, <3>1
    <3>2. CASE done[g] # sentTill[g]
      <4>1. position[g] \in Nat /\ position[g] <= LastMessage
        BY <1>0, TillsAreNumbers
      <4> QED BY <1>10, <3>2, <4>1, HistoriesAssumption
    <3> QED BY <3>1, <3>2
  <2> QED BY <1>0, <1>2, <1>16, <2>1, ToldLeaves
<1>18. BatchesKnow' /\ position' = position /\ serverTill' = serverTill
  BY <1>2 DEF Steady, BatchesKnow, local, rest
<1> QED BY <1>16, <1>17, <1>18 DEF Agreeing

\* The later of two positions, and nothing else.
LEMMA MaxIsOne ==
    ASSUME NEW a \in Tills, NEW b \in Tills
    PROVE  /\ Max({a, b}) = a \/ Max({a, b}) = b
           /\ Max({a, b}) \in Tills /\ Max({a, b}) >= a /\ Max({a, b}) >= b
<1>1. a \in Nat /\ b \in Nat
  BY TillsAreNumbers
<1>2. \E x \in {a, b} : \A y \in {a, b} : x >= y
  BY <1>1
<1>3. Max({a, b}) \in {a, b}
  BY <1>2 DEF Max
<1> QED BY <1>3, MaxOfTwo

\* The entries that are applied, wherever the positions come from.
LEMMA EntriesAppliedAgree ==
    ASSUME Steady, NEW STATE some, EntriesApplied(some), serverTill' = serverTill,
           position' \in [Chats -> Tills], \A h \in Chats : position'[h] >= position[h],
           \A h \in Chats : \E T \in Tills : /\ Skips(h, T, position'[h])
                                             /\ T = position[h] \/ T <= serverTill[h],
           \A h \in (some \cap sentDone) \ entryPostponed :
              h \in Chats => position'[h] >= sentTill[h]
    PROVE  /\ Agree(Now', position', serverTill', willTill', sentTill', sentDone')
           /\ NoOwnReads(Now') /\ WillIsRead'
           /\ \A h \in Chats : \/ sentTill'[h] = sentTill[h]
                               \/ position'[h] >= sentTill[h]
<1>0. /\ Typed(Now)
      /\ position \in [Chats -> Tills] /\ serverTill \in [Chats -> Tills]
      /\ willTill \in [Chats -> Tills] /\ sentTill \in [Chats -> Tills] /\ sentDone \subseteq Chats
  BY SteadyTypes
<1>num. \A h \in Chats : /\ position[h] \in Nat /\ position'[h] \in Nat /\ serverTill[h] \in Nat
                         /\ willTill[h] \in Nat /\ sentTill[h] \in Nat
  BY <1>0, TillsAreNumbers
<1> DEFINE applied == some \ entryPostponed
           told == {h \in applied : sentTill[h] # 0 /\ h \in sentDone}
           n == Now
           q == [n EXCEPT !.entries = @ \ applied, !.pending = @ \ applied]
<1>1. /\ Becomes(q) /\ willTill' = willTill /\ sentDone' = sentDone \ told
      /\ sentTill' = [h \in Chats |-> IF h \in told THEN 0 ELSE sentTill[h]]
  BY DEF EntriesApplied
<1>2. Agree(n, position, serverTill, willTill, sentTill, sentDone) /\ NoOwnReads(n) /\ Typed(n)
  BY <1>0 DEF Steady
<1> HIDE DEF n, applied
<1>3. /\ Typed(q) /\ q.type = n.type /\ q.home = n.home /\ q.till = n.till /\ q.net = n.net
      /\ q.entries = n.entries \ applied /\ q.pending = n.pending \ applied
  BY <1>2 DEF Typed, IsQueue
<1> HIDE DEF q
<1>4. SameReads(Now', q)
  BY <1>1, <1>3, BecomesSame
<1>5. Agree(n, position', serverTill, willTill, sentTill, sentDone)
  <2>1. IsTold(n, position', serverTill, willTill)
    <3> SUFFICES ASSUME NEW h \in Chats PROVE ToldAt(n, serverTill, willTill, h, position'[h])
      BY DEF IsTold
    <3>1. PICK T \in Tills : /\ Skips(h, T, position'[h])
                             /\ T = position[h] \/ T <= serverTill[h]
      OBVIOUS
    <3>2. ToldAt(n, serverTill, willTill, h, position[h])
      BY <1>2 DEF Agree, IsTold
    <3>3. ASSUME NEW m \in Incoming(h), m <= T
          PROVE  m <= position[h] \/ Tells(n, serverTill, willTill, h, m)
      <4>1. m \in Nat /\ T \in Nat
        BY AllWithin
      <4> QED BY <1>num, <3>1, <3>3, <4>1 DEF Tells
    <3>4. position[h] \in Tills /\ position'[h] \in Tills /\ position'[h] >= position[h]
      BY <1>0
    <3> QED BY <3>1, <3>2, <3>3, <3>4, GoesTold
  <2>2. \A h \in Chats : willTill[h] >= willTill[h]
    BY <1>num
  <2> QED BY <1>0, <1>2, <2>1, <2>2, PositionAgrees
<1>6. /\ SameOnTheWay(q, n) /\ NoOwnReads(q)
      /\ \A h \in n.entries \cup n.pending : h \in applied \/ h \in q.entries \cup q.pending
  BY <1>2, <1>3 DEF SameOnTheWay, IsRead, NoOwnReads
<1>7. \A h \in told : position'[h] >= sentTill[h]
  BY <1>0 DEF applied
<1>8. Agree(q, position', serverTill, willTill, sentTill', sentDone')
  <2>1. ASSUME NEW h \in Chats
        PROVE  \/ /\ sentTill'[h] = sentTill[h]
                  /\ h \in sentDone => h \in sentDone' /\ h \in q.entries \cup q.pending
               \/ sentTill'[h] = 0 /\ h \notin sentDone' /\ position'[h] >= sentTill[h]
    <3>1. h \in sentDone => sentTill[h] # 0 /\ h \in n.entries \cup n.pending
      BY <1>2 DEF Agree, IsDone
    <3>2. CASE h \in told
      BY <1>1, <1>7, <3>2
    <3>3. CASE h \notin told
      <4>1. h \in sentDone => h \notin applied
        BY <3>1, <3>3
      <4> QED BY <1>1, <1>6, <3>1, <3>3, <4>1
    <3> QED BY <3>2, <3>3
  <2> HIDE DEF told
  <2>2. sentTill' \in [Chats -> Tills] /\ sentDone' \subseteq sentDone
    BY <1>0, <1>1 DEF Tills
  <2> QED BY <1>0, <1>5, <1>6, <2>1, <2>2, EntriesAgree
<1> HIDE DEF told
<1>9. Agree(Now', position', serverTill', willTill', sentTill', sentDone') /\ NoOwnReads(Now')
  BY <1>1, <1>4, <1>6, <1>8, SameAgrees DEF SameReads
<1>10. WillIsRead'
  <2>1. ASSUME NEW h \in Chats PROVE willTill[h] <= position'[h]
    <3>1. willTill[h] <= position[h]
      BY DEF Steady, WillIsRead
    <3> QED BY <1>num, <3>1
  <2> QED BY <1>1, <2>1 DEF WillIsRead
<1>11. \A h \in Chats : sentTill'[h] = sentTill[h] \/ position'[h] >= sentTill[h]
  BY <1>1, <1>7
<1> QED BY <1>9, <1>10, <1>11

\* A count that covers what was unread covers what is, if more is read.
LEMMA CoversMore ==
    ASSUME NEW h, NEW c \in Counts, NEW pos \in Tills, NEW new \in Tills, new >= pos,
           NEW done \in Tills, NEW done2, Covers(h, c, pos, done), done2 = done \/ new >= done
    PROVE  Covers(h, c, new, done2)
<1>1. /\ pos \in Nat /\ new \in Nat /\ done \in Nat /\ new <= LastMessage /\ LastMessage \in Nat
      /\ pos <= new
  BY TillsAreNumbers, HistoriesAssumption
<1>2. CASE new = LastMessage
  BY <1>2, CoversAll
<1>3. CASE new # LastMessage
  <2>1. Covers(h, c, new, done)
    BY <1>1, CoversFurther
  <2>2. done = LastMessage => done2 = done
    BY <1>1, <1>3
  <2> QED BY <2>1, <2>2 DEF Covers
<1> QED BY <1>2, <1>3

\* Entries are answered or refused.
LEMMA AnswerEntriesAgree ==
    ASSUME Steady, NEW b \in Batches, AnswerEntries(b) \/ EntriesRefused(b)
    PROVE  Agreeing'
<1>0. /\ Typed(Now)
      /\ position \in [Chats -> Tills] /\ serverTill \in [Chats -> Tills]
      /\ willTill \in [Chats -> Tills] /\ sentTill \in [Chats -> Tills]
      /\ count \in [Chats -> Counts] /\ sentDone \subseteq Chats
  BY SteadyTypes
<1> DEFINE of == batches[b].of
           read == batches[b].read
<1>1. /\ EntriesApplied(of) /\ serverTill' = serverTill
      /\ batches' = [batches EXCEPT ![b] = NoBatch]
  BY DEF AnswerEntries, EntriesRefused
<1>2. BatchesKnow'
  BY <1>1 DEF Steady, BatchesKnow, NoBatch
<1>num. \A h \in Chats : /\ position[h] \in Nat /\ serverTill[h] \in Nat /\ sentTill[h] \in Nat
                         /\ position[h] \in Tills /\ sentTill[h] \in Tills
  BY <1>0, TillsAreNumbers
\* Where dialogEntryApplied() puts a history that has come to at.
<1>3. ASSUME NEW h \in Chats, NEW at \in Tills, at >= position[h],
             NEW T \in Tills, Skips(h, T, at), T = position[h] \/ T <= serverTill[h]
      PROVE  /\ ToldTill(h, at) \in Tills /\ ToldTill(h, at) >= position[h]
             /\ ToldTill(h, at) >= at
             /\ \E U \in Tills : /\ Skips(h, U, ToldTill(h, at))
                                 /\ U = position[h] \/ U <= serverTill[h]
             /\ h \in sentDone \ entryPostponed => ToldTill(h, at) >= sentTill[h]
  <2>0. at \in Nat
    BY TillsAreNumbers
  <2>1. CASE h \in sentDone \ entryPostponed
    <3> DEFINE m == Max({at, sentTill[h]})
    <3>1. m \in Tills /\ m >= at /\ m >= sentTill[h] /\ (m = at \/ m = sentTill[h])
      BY <1>num, MaxIsOne
    <3>2. ToldTill(h, at) = m
      BY <2>1 DEF ToldTill
    <3>3. m \in Nat
      BY <3>1, TillsAreNumbers
    <3>4. sentTill[h] <= serverTill[h] /\ Skips(h, sentTill[h], sentTill[h])
      BY <2>1 DEF Steady, Agree, IsDone, Skips
    <3> HIDE DEF m
    <3>5. m >= position[h]
      BY <1>num, <1>3, <2>0, <3>1, <3>3
    <3>6. \E U \in Tills : Skips(h, U, m) /\ (U = position[h] \/ U <= serverTill[h])
      BY <1>num, <1>3, <3>1, <3>4
    <3> QED BY <2>1, <3>1, <3>2, <3>5, <3>6
  <2>2. CASE h \notin sentDone \ entryPostponed
    <3>1. ToldTill(h, at) = at
      BY <2>2 DEF ToldTill
    <3> QED BY <1>3, <2>0, <2>2, <3>1
  <2> QED BY <2>1, <2>2
<1> HIDE DEF of, read
\* The positions.
<1>4. ASSUME NEW h \in Chats
      PROVE  /\ position'[h] \in Tills /\ position'[h] >= position[h]
             /\ \E T \in Tills : /\ Skips(h, T, position'[h])
                                 /\ T = position[h] \/ T <= serverTill[h]
             /\ h \in (of \cap sentDone) \ entryPostponed => position'[h] >= sentTill[h]
             /\ \/ count'[h] = count[h]
                \/ \E t \in Tills : count'[h] = Cardinality(Unread(h, t)) /\ position'[h] >= t
  <2>0. Skips(h, position[h], position[h]) /\ position[h] >= position[h]
    BY <1>num DEF Skips
  <2>1. CASE AnswerEntries(b)
    <3>1. PICK ahead \in SUBSET of :
             /\ count' = [g \in Chats |->
                   IF g \in of THEN Applied(g, read[g], g \in ahead).count ELSE count[g]]
             /\ position' = [g \in Chats |->
                   IF g \in of THEN ToldTill(g, Applied(g, read[g], g \in ahead).position)
                   ELSE position[g]]
      BY <2>1 DEF AnswerEntries, of, read
    <3>2. read \in [Chats -> Tills] /\ \A g \in Chats : read[g] <= serverTill[g]
      BY <2>1 DEF AnswerEntries, read, Steady, TypeInv, RestTyped, BatchesKnow
    <3> DEFINE t == read[h]
               a == Applied(h, t, h \in ahead)
               c == Cardinality(Unread(h, t))
    <3>3. /\ position'[h] = IF h \in of THEN ToldTill(h, a.position) ELSE position[h]
          /\ count'[h] = IF h \in of THEN a.count ELSE count[h]
      BY <3>1
    <3>4. t \in Tills /\ t \in Nat /\ t <= serverTill[h]
      BY <3>2, TillsAreNumbers
    <3> HIDE DEF t
    <3>5. /\ a.position \in Tills /\ a.position >= position[h]
          /\ \/ t < position[h] /\ a = Local(h)
             \/ /\ t >= position[h] /\ a.position >= t /\ a.count = c
                /\ \/ a.position = t
                   \/ c = 0 /\ a.position = LastMessage
                   \/ c = 1 /\ a.position = LastMessage - 1
      BY <1>num, <3>4, AppliedIs DEF IsLocal
    <3> HIDE DEF a
    <3>6. CASE t < position[h] /\ a = Local(h)
      <4>1. a.position = position[h] /\ a.count = count[h]
        BY <3>6 DEF Local
      <4> QED BY <1>num, <1>3, <2>0, <3>3, <4>1
    <3>7. CASE /\ t >= position[h] /\ a.position >= t /\ a.count = c
               /\ \/ a.position = t
                  \/ c = 0 /\ a.position = LastMessage
                  \/ c = 1 /\ a.position = LastMessage - 1
      <4>1. c \in Nat
        BY UnreadSize
      <4> HIDE DEF c
      <4>2. c >= c
        BY <4>1
      <4>3. Skips(h, t, a.position)
        <5>1. c >= Cardinality(Unread(h, t)) /\ t <= a.position
          BY <3>4, <3>7, <4>2 DEF c
        <5>2. a.position \in Tills /\ a.position >= t
          BY <3>5, <3>7
        <5> QED BY <3>4, <3>7, <5>1, <5>2, GoesSkips
      <4> DEFINE end == ToldTill(h, a.position)
      <4>4. /\ end \in Tills /\ end >= position[h] /\ end >= a.position
            /\ \E U \in Tills : Skips(h, U, end) /\ (U = position[h] \/ U <= serverTill[h])
            /\ h \in sentDone \ entryPostponed => end >= sentTill[h]
        BY <1>3, <3>4, <3>5, <4>3
      <4> HIDE DEF end
      <4>5. end >= t
        <5>1. end \in Nat /\ a.position \in Nat
          BY <3>5, <4>4, TillsAreNumbers
        <5> QED BY <3>4, <3>7, <4>4, <5>1
      <4>6. CASE h \in of
        <5>1. position'[h] = end /\ count'[h] = Cardinality(Unread(h, t))
          BY <3>3, <3>7, <4>6 DEF end, c
        <5> QED BY <3>4, <4>4, <4>5, <5>1
      <4>7. CASE h \notin of
        BY <1>num, <2>0, <3>3, <4>7
      <4> QED BY <4>6, <4>7
    <3> QED BY <3>5, <3>6, <3>7
  <2>2. CASE EntriesRefused(b)
    <3>1. /\ position' = [g \in Chats |-> IF g \in of THEN ToldTill(g, position[g]) ELSE position[g]]
          /\ count' = count
      BY <2>2 DEF EntriesRefused, of
    <3> DEFINE end == ToldTill(h, position[h])
    <3>2. /\ end \in Tills /\ end >= position[h]
          /\ \E U \in Tills : Skips(h, U, end) /\ (U = position[h] \/ U <= serverTill[h])
          /\ h \in sentDone \ entryPostponed => end >= sentTill[h]
      BY <1>num, <1>3, <2>0
    <3>3. position'[h] = IF h \in of THEN end ELSE position[h]
      BY <3>1
    <3> HIDE DEF end
    <3> QED BY <1>num, <2>0, <3>1, <3>2, <3>3
  <2> QED BY <2>1, <2>2
<1>5. position' \in [Chats -> Tills]
  <2>1. position' = [h \in Chats |-> position'[h]]
    BY DEF AnswerEntries, EntriesRefused
  <2> QED BY <1>4, <2>1
<1>6. /\ Agree(Now', position', serverTill', willTill', sentTill', sentDone')
      /\ NoOwnReads(Now') /\ WillIsRead'
      /\ \A h \in Chats : sentTill'[h] = sentTill[h] \/ position'[h] >= sentTill[h]
  BY <1>1, <1>4, <1>5, EntriesAppliedAgree DEF of
<1>7. ASSUME NEW h \in Chats PROVE Covers(h, count'[h], position'[h], sentTill'[h])
  <2>1. CASE count'[h] = count[h]
    <3>1. Covers(h, count[h], position[h], sentTill[h]) /\ count[h] \in Counts
      BY <1>0, EachCovers
    <3> QED BY <1>num, <1>4, <1>6, <2>1, <3>1, CoversMore
  <2>2. ASSUME NEW t \in Tills, count'[h] = Cardinality(Unread(h, t)), position'[h] >= t
        PROVE  Covers(h, count'[h], position'[h], sentTill'[h])
    <3>1. t \in Nat /\ position'[h] \in Nat /\ position'[h] \in Tills
      BY <1>4, TillsAreNumbers
    <3> DEFINE a == Cardinality(Unread(h, t))
               z == Cardinality(Unread(h, position'[h]))
    <3>2. z <= a /\ z \in Nat /\ a \in Nat
      BY <2>2, <3>1, UnreadShrinks
    <3>3. a >= z
      <4> HIDE DEF a, z
      <4> QED BY <3>2
    <3> QED BY <2>2, <3>3 DEF Covers
  <2> QED BY <1>4, <2>1, <2>2
<1> QED BY <1>2, <1>6, <1>7, CoversEach DEF Agreeing

\* More is read at the server, by a device that says so, or that was known here.
LEMMA ServerAgrees ==
    ASSUME NEW q, NEW will, NEW done, NEW fin, fin \subseteq Chats,
           NEW pos \in [Chats -> Tills], NEW srv \in [Chats -> Tills],
           NEW pos2 \in [Chats -> Tills], NEW srv2 \in [Chats -> Tills],
           done \in [Chats -> Tills], q.till \in [Requests -> Tills],
           Agree(q, pos, srv, will, done, fin),
           IsTold(q, pos2, srv2, will),
           \A h \in Chats : \/ pos2[h] = pos[h] /\ srv2[h] = srv[h]
                            \/ /\ srv2[h] >= srv[h] /\ pos2[h] >= pos[h]
                               /\ pos2[h] >= srv2[h]
    PROVE  Agree(q, pos2, srv2, will, done, fin)
<1>1. \A h \in Chats : /\ pos[h] \in Nat /\ pos2[h] \in Nat /\ srv[h] \in Nat /\ srv2[h] \in Nat
                       /\ done[h] \in Nat /\ srv2[h] >= srv[h]
  BY TillsAreNumbers
<1>2. /\ \A m \in Messages : m \in Nat
      /\ \A h \in Chats : \A r \in ReadsFor(q, h) : q.till[r] \in Nat
  BY TillsAreNumbers DEF ReadsFor, Tills
<1>4. IsHeard(q, pos2, srv2, done, fin)
  <2> SUFFICES ASSUME NEW h \in Chats
               PROVE  \/ srv2[h] <= pos2[h]
                      \/ \E r \in ReadsFor(q, h) : srv2[h] <= q.till[r]
                      \/ h \in fin /\ srv2[h] <= done[h]
    BY DEF IsHeard
  <2>1. \/ srv[h] <= pos[h]
        \/ \E r \in ReadsFor(q, h) : srv[h] <= q.till[r]
        \/ h \in fin /\ srv[h] <= done[h]
    BY DEF Agree, IsHeard
  <2> QED BY <1>1, <2>1
<1>5. IsAsked(q, done, fin) /\ Differ(q, will, done, fin)
  BY DEF Agree
<1>6. IsDone(q, srv2, done, fin)
  <2> SUFFICES ASSUME NEW h \in fin
               PROVE  done[h] # 0 /\ done[h] <= srv2[h] /\ h \in q.entries \cup q.pending
    BY DEF IsDone
  <2>1. h \in Chats /\ done[h] # 0 /\ done[h] <= srv[h] /\ h \in q.entries \cup q.pending
    BY DEF Agree, IsDone
  <2>2. done[h] \in Nat /\ srv[h] \in Nat /\ srv2[h] \in Nat /\ srv2[h] >= srv[h]
    BY <1>1, <2>1
  <2> QED BY <2>1, <2>2
<1>7. Knows(q, srv2)
  <2> SUFFICES ASSUME NEW h \in Chats, NEW r \in ReadsFor(q, h)
               PROVE  q.till[r] > 0 /\ (q.net[r] = "handled" => q.till[r] <= srv2[h])
    BY DEF Knows
  <2>1. q.till[r] > 0 /\ (q.net[r] = "handled" => q.till[r] <= srv[h])
    BY DEF Agree, Knows
  <2>2. q.till[r] \in Nat /\ srv[h] \in Nat /\ srv2[h] \in Nat /\ srv2[h] >= srv[h]
    BY <1>1, <1>2
  <2> QED BY <2>1, <2>2
<1> QED BY <1>4, <1>5, <1>6, <1>7 DEF Agree

\* A read on another device.
LEMMA ReadElsewhereAgree ==
    ASSUME Steady, NEW h \in Chats, NEW t \in Messages, ReadElsewhere(h, t)
    PROVE  Agreeing'
<1>0. /\ Typed(Now)
      /\ position \in [Chats -> Tills] /\ serverTill \in [Chats -> Tills]
      /\ willTill \in [Chats -> Tills] /\ sentTill \in [Chats -> Tills]
      /\ count \in [Chats -> Counts] /\ sentDone \subseteq Chats
  BY SteadyTypes
<1>num. /\ \A g \in Chats : /\ position[g] \in Nat /\ serverTill[g] \in Nat
                            /\ willTill[g] \in Nat /\ sentTill[g] \in Nat
        /\ t \in Tills /\ t \in Nat
  BY <1>0, TillsAreNumbers DEF Tills
<1>1. /\ serverTill' = [serverTill EXCEPT ![h] = t] /\ serverTill[h] < t
      /\ batches' = batches
      /\ willTill' = willTill /\ sentTill' = sentTill /\ sentDone' = sentDone
  BY DEF ReadElsewhere, reads
\* More is told now.
<1>2. ASSUME NEW g \in Chats, NEW m \in Incoming(g), Tells(Now, serverTill, willTill, g, m)
      PROVE  Tells(Now, serverTill', willTill, g, m)
  <2>1. m \in Nat /\ serverTill[g] \in Nat
    BY <1>num, HistoriesAssumption DEF Incoming, Messages
  <2>2. serverTill'[g] \in Nat /\ serverTill'[g] >= serverTill[g]
    BY <1>0, <1>1, <1>num
  <2> QED BY <1>2, <2>1, <2>2 DEF Tells
<1>told. serverTill'[h] = t /\ \A m \in Incoming(h) : m <= t => Tells(Now, serverTill', willTill, h, m)
  BY <1>0, <1>1 DEF Tells
<1>same. Skips(h, position[h], position[h]) /\ Skips(h, t, t)
  BY DEF Skips
<1>each. Covers(h, count[h], position[h], sentTill[h]) /\ count[h] \in Counts
  BY <1>0, EachCovers
\* Where it goes, and what the count covers there.
<1>3. \E x, c : /\ LocalGoes(h, x, c) /\ x >= t /\ Covers(h, c, x, sentTill[h])
                /\ \E T \in Tills : /\ Skips(h, T, x)
                                    /\ \A m \in Incoming(h) : m <= T =>
                                          \/ m <= position[h]
                                          \/ Tells(Now, serverTill', willTill, h, m)
  <2>0. \/ position[h] >= t /\ position' = position /\ count' = count
        \/ /\ ~(position[h] >= t)
           /\ \E x, c : /\ LocalGoes(h, x, c) /\ x >= t
                        /\ \/ c = count[h] /\ x = t
                           \/ /\ c \in StillUnread(h, t) \cup
                                     (IF count[h] = Unknown THEN {} ELSE {Cardinality(Unread(h, t))})
                              /\ c # Unknown
                              /\ \/ x = t
                                 \/ c = 0 /\ x = LastMessage
                                 \/ c = 1 /\ x = LastMessage - 1
    BY <1>0, ElsewhereIs
  <2>1. CASE position[h] >= t /\ position' = position /\ count' = count
    <3>1. LocalGoes(h, position[h], count[h])
      BY <1>0, <1>num, <2>1 DEF LocalGoes
    <3> QED BY <1>0, <1>same, <1>each, <2>1, <3>1
  <2>2. ASSUME ~(position[h] >= t), NEW c, LocalGoes(h, t, c), c = count[h]
        PROVE  Covers(h, c, t, sentTill[h])
    BY <1>0, <1>num, <1>each, <2>2, CoversMore
  <2>3. ASSUME ~(position[h] >= t), NEW x, NEW c, LocalGoes(h, x, c), x >= t, c # Unknown,
               c \in StillUnread(h, t) \cup
                       (IF count[h] = Unknown THEN {} ELSE {Cardinality(Unread(h, t))}),
               \/ x = t
               \/ c = 0 /\ x = LastMessage
               \/ c = 1 /\ x = LastMessage - 1
        PROVE  /\ Covers(h, c, x, sentTill[h])
               /\ \E T \in Tills : /\ Skips(h, T, x)
                                   /\ \A m \in Incoming(h) : m <= T =>
                                         \/ m <= position[h]
                                         \/ Tells(Now, serverTill', willTill, h, m)
    <3>1. x \in Tills /\ x \in Nat /\ x <= LastMessage
      BY <2>3, TillsAreNumbers DEF LocalGoes
    <3>2. CASE sentTill[h] = LastMessage
      <4>1. ASSUME NEW m \in Incoming(h), m <= x PROVE Tells(Now, serverTill', willTill, h, m)
        <5>1. m \in Nat /\ m <= LastMessage /\ LastMessage # 0
          BY HistoriesAssumption DEF Incoming, Messages
        <5>2. Tells(Now, serverTill, willTill, h, m)
          BY <3>2, <5>1, SentTells
        <5> QED BY <1>2, <5>2
      <4>2. Skips(h, x, x)
        BY DEF Skips
      <4> QED BY <3>1, <3>2, <4>1, <4>2 DEF Covers
    <3>3. CASE sentTill[h] # LastMessage
      <4>1. c >= Cardinality(Unread(h, t))
        <5>1. CASE c = Cardinality(Unread(h, t))
          <6>1. c \in Nat
            BY <5>1, UnreadSize
          <6> QED BY <5>1, <6>1
        <5>2. CASE c \in StillUnread(h, t)
          <6>1. count[h] # Unknown
            BY <2>3, <5>2 DEF StillUnread
          <6>2. count[h] >= Cardinality(Unread(h, position[h])) /\ position[h] <= t
            BY <1>num, <1>each, <2>3, <3>3, <6>1 DEF Covers
          <6> QED BY <1>0, <2>3, <5>2, <6>2, StillUnreadCovers
        <5> QED BY <2>3, <5>1, <5>2
      <4>2. Skips(h, t, x)
        BY <1>num, <2>3, <3>1, <4>1, GoesSkips
      <4>3. c \in Counts
        BY <2>3, StillUnreadTyped, UnreadSize, <1>each DEF Counts
      <4>4. Covers(h, c, t, sentTill[h]) /\ t <= x
        BY <1>num, <2>3, <3>1, <4>1 DEF Covers
      <4>5. Covers(h, c, x, sentTill[h])
        BY <1>num, <3>1, <4>3, <4>4, CoversFurther
      <4> QED BY <1>num, <1>told, <4>2, <4>5
    <3> QED BY <3>2, <3>3
  <2>4. ASSUME ~(position[h] >= t), NEW x, NEW c, LocalGoes(h, x, c), x >= t, c = count[h], x = t
        PROVE  /\ Covers(h, c, x, sentTill[h])
               /\ \E T \in Tills : /\ Skips(h, T, x)
                                   /\ \A m \in Incoming(h) : m <= T =>
                                         \/ m <= position[h]
                                         \/ Tells(Now, serverTill', willTill, h, m)
    BY <1>num, <1>told, <1>same, <2>2, <2>4
  <2>5. CASE ~(position[h] >= t)
    <3>1. PICK x, c : /\ LocalGoes(h, x, c) /\ x >= t
                      /\ \/ c = count[h] /\ x = t
                         \/ /\ c \in StillUnread(h, t) \cup
                                   (IF count[h] = Unknown THEN {} ELSE {Cardinality(Unread(h, t))})
                            /\ c # Unknown
                            /\ \/ x = t
                               \/ c = 0 /\ x = LastMessage
                               \/ c = 1 /\ x = LastMessage - 1
      BY <2>0, <2>5
    <3>2. /\ Covers(h, c, x, sentTill[h])
          /\ \E T \in Tills : /\ Skips(h, T, x)
                              /\ \A m \in Incoming(h) : m <= T =>
                                    \/ m <= position[h]
                                    \/ Tells(Now, serverTill', willTill, h, m)
      BY <2>3, <2>4, <2>5, <3>1
    <3> QED BY <3>1, <3>2
  <2> QED BY <2>0, <2>1, <2>5
<1>4. PICK x, c : /\ LocalGoes(h, x, c) /\ x >= t /\ Covers(h, c, x, sentTill[h])
                  /\ \E T \in Tills : /\ Skips(h, T, x)
                                      /\ \A m \in Incoming(h) : m <= T =>
                                            \/ m <= position[h]
                                            \/ Tells(Now, serverTill', willTill, h, m)
  BY <1>3
<1>5. /\ position' \in [Chats -> Tills] /\ serverTill' \in [Chats -> Tills]
      /\ x \in Tills /\ x \in Nat /\ x >= position[h]
      /\ position'[h] = x /\ count'[h] = c
      /\ \A g \in Chats \ {h} : /\ position'[g] = position[g] /\ serverTill'[g] = serverTill[g]
                                /\ count'[g] = count[g]
  <2>1. /\ position' = [position EXCEPT ![h] = x] /\ count' = [count EXCEPT ![h] = c]
        /\ x \in Tills /\ x >= position[h]
    BY <1>4 DEF LocalGoes
  <2> QED BY <1>0, <1>1, <1>num, <2>1, TillsAreNumbers
<1>6. IsTold(Now, position', serverTill', willTill)
  <2> SUFFICES ASSUME NEW g \in Chats PROVE ToldAt(Now, serverTill', willTill, g, position'[g])
    BY DEF IsTold
  <2>1. ToldAt(Now, serverTill, willTill, g, position[g])
    BY DEF Steady, Agree, IsTold
  <2>2. CASE g = h
    <3>1. position[h] \in Tills
      BY <1>0
    <3>2. ToldAt(Now, serverTill', willTill, h, x)
      BY <1>2, <1>4, <1>5, <2>1, <2>2, <3>1, GoesTold
    <3> QED BY <1>5, <2>2, <3>2
  <2>3. CASE g # h
    BY <1>2, <1>5, <2>1, <2>3 DEF ToldAt
  <2> QED BY <2>2, <2>3
<1>7. Agree(Now, position', serverTill', willTill, sentTill, sentDone)
  <2>1. Now.till \in [Requests -> Tills]
    BY <1>0 DEF Typed
  <2>2. \A g \in Chats : \/ position'[g] = position[g] /\ serverTill'[g] = serverTill[g]
                         \/ /\ serverTill'[g] >= serverTill[g] /\ position'[g] >= position[g]
                            /\ position'[g] >= serverTill'[g]
    BY <1>1, <1>4, <1>5, <1>told, <1>num
  <2>3. Agree(Now, position, serverTill, willTill, sentTill, sentDone)
    BY DEF Steady
  <2> QED BY <1>0, <1>5, <1>6, <2>1, <2>2, <2>3, ServerAgrees
<1>8. SameReads(Now', Now) /\ NoOwnReads(Now)
  <2>1. CASE UNCHANGED queue
    BY <2>1, UnchangedSame DEF Steady
  <2>2. CASE Becomes(RequestingEntry(Now, h))
    <3>1. /\ SameReads(Now', RequestingEntry(Now, h)) /\ SameReads(RequestingEntry(Now, h), Now)
      BY <1>0, <2>2, BecomesSame, RequestingSame, RequestingTyped
    <3> QED BY <3>1, SameReadsTransitive DEF Steady
  <2> QED BY <2>1, <2>2 DEF ReadElsewhere
<1>9. BatchesKnow'
  <2> SUFFICES ASSUME NEW b \in Batches, batches[b].read # <<>>, NEW g \in Chats
               PROVE  batches[b].read[g] <= serverTill'[g]
    BY <1>1 DEF BatchesKnow
  <2>1. batches[b].read[g] <= serverTill[g]
    BY DEF Steady, BatchesKnow
  <2>2. batches[b].read[g] \in Nat
    <3>1. batches[b].read \in [Chats -> Tills]
      BY DEF Steady, TypeInv, RestTyped
    <3> QED BY <3>1, TillsAreNumbers
  <2> QED BY <1>1, <1>5, <1>told, <1>num, <2>1, <2>2
<1>10. WillIsRead'
  <2>1. ASSUME NEW g \in Chats PROVE willTill[g] <= position'[g]
    <3>1. willTill[g] <= position[g]
      BY DEF Steady, WillIsRead
    <3> QED BY <1>5, <1>num, <3>1
  <2> QED BY <1>1, <2>1 DEF WillIsRead
<1>11. ASSUME NEW g \in Chats PROVE Covers(g, count'[g], position'[g], sentTill'[g])
  <2>1. CASE g = h
    BY <1>1, <1>4, <1>5, <2>1
  <2>2. CASE g # h
    BY <1>1, <1>5, <2>2, EachCovers
  <2> QED BY <2>1, <2>2
<1> QED BY <1>1, <1>7, <1>8, <1>9, <1>10, <1>11, CoversEach, AgreeingAfter

\* The server handles a read.
LEMMA ServerReadsAgree ==
    ASSUME Steady, NEW r \in Requests, ServerReads(r)
    PROVE  Agreeing'
<1>0. /\ Typed(Now)
      /\ position \in [Chats -> Tills] /\ serverTill \in [Chats -> Tills]
      /\ willTill \in [Chats -> Tills] /\ sentTill \in [Chats -> Tills] /\ sentDone \subseteq Chats
  BY SteadyTypes
<1> DEFINE n == Now
           m == Now'
<1>1. /\ n.type[r] = "ReadInbox" /\ n.net[r] = "asked"
      /\ m.type = n.type /\ m.home = n.home /\ m.till = n.till
      /\ m.net = [n.net EXCEPT ![r] = "handled"]
      /\ m.entries = n.entries /\ m.pending = n.pending
      /\ n.home = home /\ n.till = till
  BY DEF ServerReads, Now, Steady, NoOwnReads
<1>2. /\ position' = position /\ willTill' = willTill /\ sentTill' = sentTill
      /\ sentDone' = sentDone /\ batches' = batches /\ count' = count
      /\ serverTill' = [serverTill EXCEPT ![home[r]] = Max({@, till[r]})]
  BY DEF ServerReads, reads, local
<1>3. Agree(n, position, serverTill, willTill, sentTill, sentDone) /\ NoOwnReads(n) /\ Typed(n)
  BY <1>0 DEF Steady
<1> HIDE DEF n, m
<1>4. /\ IsRead(n, r) /\ IsRead(m, r) /\ m.net[r] = "handled"
      /\ \A x \in Requests : /\ IsRead(m, x) <=> IsRead(n, x)
                             /\ IsRead(n, x) /\ x # r => m.net[x] = n.net[x]
                             /\ m.home[x] = n.home[x] /\ m.till[x] = n.till[x]
      /\ NoOwnReads(m)
  BY <1>1, <1>3 DEF IsRead, Typed, NoOwnReads
<1>5. Agree(m, position, [serverTill EXCEPT ![n.home[r]] = Max({@, n.till[r]})],
            willTill, sentTill, sentDone)
  BY <1>0, <1>1, <1>3, <1>4, HandledAgrees
<1>6. Agree(m, position', serverTill', willTill', sentTill', sentDone')
  BY <1>1, <1>2, <1>5
<1>7. BatchesKnow'
  <2> SUFFICES ASSUME NEW b \in Batches, batches[b].read # <<>>, NEW g \in Chats
               PROVE  batches[b].read[g] <= serverTill'[g]
    BY <1>2 DEF BatchesKnow
  <2>1. batches[b].read[g] <= serverTill[g]
    BY DEF Steady, BatchesKnow
  <2>2. batches[b].read[g] \in Nat /\ serverTill[g] \in Tills /\ serverTill[g] \in Nat
    <3>1. batches[b].read \in [Chats -> Tills]
      BY DEF Steady, TypeInv, RestTyped
    <3> QED BY <1>0, <3>1, TillsAreNumbers
  <2>3. till[r] \in Tills
    BY <1>1, <1>3 DEF Typed
  <2>4. g = home[r] => serverTill'[g] >= serverTill[g] /\ serverTill'[g] \in Nat
    BY <1>0, <1>2, <2>2, <2>3, MaxIsOne, TillsAreNumbers
  <2>5. g # home[r] => serverTill'[g] = serverTill[g]
    BY <1>0, <1>2
  <2> QED BY <2>1, <2>2, <2>4, <2>5
<1>8. WillIsRead' /\ CountCovers'
  BY <1>2 DEF Steady, WillIsRead, CountCovers
<1> QED BY <1>4, <1>6, <1>7, <1>8 DEF Agreeing, m

\* The entries are asked for, those of histories with other requests later.
LEMMA SendDialogRequestsAgree ==
    ASSUME Steady, SendDialogRequests
    PROVE  Agreeing'
<1> DEFINE later == {h \in pending : PostponesEntry(Now, h)}
           n == Now
           q == [n EXCEPT !.posted = FALSE, !.pending = {}, !.entries = @ \cup pending,
                          !.entryPostponed = @ \cup later]
<1>1. /\ Becomes(q) /\ position' = position /\ willTill' = willTill /\ sentTill' = sentTill
      /\ sentDone' = sentDone /\ serverTill' = serverTill /\ count' = count
  BY DEF SendDialogRequests, reads, local
<1>2. Typed(n) /\ n.pending = pending /\ pending \subseteq Chats
  BY SteadyTypes DEF Now, Steady, TypeInv, QueueTypes
<1>3. later \subseteq Chats
  BY <1>2
<1> HIDE DEF n, later
<1>4. Typed(q) /\ SameReads(q, n)
  BY <1>2, <1>3 DEF Typed, IsQueue, SameReads, NoOwnReads, IsRead
<1> HIDE DEF q
<1>5. SameReads(Now', Now)
  BY <1>1, <1>4, BecomesSame, SameReadsTransitive DEF n
<1>6. BatchesKnow'
  <2>1. \/ batches' = batches
        \/ \E b : batches' = [batches EXCEPT ![b] = [of |-> pending \ later, read |-> <<>>]]
    BY DEF SendDialogRequests, later
  <2>2. \A b \in Batches : batches'[b].read = batches[b].read \/ batches'[b].read = <<>>
    <3>1. CASE batches' = batches
      BY <3>1
    <3>2. CASE \E b : batches' = [batches EXCEPT ![b] = [of |-> pending \ later, read |-> <<>>]]
      BY <3>2 DEF Steady, TypeInv, RestTyped
    <3> QED BY <2>1, <3>1, <3>2
  <2> QED BY <1>1, <2>2 DEF Steady, BatchesKnow
<1>7. WillIsRead' /\ CountCovers'
  BY <1>1 DEF Steady, WillIsRead, CountCovers
<1> QED BY <1>1, <1>5, <1>6, <1>7, AgreeingAfter DEF Steady

\* Nothing is read at first.
LEMMA AgreeInit == Init => AgreeInv
<1> SUFFICES ASSUME Init PROVE AgreeInv
  OBVIOUS
<1> DEFINE n == Now
<1>1. /\ n.net = [r \in Requests |-> "none"] /\ n.type = [r \in Requests |-> "none"]
      /\ \A h : ReadsFor(n, h) = {}
  BY DEF Init, Now, ReadsFor, IsRead
<1> HIDE DEF n
<1>2. Agree(n, position, serverTill, willTill, sentTill, sentDone)
  <2>1. IsTold(n, position, serverTill, willTill)
    <3> SUFFICES ASSUME NEW h \in Chats PROVE ToldAt(n, serverTill, willTill, h, position[h])
      BY DEF IsTold
    <3> QED BY DEF Init, ToldAt, Tells
  <2>2. IsHeard(n, position, serverTill, sentTill, sentDone)
    BY DEF Init, IsHeard
  <2>3. IsAsked(n, sentTill, sentDone) /\ IsDone(n, serverTill, sentTill, sentDone)
    BY DEF Init, IsAsked, IsDone
  <2>4. Differ(n, willTill, sentTill, sentDone) /\ Knows(n, serverTill)
    BY <1>1 DEF Differ, Knows
  <2> QED BY <2>1, <2>2, <2>3, <2>4 DEF Agree
<1>3. NoOwnReads(n)
  BY <1>1 DEF NoOwnReads
<1>4. BatchesKnow /\ WillIsRead
  BY DEF Init, BatchesKnow, WillIsRead, NoBatch
<1>5. CountCovers
  <2>1. \A h \in Chats : Cardinality(Unread(h, 0)) >= Cardinality(Unread(h, 0))
    BY UnreadSize
  <2>2. \A h \in Chats : position[h] = 0 /\ count[h] \in {Unknown, Cardinality(Unread(h, 0))}
    BY DEF Init
  <2> QED BY <2>1, <2>2 DEF CountCovers
<1> QED BY <1>2, <1>3, <1>4, <1>5 DEF AgreeInv, n

\* Every step leaves both sides in agreement.
LEMMA AgreeStep == Inv /\ OrderInv /\ TypeInv /\ AgreeInv /\ [Next]_vars => AgreeInv'
<1> SUFFICES ASSUME Inv, OrderInv, TypeInv, AgreeInv, [Next]_vars, alwaysSent PROVE AgreeInv'
  <2> SUFFICES ASSUME [Next]_vars, ~alwaysSent PROVE ~alwaysSent'
    BY DEF AgreeInv
  <2> QED BY ZenonT(30) DEF Next, Users, System, vars, rest, ghost, Send, SendMessage, OwnRead,
          SendPendingReadInbox, RequestDialogEntry, ReadElsewhere, ReadInboxTill, Cancel,
          ToggleSendReads, AnswerSimple, AnswerUnfinished, AnswerRead, ServerReads,
          ServerReturns, AnswerEntries, EntriesRefused, ReadTimerFires, SendDialogRequests
<1> SUFFICES ASSUME Steady PROVE Agreeing' \/ ~alwaysSent'
  BY DEF AgreeInv, Agreeing, Steady
<1>0. sendReads /\ Typed(Now) /\ Apart(Now)
  BY SteadyTypes
<1>1. ASSUME NEW h \in Chats, NEW what \in {"History", "Delete", "DeleteChannel"}, Send(h, what)
      PROVE  Agreeing'
  <2>1. /\ Typed(Sending(Now, h, what, 0)) /\ SameReads(Sending(Now, h, what, 0), Now)
    BY <1>0, <1>1, SendingTyped, SendingSame DEF Send, Types, Tills
  <2> QED BY <1>1, <2>1, RequestsAgree DEF Send
<1>2. ASSUME NEW h \in Chats, OwnRead(h)
      PROVE  Agreeing'
  BY <1>0, <1>2 DEF OwnRead
<1>3. ASSUME NEW h \in Chats, SendMessage(h)
      PROVE  Agreeing'
  <2>1. Free(Now) # {} /\ Becomes(Sending(Now, h, "Send", 0)) /\ UNCHANGED <<reads, local, rest>>
    BY <1>0, <1>3 DEF SendMessage
  <2>2. Typed(Sending(Now, h, "Send", 0)) /\ SameReads(Sending(Now, h, "Send", 0), Now)
    BY <1>0, <2>1, SendingTyped, SendingSame DEF Types, Tills
  <2> QED BY <2>1, <2>2, RequestsAgree
<1>4. ASSUME NEW h \in Chats, SendPendingReadInbox(h)
      PROVE  Agreeing'
  BY <1>4, SendPendingAgree DEF SendPendingReadInbox
<1>5. ASSUME NEW h \in Chats, RequestDialogEntry(h)
      PROVE  Agreeing'
  <2>1. Typed(RequestingEntry(Now, h)) /\ SameReads(RequestingEntry(Now, h), Now)
    BY <1>0, RequestingTyped, RequestingSame
  <2> QED BY <1>5, <2>1, RequestsAgree DEF RequestDialogEntry
<1>6. ASSUME NEW r \in Requests, Cancel(r)
      PROVE  Agreeing'
  <2> DEFINE n == Now
             q == [n EXCEPT !.postponed = @ \ {r}]
  <2>1. type[r] = "History" /\ n.type = type /\ Typed(n) /\ Apart(n)
    BY <1>0, <1>6 DEF Cancel, Now
  <2>2. Becomes(Finishing(q, r)) /\ UNCHANGED <<reads, local, rest>>
    BY <1>6 DEF Cancel
  <2> HIDE DEF n
  <2>3. Typed(q) /\ Apart(q) /\ SameReads(q, n) /\ ~IsRead(q, r)
    BY <2>1 DEF Typed, Apart, IsQueue, SameReads, NoOwnReads, IsRead
  <2> HIDE DEF q
  <2>4. Typed(Finishing(q, r)) /\ SameReads(Finishing(q, r), n)
    BY <2>3, FinishingTyped, FinishingSame, SameReadsTransitive
  <2> QED BY <2>2, <2>4, RequestsAgree DEF n
<1>7. ASSUME NEW r \in Requests, type[r] # "ReadInbox"
      PROVE  /\ Typed(Answered(Now, r)) /\ Apart(Answered(Now, r))
             /\ SameReads(Answered(Now, r), Now) /\ Free(Answered(Now, r)) = Free(Now)
             /\ Answered(Now, r).type = type /\ Answered(Now, r).net[r] = "none"
  <2> DEFINE n == Now
             a == Cancelling(n, {r})
  <2>1. Typed(n) /\ Apart(n) /\ n.type = type
    BY <1>0 DEF Now
  <2> HIDE DEF n
  <2>2. a.type = n.type /\ a.net[r] = "none"
    BY <2>1 DEF Cancelling, Typed, IsQueue
  <2>3. ~IsRead(n, r)
    BY <1>7, <2>1 DEF IsRead
  <2>4. Typed(a) /\ Apart(a) /\ SameReads(a, n) /\ Free(a) = Free(n)
    BY <2>1, <2>3, AskingTyped, CancellingApart, CancellingSame
  <2> QED BY <2>1, <2>2, <2>4 DEF Answered, n
<1>8. ASSUME NEW r \in Requests, AnswerSimple(r)
      PROVE  Agreeing'
  <2> DEFINE a == Answered(Now, r)
             d == Sending(a, home[r], "Delete", 0)
  <2>1. Typed(a) /\ Apart(a) /\ SameReads(a, Now) /\ Free(a) = Free(Now) /\ a.type = type
        /\ type[r] # "ReadInbox" /\ home[r] \in Chats /\ a.net[r] = "none"
    BY <1>7, <1>8 DEF AnswerSimple, Steady, TypeInv, QueueTypes
  <2>2. UNCHANGED <<reads, local, rest>>
    BY <1>8 DEF AnswerSimple
  <2>3. CASE Becomes(Finishing(a, r))
    <3> HIDE DEF a
    <3>1. ~IsRead(a, r)
      BY <2>1 DEF IsRead
    <3>2. Typed(Finishing(a, r)) /\ SameReads(Finishing(a, r), Now)
      BY <2>1, <3>1, FinishingTyped, FinishingSame, SameReadsTransitive
    <3> QED BY <2>2, <2>3, <3>2, RequestsAgree
  <2>4. CASE Free(Now) # {} /\ Becomes(Finishing(d, r))
    <3> HIDE DEF a
    <3>1. Typed(d) /\ Apart(d) /\ SameReads(d, a)
      BY <2>1, <2>4, SendingTyped, SendingApart, SendingSame DEF Types, Tills
    <3>2. ~IsRead(d, r)
      BY <2>1, <3>1 DEF SameReads, IsRead
    <3> HIDE DEF d
    <3>3. Typed(Finishing(d, r)) /\ SameReads(Finishing(d, r), d)
      BY <3>1, <3>2, FinishingTyped, FinishingSame
    <3>4. SameReads(Finishing(d, r), Now)
      BY <2>1, <3>1, <3>3, SameReadsTransitive
    <3> QED BY <2>2, <2>4, <3>3, <3>4, RequestsAgree
  <2> QED BY <1>8, <2>3, <2>4 DEF AnswerSimple
<1>9. ASSUME NEW r \in Requests, AnswerUnfinished(r)
      PROVE  Agreeing'
  BY <1>7, <1>9, RequestsAgree DEF AnswerUnfinished
<1>10. CASE ToggleSendReads
  BY <1>10 DEF ToggleSendReads
<1>11. ASSUME NEW b \in Batches, ServerReturns(b)
       PROVE  Agreeing'
  <2>1. /\ UNCHANGED <<queue, reads, local, serverTill>>
        /\ batches' = [batches EXCEPT ![b].read = serverTill]
    BY <1>11 DEF ServerReturns
  <2>2. BatchesKnow'
    <3>1. \A c \in Batches : batches'[c].read = batches[c].read \/ batches'[c].read = serverTill
      BY <2>1 DEF Steady, TypeInv, RestTyped
    <3>2. \A h \in Chats : serverTill[h] <= serverTill[h]
      BY SteadyTypes, TillsAreNumbers
    <3> QED BY <2>1, <3>1, <3>2 DEF Steady, BatchesKnow
  <2>3. WillIsRead' /\ CountCovers'
    BY <2>1 DEF Steady, WillIsRead, CountCovers, reads, local
  <2>4. SameReads(Now', Now)
    BY <2>1, UnchangedSame
  <2>5. Agree(Now, position', serverTill', willTill', sentTill', sentDone') /\ NoOwnReads(Now)
    BY <2>1 DEF Steady, reads, local
  <2> QED BY <2>2, <2>3, <2>4, <2>5, AgreeingAfter
<1>12. CASE UNCHANGED vars
  <2>1. UNCHANGED <<queue, reads, local, serverTill, batches>>
    BY <1>12 DEF vars, rest
  <2>2. BatchesKnow' /\ WillIsRead' /\ CountCovers'
    BY <2>1 DEF Steady, BatchesKnow, WillIsRead, CountCovers, reads, local
  <2>3. SameReads(Now', Now)
    BY <2>1, UnchangedSame
  <2>4. Agree(Now, position', serverTill', willTill', sentTill', sentDone') /\ NoOwnReads(Now)
    BY <2>1 DEF Steady, reads, local
  <2> QED BY <2>2, <2>3, <2>4, AgreeingAfter
<1> QED
  BY <1>1, <1>2, <1>3, <1>4, <1>5, <1>6, <1>8, <1>9, <1>10, <1>11, <1>12,
     ReadInboxTillAgree, AnswerReadAgree, ReadTimerFiresAgree, SendDialogRequestsAgree,
     ReadElsewhereAgree, ServerReadsAgree, AnswerEntriesAgree
  DEF Next, Users, System

\* What is read on both sides once nothing is under way.
LEMMA SettledAgree == TypeInv /\ AgreeInv => ReadsAgree
<1> DEFINE Here(h) == Unread(h, position[h])
           There(h) == Unread(h, serverTill[h])
<1> SUFFICES ASSUME TypeInv, AgreeInv, alwaysSent, NEW h \in Chats, Settled(h)
             PROVE  Here(h) = There(h) \/ (Here(h) = {} /\ PassedBy(h, There(h)))
  BY DEF ReadsAgree
<1>1. /\ h \notin entries \cup pending /\ willTill[h] = 0 /\ Reading(h) = {}
  BY DEF Settled, Reading
<1>2. ReadIsTold /\ ReadIsHeard /\ SentIsDone
  BY AgreeInvIs DEF AgreeInvariant, TypeInv
<1>3. h \notin sentDone
  BY <1>1, <1>2 DEF SentIsDone
<1>4. serverTill[h] <= position[h]
  BY <1>1, <1>2, <1>3 DEF ReadIsHeard
<1>5. /\ serverTill[h] \in Nat /\ position[h] \in Nat
      /\ serverTill[h] \in Tills /\ position[h] \in Tills
      /\ \A m \in Incoming(h) : m \in Nat /\ ~(m <= 0)
  <2>1. serverTill[h] \in Tills /\ position[h] \in Tills
    BY DEF TypeInv, LocalTyped, RestTyped
  <2> QED BY <2>1, TillsAreNumbers, HistoriesAssumption DEF Incoming, Messages
<1> DEFINE untold == {m \in Incoming(h) : m <= position[h] /\ ~Telling(h, m)}
<1>6. \A m \in Incoming(h) : Telling(h, m) <=> m <= serverTill[h]
  BY <1>1, <1>5 DEF Telling
<1>7. untold = {} \/ (Here(h) = {} /\ PassedBy(h, untold))
  BY <1>2 DEF ReadIsTold
<1>8. \A m \in Incoming(h) : /\ m \in Here(h) <=> ~(m <= position[h])
                             /\ m \in There(h) <=> ~(m <= serverTill[h])
  BY <1>5 DEF Unread
<1>9. Here(h) \subseteq Incoming(h) /\ There(h) \subseteq Incoming(h)
  BY DEF Unread
<1> HIDE DEF Here, There
<1>10. CASE untold = {}
  <2>1. \A m \in Incoming(h) : m <= position[h] => m <= serverTill[h]
    BY <1>6, <1>10
  <2>2. \A m \in Incoming(h) : m <= serverTill[h] => m <= position[h]
    BY <1>4, <1>5
  <2>3. Here(h) = There(h)
    BY <1>8, <1>9, <2>1, <2>2
  <2> QED BY <2>3
<1>11. CASE Here(h) = {} /\ PassedBy(h, untold)
  <2>1. untold = There(h)
    BY <1>6, <1>8, <1>9, <1>11
  <2> HIDE DEF untold
  <2> QED BY <1>11, <2>1
<1> QED BY <1>7, <1>10, <1>11

\* What the agreement of both sides rests on, in every state.
THEOREM AgreeInvariantHolds == Spec => []AgreeInvariant
<1>1. Init => Inv /\ OrderInv /\ TypeInv /\ AgreeInv
  BY InvInit, OrderInit, TypeInit, AgreeInit
<1>2. Inv /\ OrderInv /\ TypeInv /\ AgreeInv /\ [Next]_vars
        => (Inv /\ OrderInv /\ TypeInv /\ AgreeInv)'
  BY InvStep, OrderStep, TypeStep, AgreeStep
<1>3. TypeInv /\ AgreeInv => AgreeInvariant
  BY AgreeInvIs DEF TypeInv
<1> QED BY <1>1, <1>2, <1>3, PTL DEF Spec

\* The same messages are unread here and on the server once nothing of a chat is under way, but
\* for the one that setUnreadCount() may pass by before a last message of one's own: for any
\* number of chats, messages and requests and whichever messages are one's own, as long as reads
\* are always sent.
THEOREM BothSidesAgree == Spec => []ReadsAgree
<1>1. Init => Inv /\ OrderInv /\ TypeInv /\ AgreeInv
  BY InvInit, OrderInit, TypeInit, AgreeInit
<1>2. Inv /\ OrderInv /\ TypeInv /\ AgreeInv /\ [Next]_vars
        => (Inv /\ OrderInv /\ TypeInv /\ AgreeInv)'
  BY InvStep, OrderStep, TypeStep, AgreeStep
<1>3. TypeInv /\ AgreeInv => ReadsAgree
  BY SettledAgree
<1> QED BY <1>1, <1>2, <1>3, PTL DEF Spec
=============================================================================
