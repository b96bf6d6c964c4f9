----------------------------- MODULE MtpSession -----------------------------
(***************************************************************************)
(* The message layer of one MTProto session: Session and SessionData on    *)
(* the main thread (mtproto/session.cpp), SessionPrivate on the session's  *)
(* thread (mtproto/session_private.cpp).                                   *)
(*                                                                         *)
(* A request waits in toSend, travels in a packet, alone or in a           *)
(* container, and stays in haveSent under its message id until the server  *)
(* answers.  The answer travels through haveReceived to the main thread.   *)
(* On the way the connection may break, the session may get a new id, a    *)
(* new salt or a new thread object, and the server may forget the session, *)
(* refuse a packet or send an answer once more.                            *)
(*                                                                         *)
(* The two threads share toSend, haveSent and haveReceived under locks.    *)
(* An action is one task of one thread, run to its end.  The key of the    *)
(* datacenter is ready (DcKeys is about that), the clocks agree.           *)
(***************************************************************************)
EXTENDS ReceivedIds, SequencesExt

CONSTANTS NumRequests,  \* the requests are 1..NumRequests
          MaxEvents     \* bound: the requests after the first, and the incidents

ASSUME SessionAssumption == NumRequests \in Nat \ {0} /\ MaxEvents \in Nat

VARIABLES callback,     \* Instance::_parserMap, for each request
          session,      \* Session, SessionData and SessionPrivate
          up, down,     \* the connection, each way
          server,       \* the server's end of the session
          events        \* how many requests and incidents are left

vars == <<callback, session, up, down, server, events>>

Requests == 1..NumRequests

-----------------------------------------------------------------------------
(* Message ids.  Those of a packet are larger than those of the packets    *)
(* before.  In a packet the ping comes first, then the requests, the other *)
(* service messages and the container itself.                              *)

Slots == NumRequests + 5
MsgId(packet, slot) == packet * Slots + slot
SlotOf(id) == id % Slots
PingSlot == 0
StateSlot == NumRequests + 1
ResendSlot == NumRequests + 2
AckSlot == NumRequests + 3
ContainerSlot == NumRequests + 4

NoSalt == 0
NoSession == 0
Special == 0 - 1        \* mtpRequestId(0xFFFFFFFF): sent, and not a request

\* The maps from message ids to requests are sets of pairs.
Ids(pairs) == {p[1] : p \in pairs}
Owners(pairs) == {p[2] : p \in pairs}
Of(pairs, ids) == {p \in pairs : p[1] \in ids}
Owner(pairs, id) == (CHOOSE p \in pairs : p[1] = id)[2]
Renamed(pairs, old, new) == {IF p[1] = old THEN <<new, p[2]>> ELSE p : p \in pairs}

\* Mutant: a cancelled request keeps its callback.
HadCallback(r) == r \in Requests /\ callback[r] # "none"

\* Instance::hasCallback(); there is none for a Special id.
HasCallback(r) == r \in Requests /\ callback[r] = "waiting"

Incident == events > 0 /\ events' = events - 1

-----------------------------------------------------------------------------
(* The start *)

\* What a new SessionPrivate has of its own.
NewPrivate(s) ==
    [s EXCEPT !.state = "disconnected", !.salt = NoSalt, !.started = FALSE,
              !.pingToSend = FALSE, !.pingMsgId = 0,
              !.acks = {}, !.resendReq = {}, !.stateReq = {}, !.stateReqsSent = {},
              !.received = {}, !.resending = {}, !.acked = {}, !.containers = {},
              !.checkTimer = FALSE]

Init ==
    /\ callback = [r \in Requests |-> "none"]
    /\ session =
          [state |-> "disconnected", salt |-> NoSalt, started |-> FALSE,
           pingToSend |-> FALSE, pingMsgId |-> 0,
           acks |-> {}, resendReq |-> {}, stateReq |-> {}, stateReqsSent |-> {},
           received |-> {}, resending |-> {}, acked |-> {}, containers |-> {},
           checkTimer |-> FALSE,
           number |-> 1,        \* _sessionId
           packets |-> 0,       \* how many were sent
           toSend |-> {}, haveSent |-> {}, haveReceived |-> <<>>,
           msgId |-> [r \in Requests |-> 0],
           inContainer |-> {},  \* the requests with forceSendInContainer
           delayed |-> {},      \* Instance::_delayedRequests
           wantSend |-> FALSE,  \* a call of tryToSend is under way
           handled |-> {}]      \* the updates handed to the main thread
    /\ up = <<>> /\ down = <<>>
    /\ server = [salt |-> 1, session |-> NoSession, heard |-> FALSE,
                 ran |-> {}, pending |-> {}, stored |-> {}, sent |-> {}, last |-> 0,
                 executed |-> {}, refused |-> {}]
    /\ events = MaxEvents

-----------------------------------------------------------------------------
(* Resending *)

\* resend() of requests: from haveSent back to toSend, under the same id.
ResendIds(s, ids) ==
    LET again == Of(s.haveSent, ids)
    IN [s EXCEPT !.haveSent = @ \ again,
                 !.resending = @ \cup again,
                 !.toSend = @ \cup Owners(again),
                 !.inContainer = @ \cup Owners(again),
                 !.pingMsgId = IF @ \in ids THEN 0 ELSE @]

\* Mutant: the request waits until something else is sent.
ResendWithNext(s, id) ==
    LET boxes == {box \in s.containers : box.id = id}
    IN [ResendIds(s, {id} \cup UNION {box.ids : box \in boxes}) EXCEPT !.containers = @ \ boxes]

\* resend(): a container is resent message by message.
Resend(s, id) ==
    LET boxes == {box \in s.containers : box.id = id}
        ids == {id} \cup UNION {box.ids : box \in boxes}
    IN [ResendIds(s, ids) EXCEPT !.containers = @ \ boxes, !.wantSend = TRUE]

\* Mutant: only what still waits is sent over the new connection.
ResendNothing(s) == [s EXCEPT !.wantSend = TRUE]

ResendAll(s) ==
    [ResendIds(s, Ids(s.haveSent)) EXCEPT !.pingMsgId = s.pingMsgId, !.wantSend = TRUE]

-----------------------------------------------------------------------------
(* Requests that the server has received *)

TrimAcked(pairs) == Of(pairs, Largest(Ids(pairs)))

\* Mutant: any ack ends the request.
AnyAck(p, byResponse) == TRUE

\* An ack without the answer does not count while the answer is awaited.
Counts(p, byResponse) == byResponse \/ ~HasCallback(p[2])

\* What was going to be resent need not be.
NotResent(s, again) == s.toSend \ Owners(again)

AckMessages(s, ids, byResponse) ==
    LET mine == ids \ ({box.id : box \in s.containers} \cup {q.id : q \in s.stateReqsSent})
        sent == {p \in Of(s.haveSent, mine) : Counts(p, byResponse)}
        again == {p \in Of(s.resending, mine \ Ids(s.haveSent)) : Counts(p, byResponse)}
        unsent == {p \in again : p[2] \in s.toSend}
    IN [s EXCEPT !.containers = {box \in @ : box.id \notin ids},
                 !.stateReqsSent = {q \in @ : q.id \notin ids},
                 !.haveSent = @ \ sent,
                 !.resending = @ \ again,
                 !.toSend = NotResent(s, again),
                 !.acked = TrimAcked(@ \cup sent \cup unsent)]

RequestsAcked(s, ids, byResponse) ==
    LET inside == UNION {box.ids : box \in {b \in s.containers : b.id \in ids}}
    IN AckMessages(AckMessages(s, ids, byResponse), inside, FALSE)

\* Mutant: a message that was acked a moment ago is not known any more.
SentAndNotAcked(s, id) ==
    IF id = s.pingMsgId \/ id \in {box.id : box \in s.containers} THEN Special
    ELSE IF id \in Ids(s.resending) THEN Owner(s.resending, id)
    ELSE IF id \in Ids(s.haveSent) THEN Owner(s.haveSent, id)
    ELSE 0

\* The request of a message that was sent recently, 0 if it was not.
WasSent(s, id) ==
    IF id = s.pingMsgId THEN Special
    ELSE IF id \in Ids(s.resending) THEN Owner(s.resending, id)
    ELSE IF id \in Ids(s.acked) THEN Owner(s.acked, id)
    ELSE IF id \in {box.id : box \in s.containers} THEN Special
    ELSE IF id \in Ids(s.haveSent) THEN Owner(s.haveSent, id)
    ELSE 0

-----------------------------------------------------------------------------
(* Sending *)

Linked(s) == s.state \in {"connecting", "connected"}

\* A packet takes the first of the requests, until they fill kCutContainerOnSize.
FirstToSend(s) ==
    IF s.state # "connected" \/ s.toSend = {} THEN {{}}
    ELSE {{q \in s.toSend : q <= last} : last \in s.toSend}

\* replaceMsgId(), for a request that had an id.
Replaced(s, old, new) ==
    IF old = new THEN s
    ELSE [s EXCEPT !.acked = Renamed(@, old, new),
                   !.haveSent = Renamed(@, old, new),
                   !.containers = {[box EXCEPT !.ids = {IF i = old THEN new ELSE i : i \in @}]
                                   : box \in @}]

\* A request keeps the id it has.
IdToSend(s, r, n, forceNew) ==
    IF s.msgId[r] # 0 /\ ~forceNew THEN s.msgId[r] ELSE MsgId(n, r)

\* prepareToSend() and haveSent, for the request r in packet n.
Prepared(s, r, n, forceNew) ==
    LET old == s.msgId[r]
        id == IdToSend(s, r, n, forceNew)
        found == [s EXCEPT !.resending = {p \in @ : p[1] # old}]
        moved == IF old = 0 THEN found ELSE Replaced(found, old, id)
    IN [moved EXCEPT !.msgId[r] = id,
                     !.haveSent = @ \cup {<<id, r>>},
                     !.toSend = @ \ {r}]

\* What is sent beside the requests, in packet n.
Service(s, n) ==
    LET message(kind, slot, ids) == [id |-> MsgId(n, slot), kind |-> kind, ids |-> ids]
        lists == {message("ack", AckSlot, s.acks), message("resend", ResendSlot, s.resendReq),
                  message("state", StateSlot, s.stateReq)}
    IN {m \in lists : s.state = "connected" /\ m.ids # {}}
         \cup (IF s.pingToSend THEN {message("ping", PingSlot, {})} ELSE {})

\* Mutant: a request gets a new id each time it is sent.
AlwaysNewMsgId(s) == TRUE

\* The first packet of a session gives its requests ids of that session.
ForceNewMsgId(s) == s.state = "connected" /\ ~s.started

PreparedAll(s, first, n) ==
    LET begun == [s EXCEPT !.started = @ \/ s.state = "connected", !.wantSend = FALSE]
        sent[r \in 0..NumRequests] ==
            IF r = 0 THEN begun
            ELSE IF r \in first THEN Prepared(sent[r - 1], r, n, ForceNewMsgId(s))
            ELSE sent[r - 1]
    IN  sent[NumRequests]

SendSomething(s) ==
    /\ Linked(s)
    /\ \/ s.pingToSend
       \/ s.state = "connected" /\ (s.toSend # {} \/ Service(s, 0) # {})

\* tryToSend() with nothing to send, or no way to send it.
TryInVain ==
    /\ session.wantSend /\ session.state # "stopped"
    /\ ~SendSomething(session)
    /\ session' = [session EXCEPT !.wantSend = FALSE,
                      !.started = @ \/ session.state = "connected"]
    /\ UNCHANGED <<callback, up, down, server, events>>

\* A message alone, or a container: packet n with the first of the requests, which are
\* prepared in t.
SendsPacket(first, t, n) ==
    LET service == Service(session, n)
        requests == {[id |-> t.msgId[r], kind |-> "request", ids |-> {r}] : r \in first}
        messages == service \cup requests
        alone == Cardinality(messages) = 1 /\ first \cap session.inContainer = {}
        packetId == IF alone THEN (CHOOSE m \in messages : TRUE).id
                    ELSE MsgId(n, ContainerSlot)
        inside == {m.id : m \in {k \in messages : k.kind \in {"ping", "request"}}}
        clear(ids) == IF session.state = "connected" THEN {} ELSE ids
    IN  /\ session' = [t EXCEPT
             !.packets = n,
             !.wantSend = first # {} /\ t.toSend # {},
             !.pingToSend = FALSE,
             !.pingMsgId = IF session.pingToSend THEN MsgId(n, PingSlot) ELSE @,
             !.acks = clear(@), !.resendReq = clear(@), !.stateReq = clear(@),
             !.stateReqsSent = @ \cup {m \in service : m.kind = "state"},
             !.containers = IF alone THEN @ ELSE @ \cup {[id |-> packetId, ids |-> inside]},
             !.checkTimer = @ \/ (~alone /\ first # {})]
        /\ up' = Append(up, [session |-> session.number, salt |-> session.salt,
                             id |-> packetId, messages |-> messages])

\* tryToSend()
TryToSend ==
    /\ session.wantSend /\ SendSomething(session)
    /\ LET n == session.packets + 1
       IN  \E first \in FirstToSend(session) : \E t \in {PreparedAll(session, first, n)} :
              SendsPacket(first, t, n)
    /\ UNCHANGED <<callback, down, server, events>>

-----------------------------------------------------------------------------
(* Receiving, on the thread of the session *)

\* changeSessionId()
NewSessionId(s) ==
    [s EXCEPT !.number = @ + 1, !.started = FALSE, !.acks = {}, !.resendReq = {},
              !.stateReq = {}, !.received = {}]

\* Another salt came: with it everything can be sent.
SaltKnown(s, salt) ==
    IF s.state = "connecting"
    THEN ResendAll([s EXCEPT !.salt = salt, !.state = "connected"])
    ELSE [s EXCEPT !.salt = salt]

Receive(s, response) == [s EXCEPT !.haveReceived = Append(@, response)]

\* handleMsgsStates()
HandleStates(s, asked, known) ==
    LET lost == asked \ known
        resent == ResendIds(s, lost)
    IN RequestsAcked([resent EXCEPT !.wantSend = @ \/ lost \cap Ids(s.haveSent) # {}],
                     asked \cap known, FALSE)

\* Mutant: the container that is refused is done with.
BadMessageForgotten(s, m) ==
    IF WasSent(s, m.about) = 0 THEN s
    ELSE IF m.kind = "resend" THEN Resend(s, m.about)
    ELSE IF m.kind = "fatal"
    THEN Receive([s EXCEPT !.containers = {box \in @ : box.id # m.about}],
                 [kind |-> "error", about |-> WasSent(s, m.about)])
    ELSE s

BadMessage(s, m) ==
    IF WasSent(s, m.about) = 0 THEN s
    ELSE IF m.kind = "resend" THEN Resend(s, m.about)
    ELSE IF m.kind = "fatal"
    THEN Receive(s, [kind |-> "error", about |-> WasSent(s, m.about)])
    ELSE s

\* handleOneReceived(), for each kind of message.
Handled(s, m) ==
    CASE m.kind \in {"resend", "reset", "fatal"} -> BadMessage(s, m)
      [] m.kind = "badSalt" ->
           IF WasSent(s, m.about) = 0 THEN s
           ELSE Resend(SaltKnown(s, m.salt), m.about)
      [] m.kind = "accepted" -> RequestsAcked(s, {m.about}, FALSE)
      [] m.kind = "states" ->
           LET asked == UNION {q.ids : q \in {p \in s.stateReqsSent : p.id = m.about}}
           IN HandleStates(RequestsAcked(s, {m.about}, TRUE), asked, m.ids)
      [] m.kind = "detailed" ->
           LET t == RequestsAcked(s, {m.about}, FALSE)
           IN [t EXCEPT !.acks = @ \cup (m.ids \cap s.received),
                        !.resendReq = @ \cup (m.ids \ s.received)]
      [] m.kind = "answer" ->
           LET t == RequestsAcked(s, {m.about}, TRUE)
           IN IF WasSent(t, m.about) \in {0, Special} THEN t
              ELSE Receive(t, [kind |-> "answer", about |-> WasSent(t, m.about)])
      [] m.kind = "session" ->
           LET before == {id \in Ids(s.haveSent) : id < m.about}
           IN Receive(ResendIds([s EXCEPT !.wantSend = @ \/ before # {}], before),
                      [kind |-> "update", about |-> m.id])
      [] m.kind = "update" -> Receive(s, [kind |-> "update", about |-> m.id])
      [] m.kind = "pong" -> RequestsAcked(s, {m.about}, TRUE)

Outcome(s, m) ==
    CASE m.kind = "reset" /\ WasSent(s, m.about) # 0 -> "reset"
      [] m.kind = "pong" /\ WasSent(s, m.about) = 0 -> "ignored"
      [] OTHER -> "success"

Stored(m) == m.kind \in {"answer", "update", "session"}     \* the client must ack it

\* The first message that is not handled well ends the container.
HandleNext(t, m) ==
    LET s == [t.s EXCEPT !.acks = IF Stored(m) THEN @ \cup {m.id} ELSE @]
        registered == Registers(s.received, m.id)
        seen == [s EXCEPT !.received = @ \cup {m.id}]
    IN CASE t.outcome # "success" -> t
         [] OTHER -> CASE registered = "tooOld" -> [s |-> s, outcome |-> "reset"]
                       [] registered = "duplicate" -> [s |-> s, outcome |-> "success"]
                       [] OTHER -> [s |-> IF Outcome(seen, m) = "ignored" THEN seen
                                          ELSE Handled(seen, m),
                                    outcome |-> Outcome(seen, m)]

\* restart(): the connection is closed.
Disconnected(s) == [s EXCEPT !.state = "disconnected"]
CloseConnection ==
    /\ up' = <<>>
    /\ down' = <<>>
    /\ server' = [server EXCEPT !.heard = FALSE, !.sent = {}]

HandledBatch(s, batch) ==
    LET start == IF batch[1].salt = s.salt THEN s ELSE SaltKnown(s, batch[1].salt)
        done[i \in 0..Len(batch)] ==
            IF i = 0 THEN [s |-> start, outcome |-> "success"]
            ELSE HandleNext(done[i - 1], batch[i])
    IN  done[Len(batch)]

\* handleReceived(): the server's next messages, in one packet.
HandleReceived ==
    /\ down # <<>>
    /\ \E count \in {n \in DOMAIN down : \A i \in 1..n : down[i].salt = down[1].salt} :
       \E done \in {HandledBatch(session, SubSeq(down, 1, count))} :
         LET shrunk == [done.s EXCEPT !.received = Largest(@),
                           !.wantSend = @ \/ done.s.acks # {}]
         IN IF done.outcome = "reset"
            THEN /\ session' = NewSessionId(Disconnected(shrunk))
                 /\ CloseConnection
            ELSE /\ session' = [shrunk EXCEPT !.wantSend =
                                  @ \/ (session.state # "connected" /\ shrunk.state = "connected")]
                 /\ down' = SubSeq(down, count + 1, Len(down))
                 /\ UNCHANGED <<up, server>>
    /\ UNCHANGED <<callback, events>>

-----------------------------------------------------------------------------
(* The connection *)

\* connectToServer() to authKeyChecked().
Connect ==
    /\ session.state = "disconnected"
    /\ LET fresh == [session EXCEPT !.pingMsgId = 0, !.pingToSend = TRUE, !.wantSend = TRUE]
       IN session' = IF session.salt = NoSalt THEN [fresh EXCEPT !.state = "connecting"]
                     ELSE ResendAll([fresh EXCEPT !.state = "connected"])
    /\ UNCHANGED <<callback, up, down, server, events>>

\* The connection breaks, or nothing came for too long.
Drop ==
    /\ Incident
    /\ Linked(session)
    /\ session' = Disconnected(session)
    /\ CloseConnection
    /\ UNCHANGED callback

\* applyAuthKey() with another key.
Rekey ==
    /\ Incident
    /\ session.state # "stopped"
    /\ session' = NewSessionId(Disconnected(session))
    /\ CloseConnection
    /\ UNCHANGED callback

\* stop() of a session that is not needed for some time.
Stop ==
    /\ Incident
    /\ session.state # "stopped"
    /\ \A r \in Requests : ~HasCallback(r)
    /\ session' = [NewPrivate(session) EXCEPT !.state = "stopped", !.number = @ + 1]
    /\ CloseConnection
    /\ UNCHANGED callback

\* needToResumeAndSend() starts it again.
Resume ==
    /\ session.state = "stopped" /\ session.wantSend
    /\ session' = Disconnected(session)
    /\ UNCHANGED <<callback, up, down, server, events>>

-----------------------------------------------------------------------------
(* The main thread *)

\* sendPrepared()
SendPrepared(s, r) ==
    [s EXCEPT !.toSend = @ \cup {r}, !.msgId[r] = 0, !.wantSend = TRUE]

SendRequest(r) ==
    /\ callback[r] = "none"
    /\ \A q \in 1..(r - 1) : callback[q] # "none"
    /\ IF r = 1 THEN UNCHANGED events ELSE Incident
    /\ callback' = [callback EXCEPT ![r] = "waiting"]
    /\ session' = SendPrepared(session, r)
    /\ UNCHANGED <<up, down, server>>

\* Session::tryToReceive(), the next message.  After an error of the server
\* the request is sent once more.
Deliver ==
    /\ session.haveReceived # <<>>
    /\ LET m == Head(session.haveReceived)
           rest == [session EXCEPT !.haveReceived = Tail(@)]
       IN CASE m.kind = "update" ->
                 /\ session' = [rest EXCEPT !.handled = @ \cup {m.about}]
                 /\ UNCHANGED callback
            [] m.kind = "answer" /\ HasCallback(m.about) ->
                 /\ callback' = [callback EXCEPT ![m.about] = "called"]
                 /\ session' = rest
            [] m.kind = "error" /\ HasCallback(m.about) ->
                 /\ session' = [rest EXCEPT !.delayed = @ \cup {m.about}]
                 /\ UNCHANGED callback
            [] OTHER -> session' = rest /\ UNCHANGED callback
    /\ UNCHANGED <<up, down, server, events>>

\* Instance::checkDelayedRequests()
Retry ==
    /\ \E r \in session.delayed :
         session' = SendPrepared([session EXCEPT !.delayed = @ \ {r}], r)
    /\ UNCHANGED <<callback, up, down, server, events>>

\* Instance::cancel() and Session::cancel()
Cancel(r) ==
    /\ Incident
    /\ HasCallback(r)
    /\ callback' = [callback EXCEPT ![r] = "cancelled"]
    /\ session' = [session EXCEPT !.toSend = @ \ {r}, !.delayed = @ \ {r},
                      !.haveSent = {p \in @ : p[1] # session.msgId[r]}]
    /\ UNCHANGED <<up, down, server>>

-----------------------------------------------------------------------------
(* The server, as the client takes it to be *)

\* Its end t: the server and what it has sent.  It keeps what must be acked.
Said(t, kind, about, ids) ==
    LET m == [id |-> t.v.last + 1, salt |-> t.v.salt, kind |-> kind, about |-> about, ids |-> ids]
    IN [v |-> [t.v EXCEPT !.last = m.id, !.sent = @ \cup {m.id},
                  !.stored = IF Stored(m) THEN @ \cup {m} ELSE @],
        d |-> Append(t.d, m)]

Here == [v |-> server, d |-> down]
ServerIs(t) == server' = t.v /\ down' = t.d

Take(t, m) ==
    CASE m.kind = "request" ->
           IF m.id \in Ids(t.v.ran) THEN t
           ELSE [t EXCEPT !.v.ran = @ \cup {<<m.id, r>> : r \in m.ids},
                          !.v.executed = @ \cup m.ids,
                          !.v.pending = @ \cup {m.id}]
      [] m.kind = "ping" -> Said(t, "pong", m.id, {})
      [] m.kind = "ack" -> [t EXCEPT !.v.stored = {k \in @ : k.id \notin m.ids}]
      [] m.kind = "resend" -> [t EXCEPT !.v.sent = @ \ m.ids]
      [] m.kind = "state" -> Said(t, "states", m.id, m.ids \cap Ids(t.v.ran))

\* The messages of a packet are taken in the order of their ids.
First(messages) == CHOOSE m \in messages : \A k \in messages : m.id <= k.id

TakeAll(start, messages) ==
    LET taken[i \in 0..Cardinality(messages)] ==
            IF i = 0 THEN [t |-> start, left |-> messages]
            ELSE LET before == taken[i - 1]
                     m == First(before.left)
                 IN  [t |-> Take(before.t, m), left |-> before.left \ {m}]
    IN  taken[Cardinality(messages)].t

\* A packet with another salt is refused, one of an unknown session begins it.
Taken(p) ==
    LET heard == [server EXCEPT !.heard = @ \/ p.session = server.session]
        fresh == [server EXCEPT !.heard = TRUE, !.session = p.session,
                     !.ran = {}, !.pending = {}, !.stored = {}, !.sent = {}]
        start == IF p.session = server.session THEN [v |-> heard, d |-> down]
                 ELSE Said([v |-> fresh, d |-> down], "session", First(p.messages).id, {})
    IN IF p.salt # server.salt THEN Said([v |-> heard, d |-> down], "badSalt", p.id, {})
       ELSE TakeAll(start, p.messages)

ServerReceives ==
    /\ up # <<>>
    /\ \E t \in {Taken(Head(up))} : ServerIs(t)
    /\ up' = Tail(up)
    /\ UNCHANGED <<callback, session, events>>

\* bad_msg_notification: the packet is refused.
ServerRefuses ==
    /\ up # <<>>
    /\ Incident
    /\ \E kind \in {"resend", "reset", "fatal"} :
         ServerIs(Said([Here EXCEPT !.v.refused = IF kind # "fatal" THEN @ ELSE
                                      @ \cup UNION {m.ids : m \in {k \in Head(up).messages :
                                                                     k.kind = "request"}}],
                       kind, Head(up).id, {}))
    /\ up' = Tail(up)
    /\ UNCHANGED <<callback, session>>

ServerAnswers ==
    /\ server.heard
    /\ \E id \in server.pending :
         ServerIs(Said([Here EXCEPT !.v.pending = @ \ {id}], "answer", id, {}))
    /\ UNCHANGED <<callback, session, up, events>>

\* What is not acked is sent again over a new connection, or in some time when
\* it was not taken.
ToRepeat == {m \in server.stored :
                \/ m.id \notin server.sent
                \/ m.id \notin session.received \cup {k.id : k \in Range(down)}}

ServerRepeats ==
    /\ server.heard
    /\ \E m \in ToRepeat :
         /\ down' = Append(down, [m EXCEPT !.salt = server.salt])
         /\ server' = [server EXCEPT !.sent = @ \cup {m.id}]
    /\ UNCHANGED <<callback, session, up, events>>

\* msg_detailed_info: only the number of the answer is sent again.
ServerMentions ==
    /\ server.heard
    /\ Incident
    /\ \E m \in {k \in ToRepeat : k.kind = "answer"} :
         ServerIs(Said([Here EXCEPT !.v.sent = @ \cup {m.id}], "detailed", m.about, {m.id}))
    /\ UNCHANGED <<callback, session, up>>

\* msgs_ack: the request was received.
ServerAccepts ==
    /\ server.heard
    /\ Incident
    /\ \E id \in server.pending : ServerIs(Said(Here, "accepted", id, {}))
    /\ UNCHANGED <<callback, session, up>>

ServerPushes ==
    /\ server.heard
    /\ Incident
    /\ ServerIs(Said(Here, "update", 0, {}))
    /\ UNCHANGED <<callback, session, up>>

\* While the connection is away: a packet tells the client of the new session.
ServerForgets ==
    /\ Incident
    /\ ~server.heard
    /\ server.session # NoSession
    /\ server' = [server EXCEPT !.session = NoSession, !.ran = {}, !.pending = {},
                     !.stored = {}]
    /\ UNCHANGED <<callback, session, up, down>>

ServerChangesSalt ==
    /\ Incident
    /\ server' = [server EXCEPT !.salt = @ + 1]
    /\ UNCHANGED <<callback, session, up, down>>

-----------------------------------------------------------------------------
(* The timer of the requests *)

\* Nothing is on its way any more.
Quiet == /\ up = <<>> /\ down = <<>> /\ session.haveReceived = <<>>
         /\ session.delayed = {}
         /\ server.heard => server.pending = {} /\ ToRepeat = {}
         /\ session.state = "connected" /\ ~session.wantSend

\* checkSentRequests(): some of the requests were sent long ago.  In the end it
\* comes to that, before that it is an incident.
CheckSentRequests ==
    /\ IF Quiet THEN UNCHANGED events ELSE Incident
    /\ session.checkTimer
    /\ \E old \in SUBSET Ids(session.haveSent) \ {{}} :
         session' = [session EXCEPT !.stateReq = @ \cup old,
                        !.wantSend = @ \/ ~(old \subseteq session.stateReq),
                        !.checkTimer = old # Ids(session.haveSent)]
    /\ UNCHANGED <<callback, up, down, server>>

\* A container is old when it was sent kSentContainerLives ago.  Long before that its packet
\* has come and its ping is answered, or sendPingByTimer() has closed the connection.
Old(box) == /\ \A p \in Range(up) : p.id # box.id
            /\ \A m \in Range(down) : m.kind = "pong" => m.about \notin box.ids

Awaited(box) == \E p \in Of(session.haveSent, box.ids) : HasCallback(p[2])

\* clearOldContainers(), for one of them.  In the end it comes to that for what is awaited.
Cleared(s, box) == [ResendIds(s, box.ids) EXCEPT !.containers = @ \ {box},
                                                 !.wantSend = @ \/ box.ids # {}]

ClearOldContainer ==
    /\ \E box \in session.containers : Old(box) /\ session' = Cleared(session, box)
                                       /\ IF Quiet /\ Awaited(box) THEN UNCHANGED events
                                                                   ELSE Incident
    /\ UNCHANGED <<callback, up, down, server>>

-----------------------------------------------------------------------------
MainThread == (\E r \in Requests : SendRequest(r) \/ Cancel(r)) \/ Deliver \/ Retry
SessionThread == TryInVain \/ TryToSend \/ HandleReceived \/ Connect \/ Resume
Timers == CheckSentRequests \/ ClearOldContainer
Connection == Drop \/ Rekey \/ Stop
Server == ServerReceives \/ ServerRefuses \/ ServerAnswers \/ ServerRepeats \/ ServerMentions
          \/ ServerAccepts \/ ServerPushes \/ ServerForgets \/ ServerChangesSalt

Next == MainThread \/ SessionThread \/ Timers \/ Connection \/ Server

Spec == Init /\ [][Next]_vars

\* What goes on by itself.  When it can, it does, sooner or later: the queues of
\* the two threads are served, a lost connection is made anew, the server
\* answers what it has run and repeats what it sent and was not acked.
Steps == Deliver \/ Retry \/ Timers \/ SessionThread
         \/ ServerReceives \/ ServerAnswers \/ ServerRepeats

\* None of the Steps can be taken.
Idle ==
    /\ up = <<>> /\ down = <<>>
    /\ session.haveReceived = <<>> /\ session.delayed = {}
    /\ session.state # "disconnected" /\ ~session.wantSend
    /\ server.heard => server.pending = {} /\ ToRepeat = {}
    /\ ~(Quiet /\ session.checkTimer /\ session.haveSent # {})
    /\ ~(Quiet /\ \E box \in session.containers : Awaited(box))

\* Weak fairness of the Steps, written out.
Fairness == []<>Idle \/ []<><<Steps>>_vars

FairSpec == Spec /\ Fairness

-----------------------------------------------------------------------------
(* Properties *)

\* An answer of the server, or an error, that Deliver is going to take.
Answered(r) == \E m \in Range(session.haveReceived) : m.kind # "update" /\ m.about = r

\* A request whose sender waits for the answer is somewhere: it waits to be sent,
\* is awaited, waits for the retry after an error, or its answer is on the way to
\* the main thread.  Acks, resends, lost connections, new sessions, salts and
\* session threads move it between toSend and haveSent: it is never in neither.
NoRequestLost ==
    \A r \in Requests : HasCallback(r) =>
       r \in session.toSend \cup session.delayed \cup Owners(session.haveSent) \/ Answered(r)

\* The answer of a request that the server has run is not lost: the server has it
\* or will have it, or it is with the client.  The client must not ack an answer it
\* drops, for the server forgets it then.  (After a fatal notification the request
\* has two ids, and an answer under the old one need not be kept.)
AnswerKept ==
    server.session = session.number =>
       \A p \in server.ran : HasCallback(p[2]) /\ p[2] \notin server.refused =>
          \/ p[1] \in server.pending
          \/ \E m \in server.stored : m.kind = "answer" /\ m.about = p[1]
          \/ Answered(p[2]) \/ p[2] \in session.delayed

\* An update that the server repeats is handed to the main thread once.
UpdateOnce ==
    LET queue == session.haveReceived
        updates == {i \in DOMAIN queue : queue[i].kind = "update"}
    IN  \A i \in updates : /\ queue[i].about \notin session.handled
                           /\ \A j \in updates : queue[j].about = queue[i].about => j = i

\* Within one session of the server a request is run once, under one id, however
\* often it was resent: a request that is sent again keeps its message id.  A new
\* id is for a new session, and for a request the server has refused.
RunsOnce ==
    \A p, q \in server.ran : p[2] = q[2] => p = q \/ p[2] \in server.refused

\* When nothing is on its way, every request has been answered that the server has not
\* refused: whatever was lost with a connection was sent again, a refused packet too.  What
\* waits was refused in a container, whose error nobody was told of, and is still there for
\* clearOldContainers() to find: the question for its state may be lost.
QuietMeansAnswered ==
    Quiet => \A r \in Requests : HasCallback(r) =>
       /\ r \in server.refused
       /\ \E box \in session.containers : r \in Owners(Of(session.haveSent, box.ids))

\* Every request is answered or cancelled in the end, whatever happened to the
\* connection, the session and the packets in the meantime.
EventuallyAnswered == \A r \in Requests : HasCallback(r) ~> ~HasCallback(r)

\* The layer keeps the promise of RequestChannel: one answer for a request, after
\* the server has run it, and none when it was cancelled.
Channel == INSTANCE RequestChannel WITH outcome <- callback, executed <- server.executed
ChannelSpec == Channel!ChannelSpec

-----------------------------------------------------------------------------
(* What the safety properties rest on *)

Pairs == SUBSET (Nat \X Requests)
Message == [id : Nat, kind : {"ack", "resend", "state", "ping", "request"}, ids : SUBSET Nat]
Packet == [session : Nat, salt : Nat, id : Nat, messages : SUBSET Message]
Response == [kind : {"answer", "error"}, about : Nat \cup {Special}]
              \cup [kind : {"update"}, about : Nat]
ServerMessage ==
    [id : Nat, salt : Nat,
     kind : {"answer", "update", "session", "pong", "states", "badSalt", "resend", "reset",
             "fatal", "detailed", "accepted"},
     about : Nat, ids : SUBSET Nat]

Sessions ==
    [state : {"disconnected", "connecting", "connected", "stopped"},
     salt : Nat, started : BOOLEAN, pingToSend : BOOLEAN, pingMsgId : Nat,
     acks : SUBSET Nat, resendReq : SUBSET Nat, stateReq : SUBSET Nat,
     stateReqsSent : SUBSET Message, received : SUBSET Nat,
     resending : Pairs, acked : Pairs,
     containers : SUBSET [id : Nat, ids : SUBSET Nat],
     checkTimer : BOOLEAN, number : Nat \ {0}, packets : Nat,
     toSend : SUBSET Requests, haveSent : Pairs, haveReceived : Seq(Response),
     msgId : [Requests -> Nat], inContainer : SUBSET Requests,
     delayed : SUBSET Requests, wantSend : BOOLEAN, handled : SUBSET Nat]
Servers ==
    [salt : Nat, session : Nat, heard : BOOLEAN, ran : Pairs,
     pending : SUBSET Nat, stored : SUBSET ServerMessage, sent : SUBSET Nat,
     last : Nat, executed : SUBSET Requests, refused : SUBSET Requests]

TypeOK ==
    /\ callback \in [Requests -> {"none", "waiting", "called", "cancelled"}]
    /\ session \in Sessions
    /\ up \in Seq(Packet) /\ down \in Seq(ServerMessage)
    /\ server \in Servers
    /\ events \in 0..MaxEvents
    /\ IsFiniteSet(session.received)

Asked == {r \in Requests : callback[r] # "none"}
OnTheWay == server.stored \cup Range(down)
AllPairs(s) == s.haveSent \cup s.resending \cup s.acked

\* A message id says which request it is of, and only requests that were asked for are
\* sent, run and answered.
IdsTell ==
    /\ \A p \in AllPairs(session) \cup server.ran : SlotOf(p[1]) = p[2] /\ p[2] \in Asked
    /\ \A r \in Requests : session.msgId[r] # 0 => SlotOf(session.msgId[r]) = r
    /\ session.toSend \cup session.delayed \cup server.executed \subseteq Asked
    /\ \A id \in server.pending : SlotOf(id) \in server.executed
    /\ \A m \in OnTheWay : m.kind = "answer" => SlotOf(m.about) \in server.executed
    /\ \A m \in Range(session.haveReceived) : m.kind = "answer" => m.about \in server.executed

\* The requests of a packet are in it under their ids, and the packet has the id of a request
\* only if it is alone in it.
PacketsTell ==
    \A p \in Range(up) :
        /\ p.session = session.number
        /\ p.messages # {} /\ IsFiniteSet(p.messages)
        /\ \A m \in p.messages : m.kind = "request" =>
              m.ids = {SlotOf(m.id)} /\ SlotOf(m.id) \in Asked
        /\ SlotOf(p.id) \in Requests =>
              \E m \in p.messages : m.kind = "request" /\ m.ids = {SlotOf(p.id)}

\* The server has heard of a session only if it is the last one, and says what it keeps
\* only when it was heard.
SessionsAgree ==
    /\ server.session <= session.number
    /\ server.heard => server.session = session.number
    /\ ~server.heard => \A m \in Range(down) : ~Stored(m)

\* A request is sent anew only after the server has refused it.
OnlyRefused ==
    /\ session.delayed \subseteq server.refused
    /\ \A m \in Range(session.haveReceived) :
          m.kind = "error" /\ m.about \in Requests => m.about \in server.refused
    /\ \A m \in OnTheWay :
          m.kind = "fatal" /\ SlotOf(m.about) \in Requests => SlotOf(m.about) \in server.refused

\* Within a session, a request that was not refused has one id.
OneId ==
    LET current(id, r) == r \in server.refused \/ id = session.msgId[r]
    IN  /\ \A p \in AllPairs(session) : current(p[1], p[2])
        /\ \A p \in Range(up) : \A m \in p.messages : m.kind = "request" =>
              current(m.id, SlotOf(m.id)) /\ session.started
        /\ server.session = session.number =>
              \A p \in server.ran : current(p[1], p[2]) /\ session.started

\* The updates that the client has taken are registered, as long as they may come again.
TakenUpdates == session.handled \cup
    {m.about : m \in {k \in Range(session.haveReceived) : k.kind = "update"}}
UpdatesRegistered ==
    /\ \A id \in TakenUpdates : id <= server.last
    /\ \A m \in OnTheWay : m.id <= server.last
    /\ \A m \in Range(down) \cup (IF server.session = session.number THEN server.stored ELSE {}) :
          m.kind \in {"update", "session"} /\ m.id \in TakenUpdates
              => Registers(session.received, m.id) # "success"

SessionInvariant ==
    /\ TypeOK
    /\ IdsTell /\ PacketsTell /\ SessionsAgree
    /\ OnlyRefused /\ OneId
    /\ UpdatesRegistered /\ UpdateOnce /\ RunsOnce

-----------------------------------------------------------------------------
(* What a request and its answer rest on *)

\* The message ids of requests in use fit into the window, so that none is trimmed.
IdsFit == Cardinality(Ids(AllPairs(session))) <= IdsBufferSize

\* The ids in use, and what may still give a request a new one: that it has none, or an error
\* of the server that is on the way.  A request gets a new id otherwise only for the old one.
UsedIds(s) == (Ids(AllPairs(s)) \cup {s.msgId[r] : r \in Requests}) \ {0}
Unsent(s) == {r \in Requests : s.msgId[r] = 0}
CountOf(queue, kind) == Cardinality({i \in DOMAIN queue : queue[i].kind = kind})
IdsToCome(s) == Cardinality(UsedIds(s)) + Cardinality(Unsent(s)) + Cardinality(s.delayed)
                  + CountOf(s.haveReceived, "error")

\* An error of the server is an incident, so that the ids in use are few when those are.
IdsAreFew ==
    /\ IsFiniteSet(UsedIds(session))
    /\ IdsToCome(session) + CountOf(down, "fatal") + events <= NumRequests + MaxEvents
    /\ \A m \in server.stored : m.kind # "fatal"
    /\ \A r \in Requests \ Asked : session.msgId[r] = 0

\* What the server says of pings and state requests is not about a request.
ServiceTells ==
    /\ SlotOf(session.pingMsgId) = PingSlot
    /\ \A p \in Range(up) : \A m \in p.messages :
          m.kind \in {"ping", "state"} => SlotOf(m.id) \notin Requests
    /\ \A m \in OnTheWay :
          m.kind \in {"pong", "states"} => SlotOf(m.about) \notin Requests

\* A request that does not have to be answered any more.
Settled(r) == ~HasCallback(r) \/ r \in server.refused \/ Answered(r)

\* The ids of server messages that are acked, or will be when they come again.
AcksOf(packets) == UNION {m.ids : m \in {k \in UNION {p.messages : p \in Range(packets)} :
                                            k.kind = "ack"}}
AcksToTell == session.acks \cup session.received \cup AcksOf(up)

\* An answer that is acked has settled its request.  For that, a request that waits to be
\* sent again must be found by the id it was sent with.
AnswersSettle ==
    /\ \A m, k \in OnTheWay : m.id = k.id => m.kind = k.kind /\ m.about = k.about
    /\ \A id \in AcksToTell : id <= server.last
    /\ server.pending \subseteq Ids(server.ran)
    /\ \A m \in server.stored : m.kind = "answer" => m.about \in Ids(server.ran)
    /\ server.session = session.number =>
          \A m \in server.stored :
             m.kind = "answer" /\ m.id \in AcksToTell => Settled(SlotOf(m.about))
    /\ \A r \in session.toSend : ~Settled(r) /\ session.msgId[r] # 0 =>
          <<session.msgId[r], r>> \in session.resending

RequestInvariant ==
    /\ IsFiniteSet(AllPairs(session))
    /\ ServiceTells /\ AnswersSettle
    /\ NoRequestLost /\ AnswerKept

=============================================================================
