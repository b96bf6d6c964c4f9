-------------------------- MODULE InstanceRequests --------------------------
(***************************************************************************)
(* The requests of an Instance (mtproto/mtp_instance.cpp): where a request *)
(* is kept from sendRequest() until unregisterRequest(), what the errors   *)
(* the Instance takes care of do to it, how the requests that depend on it *)
(* and the ones that need an authorization in their datacenter wait.       *)
(*                                                                         *)
(* All of it is done on the main thread, an action is one call.  A session *)
(* is the set of the requests it was given and has not answered: that it   *)
(* answers them, each once, is what MtpSession is about.                   *)
(***************************************************************************)
EXTENDS Integers, FiniteSets

CONSTANTS NumRequests,  \* how many requests are sent
          NumExchanges, \* bound: how often an authorization is carried over
          DCs,          \* the datacenters
          FirstMainDc,  \* the main one in the beginning
          Shifts,       \* the kinds of sessions of a datacenter
          MainShift,    \* ... the main one, the others are for downloads and so on
          MaxEvents     \* bound: the requests after the first, the cancelled ones, the
                        \* errors and the changes of the main datacenter

ASSUME InstanceAssumption ==
    /\ NumRequests \in Nat /\ NumExchanges \in Nat /\ MaxEvents \in Nat
    /\ FirstMainDc \in DCs /\ MainShift \in Shifts

VARIABLES outcome,      \* waiting: registered in _requestMap, _requestsByDc, _parserMap
          dc, shift,    \* _requestsByDc: the datacenter and the shift of the session
          toMain,       \* ... and its sign
          after,        \* request->after
          sessions,     \* _sessions: the requests that each of them has
          delayed,      \* _delayedRequests
          dependent,    \* the keys of _dependentRequests
          waiters,      \* _authWaiters, by datacenter
          goal,         \* _authExportRequests, the session the authorization is for
          badGuest,     \* _badGuestDcRequests
          main,         \* _mainDcId, and the datacenter of _mainSession
          events        \* how many events are left

registered == <<dc, shift, toMain, after>>
vars == <<outcome, registered, sessions, delayed, dependent, waiters, goal, badGuest, main, events>>

Plain == {"plain"} \X (1..NumRequests)
Exports == {"export"} \X (1..NumExchanges)
Imports == {"import"} \X (1..NumExchanges)
Requests == Plain \cup Exports \cup Imports
NoRequest == <<"none", 0>>

Places == DCs \X Shifts

Waiting(r) == outcome[r] = "waiting"
SessionOf(r) == <<dc[r], shift[r]>>
InSession(r) == \E p \in Places : <<p, r>> \in sessions
Event == events > 0 /\ events' = events - 1

Init ==
    /\ outcome = [r \in Requests |-> "none"]
    /\ dc = [r \in Requests |-> FirstMainDc]
    /\ shift = [r \in Requests |-> MainShift]
    /\ toMain = [r \in Requests |-> FALSE]
    /\ after = [r \in Requests |-> NoRequest]
    /\ sessions = {} /\ delayed = {} /\ dependent = {} /\ waiters = {} /\ badGuest = {}
    /\ goal = [k \in 1..NumExchanges |-> <<FirstMainDc, MainShift>>]
    /\ main = FirstMainDc
    /\ events = MaxEvents

-----------------------------------------------------------------------------
(* Helpers *)

\* The sessions without the request r, when one of them answered it.
Without(r) == {s \in sessions : s[2] # r}

\* The sessions that sendPrepared() gives the requests to.
Sent(requests) == {<<SessionOf(q), q>> : q \in requests}

\* Mutant: the sessions are killed even when the main datacenter stays the same.
NoneSpared(given, d) == {s \in given : s[1] \notin {<<main, MainShift>>, <<d, MainShift>>}}

\* setMainDcId(): the old main session and the one of the new datacenter are killed.
Spared(given, d) ==
    IF d = main THEN given ELSE {s \in given : s[1] \notin {<<main, MainShift>>, <<d, MainShift>>}}

\* Mutant: they go on waiting.
NothingFollows(r) == {}

\* The requests that depend on r, on one of those, and so on.
Following(r) ==
    {q \in dependent :
        \A some \in SUBSET dependent :
            (\A x \in dependent : after[x] \in some \cup {r} => x \in some) => q \in some}

\* unregisterRequest(): the requests that depend on r are sent.
Unregister(r, how, given) ==
    /\ outcome' = [outcome EXCEPT ![r] = how]
    /\ dependent' = dependent \ (Following(r) \cup {r})
    /\ sessions' = given \cup Sent(Following(r))

-----------------------------------------------------------------------------
(* The senders *)

\* sendRequest(), to the main datacenter or to the session <<d, s>>.
Register(r, d, s, signed, a) ==
    /\ outcome' = [outcome EXCEPT ![r] = "waiting"]
    /\ dc' = [dc EXCEPT ![r] = d]
    /\ shift' = [shift EXCEPT ![r] = s]
    /\ toMain' = [toMain EXCEPT ![r] = signed]
    /\ after' = [after EXCEPT ![r] = a]

\* Mutant: it is put aside, and sent all the same.
PlaceAndSend(r, d, s, a) ==
    /\ dependent' = IF a \in dependent THEN dependent \cup {r} ELSE dependent
    /\ sessions' = sessions \cup {<<<<d, s>>, r>>}

\* A request after one that waits for another itself is put aside.
Place(r, d, s, a) ==
    IF a \in dependent
    THEN dependent' = dependent \cup {r} /\ UNCHANGED sessions
    ELSE sessions' = sessions \cup {<<<<d, s>>, r>>} /\ UNCHANGED dependent

SendRequest(r) ==
    /\ outcome[r] = "none"
    /\ \A q \in Plain : q[2] < r[2] => outcome[q] # "none"
    /\ IF r[2] = 1 THEN UNCHANGED events ELSE Event
    /\ \E a \in {NoRequest} \cup {q \in Plain : Waiting(q)} :
         \/ /\ Register(r, main, MainShift, TRUE, a)
            /\ Place(r, main, MainShift, a)
         \/ \E d \in DCs, s \in Shifts :
              /\ Register(r, d, s, FALSE, a)
              /\ Place(r, d, s, a)
    /\ UNCHANGED <<delayed, waiters, goal, badGuest, main>>

Cancel(r) ==
    /\ Event
    /\ Waiting(r)
    /\ Unregister(r, "cancelled", sessions \ {<<SessionOf(r), r>>})
    /\ UNCHANGED <<registered, delayed, waiters, goal, badGuest, main>>

\* setMainDcId(), when the user logs in elsewhere.
SetMainDcId(d) ==
    /\ Event
    /\ main' = d
    /\ sessions' = Spared(sessions, d)
    /\ UNCHANGED <<outcome, registered, delayed, dependent, waiters, goal, badGuest>>

\* checkDelayedRequests(), for the first of them.
CheckDelayed(r) ==
    /\ r \in delayed
    /\ delayed' = delayed \ {r}
    /\ sessions' = IF Waiting(r) THEN sessions \cup Sent({r}) ELSE sessions
    /\ UNCHANGED <<outcome, registered, dependent, waiters, goal, badGuest, main, events>>

-----------------------------------------------------------------------------
(* Answers: processCallback() *)

Done(r) ==
    /\ Unregister(r, "done", Without(r))
    /\ UNCHANGED <<registered, delayed, waiters, goal, badGuest, main, events>>

\* exportDone(): the authorization is imported in its datacenter.
ExportDone(r) ==
    LET import == <<"import", r[2]>>
        to == goal[r[2]]
    IN /\ outcome' = [outcome EXCEPT ![r] = "done", ![import] = "waiting"]
       /\ dc' = [dc EXCEPT ![import] = to[1]]
       /\ shift' = [shift EXCEPT ![import] = to[2]]
       /\ sessions' = Without(r) \cup {<<to, import>>} \cup Sent(Following(r))
       /\ dependent' = dependent \ (Following(r) \cup {r})
       /\ UNCHANGED <<toMain, after, delayed, waiters, goal, badGuest, main, events>>

\* importDone(): those who waited for it are sent.  One that was sent to the main
\* datacenter makes this one the main one, which takes the requests away that were
\* sent here before it, and goes itself to a session with a negative id.
ImportDone(r) ==
    LET here == dc[r]
        waited == {q \in Requests : <<here, q>> \in waiters /\ Waiting(q)}
        moves == \E q \in waited : toMain[q]
        plain == {q \in waited : ~toMain[q]}
    IN /\ main' = IF moves THEN here ELSE main
       /\ \E early \in SUBSET {q \in plain : moves /\ here # main /\ shift[q] = MainShift} :
            Unregister(r, "done",
                       (IF moves THEN Spared(Without(r), here) ELSE Without(r))
                           \cup {<<<<here, shift[q]>>, q>> : q \in plain \ early})
       /\ dc' = [q \in Requests |-> IF q \in waited THEN here ELSE dc[q]]
       /\ waiters' = {w \in waiters : w[1] # here}
       /\ UNCHANGED <<shift, toMain, after, delayed, goal, badGuest, events>>

Answer(r) ==
    /\ Waiting(r) /\ InSession(r)
    /\ \/ r \in Plain /\ Done(r)
       \/ r \in Exports /\ ExportDone(r)
       \/ r \in Imports /\ ImportDone(r)

-----------------------------------------------------------------------------
(* Errors: rpcErrorOccured() and onErrorDefault() *)

\* The sender is told.  exportFail() forgets those who wait, importFail() does not.
Fail(r) ==
    /\ Unregister(r, "failed", Without(r))
    /\ waiters' = IF r \in Exports THEN {w \in waiters : w[1] # goal[r[2]][1]} ELSE waiters
    /\ UNCHANGED <<registered, delayed, goal, main>>

OtherError(r) == Fail(r) /\ UNCHANGED badGuest

\* 500, FLOOD_WAIT
Temporary(r) ==
    /\ delayed' = delayed \cup {r}
    /\ sessions' = Without(r)
    /\ UNCHANGED <<outcome, registered, dependent, waiters, goal, badGuest, main>>

Moved(r, d) == [dc EXCEPT ![r] = d]

\* ..._MIGRATE_
Migrate(r, d) ==
    /\ main' = IF toMain[r] THEN d ELSE main
    /\ sessions' = (IF toMain[r] THEN Spared(Without(r), d) ELSE Without(r))
                      \cup {<<<<d, shift[r]>>, r>>}
    /\ dc' = Moved(r, d)
    /\ UNCHANGED <<outcome, shift, toMain, after, delayed, dependent, waiters, goal, badGuest>>

\* Mutant: it waits for a request that may have ended.
AnyPlace(r, q) == TRUE

\* MSG_WAIT_FAILED, MSG_WAIT_TIMEOUT
SamePlace(r, q) == Waiting(q) /\ SessionOf(q) = SessionOf(r) /\ toMain[q] = toMain[r]

MsgWait(r) ==
    /\ after[r] # NoRequest
    /\ IF SamePlace(r, after[r])
       THEN /\ dependent' = dependent \cup {r}
            /\ sessions' = Without(r)
            /\ UNCHANGED after
       ELSE /\ after' = [after EXCEPT ![r] = NoRequest]
            /\ sessions' = Without(r) \cup Sent({r})
            /\ UNCHANGED dependent
    /\ UNCHANGED <<outcome, dc, shift, toMain, delayed, waiters, goal, badGuest, main>>

\* CONNECTION_NOT_INITED
NotInited(r) ==
    /\ sessions' = Without(r) \cup Sent({r})
    /\ UNCHANGED <<outcome, registered, delayed, dependent, waiters, goal, badGuest, main>>

FirstToWait(d) == \A q \in Requests : <<d, q>> \notin waiters

\* The first to wait has the authorization exported from the main datacenter.
WaitForAuthorization(r) ==
    /\ IF ~FirstToWait(dc[r])
       THEN /\ sessions' = Without(r)
            /\ UNCHANGED <<outcome, dc, shift, toMain, goal>>
       ELSE \E e \in Exports :
            /\ outcome[e] = "none" /\ \A f \in Exports : f[2] < e[2] => outcome[f] # "none"
            /\ outcome' = [outcome EXCEPT ![e] = "waiting"]
            /\ dc' = [dc EXCEPT ![e] = main]
            /\ shift' = [shift EXCEPT ![e] = MainShift]
            /\ toMain' = [toMain EXCEPT ![e] = TRUE]
            /\ goal' = [goal EXCEPT ![e[2]] = SessionOf(r)]
            /\ sessions' = Without(r) \cup {<<<<main, MainShift>>, e>>}
    /\ waiters' = waiters \cup {<<dc[r], r>>}
    /\ UNCHANGED <<after, delayed, dependent, main>>

\* 401; in the main datacenter there is nothing to wait for.
Unauthorized(r) ==
    IF dc[r] = main THEN OtherError(r)
    ELSE WaitForAuthorization(r) /\ UNCHANGED badGuest

\* FILE_ID_INVALID: perhaps the authorization is not right, once.
FileIdInvalid(r) ==
    IF r \in badGuest THEN Fail(r) /\ badGuest' = badGuest \ {r}
    ELSE IF dc[r] = main THEN OtherError(r)
    ELSE WaitForAuthorization(r) /\ badGuest' = badGuest \cup {r}

Error(r) ==
    /\ Event
    /\ Waiting(r) /\ InSession(r)
    /\ \/ OtherError(r)
       \/ Temporary(r)
       \/ NotInited(r)
       \/ r \notin Imports /\ Unauthorized(r)
       \/ r \in Plain /\ (MsgWait(r) \/ FileIdInvalid(r) \/ \E d \in DCs : Migrate(r, d))

-----------------------------------------------------------------------------
Next ==
    \/ \E r \in Plain : SendRequest(r) \/ Cancel(r)
    \/ \E d \in DCs : SetMainDcId(d)
    \/ \E r \in Requests : CheckDelayed(r) \/ Answer(r) \/ Error(r)

Spec == Init /\ [][Next]_vars

\* The timer of the delayed requests fires, the sessions answer.
Fairness == WF_vars(\E r \in Requests : CheckDelayed(r)) /\ WF_vars(\E r \in Requests : Answer(r))
FairSpec == Spec /\ Fairness

-----------------------------------------------------------------------------
(* Properties *)

\* The types: no signed datacenter gets into the registry.
TypeOK ==
    /\ outcome \in [Requests -> {"none", "waiting", "done", "failed", "cancelled"}]
    /\ dc \in [Requests -> DCs]
    /\ shift \in [Requests -> Shifts]
    /\ toMain \in [Requests -> BOOLEAN]
    /\ after \in [Requests -> Requests \cup {NoRequest}]
    /\ sessions \subseteq Places \X Requests
    /\ delayed \subseteq Requests
    /\ dependent \subseteq Requests
    /\ waiters \subseteq DCs \X Requests
    /\ goal \in [1..NumExchanges -> Places]
    /\ badGuest \subseteq Requests
    /\ main \in DCs
    /\ events \in 0..MaxEvents

\* The requests that carry the authorization over to the datacenter d.
Authorizes(d) == {q \in Exports \cup Imports : Waiting(q) /\ goal[q[2]][1] = d}

WaitsAt(r) == {d \in DCs : <<d, r>> \in waiters}

\* A request that waits is in one place only, so that it is not sent twice: with a session,
\* in _delayedRequests, in _dependentRequests or in _authWaiters, whatever errors, changes
\* of datacenter and ends of other requests have come since it was sent.
OneHome ==
    \A r \in Requests : Waiting(r) =>
        /\ InSession(r) => r \notin delayed \cup dependent /\ WaitsAt(r) = {}
        /\ r \in delayed => r \notin dependent /\ WaitsAt(r) = {}
        /\ r \in dependent => WaitsAt(r) = {}

\* ... and that place is where _requestsByDc says: cancel() and the next error find it
\* there although it was moved since.
InItsPlace ==
    /\ \A s \in sessions : Waiting(s[2]) /\ s[1] = SessionOf(s[2])
    /\ \A w \in waiters : Waiting(w[2]) => dc[w[2]] = w[1]

\* A request that was put aside until another one ends depends on one that has not ended:
\* unregisterRequest() is the only one who sends it again.
DependOnLive == \A r \in dependent : Waiting(r) /\ after[r] \in Plain /\ Waiting(after[r])

\* An authorization is carried over to a datacenter by one request at a time, however many
\* requests got 401 there.
OneExchange == \A d \in DCs : \A q, p \in Authorizes(d) : q = p

\* The places of a request, one by one: it is in none before it is sent, with a session
\* only while it waits, and two of them never have it.
HomesApart ==
    /\ \A s \in sessions :
          Waiting(s[2]) /\ s[1] = SessionOf(s[2]) /\ s[2] \notin delayed \cup dependent
    /\ \A w \in waiters :
          /\ outcome[w[2]] # "none"
          /\ Waiting(w[2]) => dc[w[2]] = w[1] /\ w[2] \notin delayed \cup dependent
          /\ \A s \in sessions : s[2] # w[2]
    /\ \A r \in delayed : outcome[r] # "none" /\ r \notin dependent

\* Requests are only made to come after earlier ones.
AfterEarlier ==
    \A r \in Requests : after[r] # NoRequest =>
        r \in Plain /\ after[r] \in Plain /\ after[r][2] < r[2]

InTurn == \A p, q \in Plain : p[2] < q[2] /\ outcome[q] # "none" => outcome[p] # "none"

\* An import follows its export, to where that was meant for.
ExchangeInTurn ==
    /\ \A e \in Exports : outcome[e] \in {"none", "waiting"} => outcome[<<"import", e[2]>>] = "none"
    /\ \A i \in Imports : Waiting(i) => dc[i] = goal[i[2]][1]

\* One exchange for a datacenter at a time, and somebody waits for it.
ExchangesApart ==
    \A p \in Exports \cup Imports : Waiting(p) =>
        /\ \E r \in Requests : <<goal[p[2]][1], r>> \in waiters
        /\ \A q \in Exports \cup Imports :
              Waiting(q) /\ goal[q[2]][1] = goal[p[2]][1] => q = p

\* What all of these rest on, and every step preserves: two requests are never in each
\* other's way because each is in one place, depends on an earlier one, and is carried
\* over by the one exchange that somebody waits for.
Registry ==
    /\ TypeOK /\ HomesApart /\ DependOnLive /\ AfterEarlier /\ InTurn
    /\ ExchangeInTurn /\ ExchangesApart

\* Requests that wait for nothing: neither answer nor timer will come for them.
Stranded ==
    {r \in Requests :
        /\ Waiting(r)
        /\ ~InSession(r) /\ r \notin delayed \cup dependent
        /\ \A d \in WaitsAt(r) : Authorizes(d) = {}}

\* A request is stranded only in the ways the code is known to lose one: the main datacenter
\* changes and its sessions are killed; an authorization fails, now or before (importFail()
\* keeps the waiters); a request to the main datacenter waited for an authorization.
OnlyKnownLosses ==
    [][\A r \in Stranded' \ Stranded :
          \/ main' # main
          \/ \E q \in Exports \cup Imports : Waiting(q) /\ outcome'[q] = "failed"
          \/ \E w \in waiters : <<w[1], r>> \in waiters' /\ Authorizes(w[1]) = {}
          \/ toMain[r] /\ WaitsAt(r) # {}]_vars

\* As long as the main datacenter stays and none is stranded, every request ends: the retries,
\* dependencies and exchanges of authorizations never wait for each other in a circle.
EventuallyEnds ==
    [](main = FirstMainDc /\ Stranded = {}) => \A r \in Plain : Waiting(r) ~> ~Waiting(r)
=============================================================================
