----------------------- MODULE InstanceRequestsProofs -----------------------
(***************************************************************************)
(* Proofs about InstanceRequests: the inductive invariant Registry, and    *)
(* what follows from it, for any number of requests, exchanges, events,    *)
(* datacenters and kinds of sessions.                                      *)
(*                                                                         *)
(* Half of the actions end a request, by unregisterRequest(), which sends  *)
(* those that depend on it: what is left of the places then is in          *)
(* UnregisterPlaces, which rests on the dependencies having no circle      *)
(* (FollowingFacts).  The others move one request from place to place.     *)
(*                                                                         *)
(* The last part follows a request through one step: where it may wait for *)
(* something to come (Tended), it goes on doing so after every step but    *)
(* the known losses.  Those who wait for an authorization need the         *)
(* exchange under way, which an export hands to its import.                *)
(***************************************************************************)
EXTENDS InstanceRequests, TLAPS

-----------------------------------------------------------------------------
(* The requests                                                            *)

\* The three kinds of requests are apart, and an export has its import.
LEMMA Kinds ==
    /\ \A r \in Requests : r \in Plain \/ r \in Exports \/ r \in Imports
    /\ \A r \in Plain : r \in Requests /\ r \notin Exports /\ r \notin Imports
    /\ \A r \in Exports : r \in Requests /\ r \notin Imports
    /\ \A r \in Imports : r \in Requests
    /\ NoRequest \notin Requests
<1>1. \A r \in Plain : r[1] = "plain"
  BY DEF Plain
<1>2. \A r \in Exports : r[1] = "export"
  BY DEF Exports
<1>3. \A r \in Imports : r[1] = "import"
  BY DEF Imports
<1>4. NoRequest[1] = "none"
  BY DEF NoRequest
<1> QED BY <1>1, <1>2, <1>3, <1>4 DEF Requests

\* A request is known by its kind and number.
LEMMA Numbers ==
    /\ \A r \in Plain : r[2] \in Int
    /\ \A p, q \in Plain : p[2] = q[2] => p = q
    /\ \A r \in Exports \cup Imports : r[2] \in 1..NumExchanges
    /\ \A p, q \in Exports : p[2] = q[2] => p = q
    /\ \A p, q \in Imports : p[2] = q[2] => p = q
    /\ \A e \in Exports : <<"import", e[2]>> \in Imports
    /\ \A i \in Imports : i = <<"import", i[2]>>
BY InstanceAssumption DEF Plain, Exports, Imports

-----------------------------------------------------------------------------
(* The requests that follow another one                                    *)

\* unregisterRequest() finds all that depend on a request, and never that request.
LEMMA FollowingFacts ==
    ASSUME Registry, NEW r \in Requests
    PROVE  /\ Following(r) \subseteq dependent
           /\ r \notin Following(r)
           /\ \A x \in dependent : after[x] \in Following(r) \cup {r} => x \in Following(r)
<1>1. Following(r) \subseteq dependent
  BY DEF Following
<1>2. r \notin Following(r)
  <2> SUFFICES ASSUME r \in Following(r) PROVE FALSE
    OBVIOUS
  <2>1. dependent \subseteq Plain
    BY Kinds DEF Registry, TypeOK, DependOnLive, AfterEarlier
  <2>2. r \in Plain
    BY <2>1, <1>1
  <2> DEFINE later == {x \in dependent : x[2] > r[2]}
  <2>3. ASSUME NEW x \in dependent, after[x] \in later \cup {r}
        PROVE  x \in later
    <3>1. x \in Requests /\ x \in Plain /\ after[x] \in Plain /\ after[x] # NoRequest
      BY <2>1, Kinds DEF Registry, DependOnLive
    <3>2. after[x][2] < x[2]
      BY <3>1 DEF Registry, AfterEarlier
    <3>3. after[x][2] >= r[2]
      BY <2>3, <2>1, <2>2, Numbers
    <3>4. x[2] > r[2]
      BY <3>1, <3>2, <3>3, <2>2, Numbers
    <3> QED BY <3>4
  <2>4. later \in SUBSET dependent
    OBVIOUS
  <2>5. r \in later
    BY <2>3, <2>4 DEF Following
  <2> QED BY <2>5, <2>2, Numbers
<1>3. ASSUME NEW x \in dependent, after[x] \in Following(r) \cup {r}
      PROVE  x \in Following(r)
  <2> SUFFICES ASSUME NEW some \in SUBSET dependent,
                      \A y \in dependent : after[y] \in some \cup {r} => y \in some
               PROVE  x \in some
    BY DEF Following
  <2>1. Following(r) \subseteq some
    BY DEF Following
  <2> QED BY <2>1, <1>3
<1> QED BY <1>1, <1>2, <1>3

\* What the end of a request leaves of the places of the others.
LEMMA UnregisterPlaces ==
    ASSUME Registry, NEW r \in Requests, Waiting(r),
           NEW how \in {"done", "failed", "cancelled"},
           NEW given \in SUBSET (Places \X Requests),
           \A s \in given : /\ s[2] # r /\ Waiting(s[2]) /\ s[1] = SessionOf(s[2])
                            /\ s[2] \notin delayed \cup dependent,
           Unregister(r, how, given)
    PROVE  /\ outcome' \in [Requests -> {"none", "waiting", "done", "failed", "cancelled"}]
           /\ outcome'[r] = how /\ \A q \in Requests \ {r} : outcome'[q] = outcome[q]
           /\ sessions' \subseteq Places \X Requests
           /\ \A s \in sessions' :
                 /\ s[2] \in Requests /\ s[2] # r /\ Waiting(s[2]) /\ s[1] = SessionOf(s[2])
                 /\ s[2] \notin delayed /\ s[2] \notin dependent'
                 /\ s \in given \/ s[2] \in dependent
           /\ dependent' \subseteq dependent
           /\ \A x \in dependent' : x # r /\ after[x] # r
<1> USE DEF Unregister
<1>1. /\ Following(r) \subseteq dependent
      /\ r \notin Following(r)
      /\ \A x \in dependent : after[x] \in Following(r) \cup {r} => x \in Following(r)
  BY FollowingFacts
<1>2. /\ outcome' \in [Requests -> {"none", "waiting", "done", "failed", "cancelled"}]
      /\ outcome'[r] = how /\ \A q \in Requests \ {r} : outcome'[q] = outcome[q]
  BY DEF Registry, TypeOK
<1>3. dependent' \subseteq dependent /\ \A x \in dependent' : x # r /\ after[x] # r
  BY <1>1
<1>4. ASSUME NEW q \in Following(r)
      PROVE  /\ q \in Requests /\ SessionOf(q) \in Places /\ Waiting(q)
             /\ q # r /\ q \notin delayed /\ q \notin dependent' /\ q \in dependent
  BY <1>1 DEF Registry, TypeOK, HomesApart, DependOnLive, SessionOf, Places
<1>5. \A s \in Sent(Following(r)) :
          /\ s[2] \in Following(r) /\ s[1] = SessionOf(s[2])
          /\ s \in Places \X Requests
  BY <1>4 DEF Sent
<1>6. sessions' \subseteq Places \X Requests
  BY <1>5
<1>7. ASSUME NEW s \in sessions'
      PROVE  /\ s[2] \in Requests /\ s[2] # r /\ Waiting(s[2]) /\ s[1] = SessionOf(s[2])
             /\ s[2] \notin delayed /\ s[2] \notin dependent'
             /\ s \in given \/ s[2] \in dependent
  <2>1. CASE s \in given
    BY <2>1, <1>3
  <2>2. CASE s \in Sent(Following(r))
    BY <2>2, <1>4, <1>5
  <2> QED BY <2>1, <2>2
<1> QED BY <1>2, <1>3, <1>6, <1>7

-----------------------------------------------------------------------------
(* The senders                                                             *)

LEMMA SendRequestKeeps ==
    ASSUME Registry, NEW r \in Plain, SendRequest(r)
    PROVE  Registry'
<1> USE DEF SendRequest
<1>1. r \in Requests /\ outcome[r] = "none"
  BY Kinds
<1>2. PICK a \in {NoRequest} \cup {q \in Plain : Waiting(q)}, d \in DCs, s \in Shifts, signed \in BOOLEAN :
          Register(r, d, s, signed, a) /\ Place(r, d, s, a)
  BY InstanceAssumption DEF Registry, TypeOK
<1>3. /\ outcome' \in [Requests -> {"none", "waiting", "done", "failed", "cancelled"}]
      /\ dc' \in [Requests -> DCs] /\ shift' \in [Requests -> Shifts]
      /\ toMain' \in [Requests -> BOOLEAN] /\ after' \in [Requests -> Requests \cup {NoRequest}]
      /\ outcome'[r] = "waiting" /\ dc'[r] = d /\ shift'[r] = s /\ after'[r] = a
      /\ \A q \in Requests \ {r} : /\ outcome'[q] = outcome[q] /\ dc'[q] = dc[q]
                                   /\ shift'[q] = shift[q] /\ after'[q] = after[q]
  BY <1>1, <1>2, Kinds DEF Registry, TypeOK, Register
<1>4. /\ r \notin delayed /\ r \notin dependent
      /\ \A w \in waiters : w[2] # r
      /\ \A t \in sessions : t[2] # r
  BY <1>1 DEF Registry, HomesApart, DependOnLive, Waiting
<1>5. \/ a \in dependent /\ dependent' = dependent \cup {r} /\ sessions' = sessions
      \/ dependent' = dependent /\ sessions' = sessions \cup {<<<<d, s>>, r>>}
  BY <1>2 DEF Place
<1>6. events' \in 0..MaxEvents
  BY InstanceAssumption DEF Registry, TypeOK, Event
<1>7. TypeOK'
  BY <1>1, <1>3, <1>5, <1>6 DEF Registry, TypeOK, Places
<1>8. HomesApart'
  <2>1. ASSUME NEW t \in sessions'
        PROVE  (Waiting(t[2]) /\ t[1] = SessionOf(t[2]) /\ t[2] \notin delayed \cup dependent)'
    <3>1. CASE t \in sessions
      BY <3>1, <1>3, <1>4, <1>5 DEF Registry, TypeOK, HomesApart, Waiting, SessionOf
    <3>2. CASE t = <<<<d, s>>, r>> /\ dependent' = dependent
      BY <3>2, <1>3, <1>4 DEF Waiting, SessionOf
    <3> QED BY <3>1, <3>2, <1>5
  <2>2. ASSUME NEW w \in waiters'
        PROVE  (/\ outcome[w[2]] # "none"
                /\ Waiting(w[2]) => dc[w[2]] = w[1] /\ w[2] \notin delayed \cup dependent
                /\ \A t \in sessions : t[2] # w[2])'
    BY <1>3, <1>4, <1>5 DEF Registry, TypeOK, HomesApart, Waiting
  <2>3. \A q \in delayed' : (outcome[q] # "none" /\ q \notin dependent)'
    BY <1>3, <1>4, <1>5 DEF Registry, TypeOK, HomesApart
  <2> QED BY <2>1, <2>2, <2>3 DEF HomesApart
<1>9. DependOnLive'
  <2>1. a \in dependent => a \in Plain /\ a # r /\ Waiting(a)
    BY <1>1, <1>2, <1>4, Kinds DEF Registry, TypeOK
  <2> QED BY <2>1, <1>3, <1>5, Kinds DEF Registry, TypeOK, DependOnLive, Waiting
<1>10. AfterEarlier'
  <2>1. a # NoRequest => a \in Plain /\ a[2] < r[2]
    <3> SUFFICES ASSUME a # NoRequest PROVE a \in Plain /\ a[2] < r[2]
      OBVIOUS
    <3>1. a \in Plain /\ outcome[a] # "none" /\ a # r
      BY <1>1, <1>2 DEF Waiting
    <3>2. ~(r[2] < a[2])
      BY <3>1, <1>1 DEF Registry, InTurn
    <3> QED BY <3>1, <3>2, Numbers
  <2> QED BY <2>1, <1>3 DEF Registry, AfterEarlier
<1>11. InTurn'
  BY <1>3, Kinds DEF Registry, InTurn
<1>12. \A p \in Exports \cup Imports : p \in Requests /\ p # r
  BY Kinds
<1>13. ExchangeInTurn'
  BY <1>3, <1>12, Numbers DEF Registry, ExchangeInTurn, Waiting
<1>14. ExchangesApart'
  BY <1>3, <1>12 DEF Registry, ExchangesApart, Waiting
<1> QED BY <1>7, <1>8, <1>9, <1>10, <1>11, <1>13, <1>14 DEF Registry

LEMMA CheckDelayedKeeps ==
    ASSUME Registry, NEW r \in Requests, CheckDelayed(r)
    PROVE  Registry'
<1> USE DEF registered
<1>1. /\ r \in delayed /\ delayed' = delayed \ {r}
      /\ UNCHANGED <<outcome, registered, dependent, waiters, goal, badGuest, main, events>>
  BY DEF CheckDelayed
<1>2. \A t \in sessions' : t \in sessions \/ (t = <<SessionOf(r), r>> /\ outcome[r] = "waiting")
  BY DEF CheckDelayed, Sent, Waiting
<1>3. SessionOf(r) \in Places
  BY DEF SessionOf, Places, Registry, TypeOK
<1>4. TypeOK'
  <2>1. sessions' \subseteq Places \X Requests
    BY <1>2, <1>3 DEF Registry, TypeOK
  <2> QED BY <1>1, <2>1 DEF Registry, TypeOK
<1>5. r \notin dependent /\ \A w \in waiters : outcome[r] = "waiting" => w[2] # r
  BY <1>1 DEF Registry, HomesApart, Waiting
<1>6. HomesApart'
  <2>1. ASSUME NEW t \in sessions'
        PROVE  (Waiting(t[2]) /\ t[1] = SessionOf(t[2]) /\ t[2] \notin delayed \cup dependent)'
    <3>1. CASE t \in sessions
      BY <3>1, <1>1 DEF Registry, HomesApart, Waiting, SessionOf
    <3>2. CASE t = <<SessionOf(r), r>> /\ outcome[r] = "waiting"
      BY <3>2, <1>1, <1>5 DEF Waiting, SessionOf
    <3> QED BY <3>1, <3>2, <1>2
  <2>2. ASSUME NEW w \in waiters'
        PROVE  (/\ outcome[w[2]] # "none"
                /\ Waiting(w[2]) => dc[w[2]] = w[1] /\ w[2] \notin delayed \cup dependent
                /\ \A t \in sessions : t[2] # w[2])'
    BY <1>1, <1>2, <1>5 DEF Registry, HomesApart, Waiting
  <2> QED BY <2>1, <2>2, <1>1 DEF HomesApart, Registry
<1> QED
  BY <1>1, <1>4, <1>6
  DEF Registry, DependOnLive, AfterEarlier, InTurn, ExchangeInTurn, ExchangesApart, Waiting

LEMMA SetMainDcIdKeeps ==
    ASSUME Registry, NEW d \in DCs, SetMainDcId(d)
    PROVE  Registry'
<1> USE DEF SetMainDcId, registered
<1>1. sessions' \subseteq sessions
  BY DEF Spared
<1>2. events' \in 0..MaxEvents
  BY InstanceAssumption DEF Registry, TypeOK, Event
<1>3. TypeOK'
  BY <1>1, <1>2 DEF Registry, TypeOK
<1>4. HomesApart'
  BY <1>1 DEF Registry, HomesApart, Waiting, SessionOf
<1> QED
  BY <1>3, <1>4 DEF Registry, DependOnLive, AfterEarlier, InTurn, ExchangeInTurn, ExchangesApart, Waiting

-----------------------------------------------------------------------------
(* The ends of requests                                                    *)

\* The end of a request, when what is kept of the waiters are those of other exchanges.
LEMMA EndKeeps ==
    ASSUME Registry, NEW r \in Requests, Waiting(r),
           NEW how \in {"done", "failed", "cancelled"},
           NEW given \in SUBSET (Places \X Requests),
           \A s \in given : /\ s[2] # r /\ Waiting(s[2]) /\ s[1] = SessionOf(s[2])
                            /\ s[2] \notin delayed \cup dependent,
           Unregister(r, how, given),
           UNCHANGED <<registered, delayed, goal>>,
           waiters' \subseteq waiters,
           \A w \in waiters', s \in given : s[2] # w[2],
           \A p \in Exports \cup Imports, w \in waiters :
               Waiting(p) /\ p # r /\ w[1] = goal[p[2]][1] => w \in waiters',
           badGuest' \subseteq Requests, main' \in DCs, events' \in 0..MaxEvents
    PROVE  Registry'
<1> USE DEF registered
<1>1. /\ outcome' \in [Requests -> {"none", "waiting", "done", "failed", "cancelled"}]
      /\ outcome'[r] = how /\ \A q \in Requests \ {r} : outcome'[q] = outcome[q]
      /\ sessions' \subseteq Places \X Requests
      /\ dependent' \subseteq dependent /\ \A x \in dependent' : x # r /\ after[x] # r
  BY UnregisterPlaces
<1>2. \A s \in sessions' :
          /\ s[2] \in Requests /\ s[2] # r /\ Waiting(s[2]) /\ s[1] = SessionOf(s[2])
          /\ s[2] \notin delayed /\ s[2] \notin dependent'
          /\ s \in given \/ s[2] \in dependent
  BY UnregisterPlaces
<1>3. TypeOK'
  BY <1>1 DEF Registry, TypeOK
<1>4. HomesApart'
  <2>1. ASSUME NEW s \in sessions'
        PROVE  (Waiting(s[2]) /\ s[1] = SessionOf(s[2]) /\ s[2] \notin delayed \cup dependent)'
    BY <1>1, <1>2 DEF Waiting, SessionOf
  <2>2. ASSUME NEW w \in waiters'
        PROVE  (/\ outcome[w[2]] # "none"
                /\ Waiting(w[2]) => dc[w[2]] = w[1] /\ w[2] \notin delayed \cup dependent
                /\ \A s \in sessions : s[2] # w[2])'
    <3>1. w \in waiters /\ w[2] \in Requests
      BY DEF Registry, TypeOK
    <3>2. /\ outcome[w[2]] # "none"
          /\ outcome[w[2]] = "waiting" => dc[w[2]] = w[1] /\ w[2] \notin delayed \cup dependent
      BY <3>1 DEF Registry, HomesApart, Waiting
    <3>3. /\ outcome'[w[2]] # "none"
          /\ outcome'[w[2]] = "waiting" => dc[w[2]] = w[1] /\ w[2] \notin delayed \cup dependent
      BY <1>1, <3>1, <3>2
    <3>4. \A s \in sessions' : s[2] # w[2]
      BY <1>2, <3>2 DEF Waiting
    <3> QED BY <1>1, <3>3, <3>4 DEF Waiting
  <2>3. \A q \in delayed' : (outcome[q] # "none" /\ q \notin dependent)'
    BY <1>1 DEF Registry, TypeOK, HomesApart
  <2> QED BY <2>1, <2>2, <2>3 DEF HomesApart
<1>5. DependOnLive'
  BY <1>1, Kinds DEF Registry, DependOnLive, TypeOK, Waiting
<1>6. AfterEarlier'
  BY DEF Registry, AfterEarlier
<1>7. InTurn'
  BY <1>1, Kinds DEF Registry, InTurn, Waiting
<1>8. ExchangeInTurn'
  <2>1. \A e \in Exports : outcome'[e] \in {"none", "waiting"} => outcome'[<<"import", e[2]>>] = "none"
    BY <1>1, Kinds, Numbers DEF Registry, ExchangeInTurn, Waiting
  <2>2. \A i \in Imports : Waiting(i)' => Waiting(i)
    BY <1>1, Kinds DEF Waiting
  <2> QED BY <2>1, <2>2 DEF Registry, ExchangeInTurn
<1>9. ExchangesApart'
  <2>1. \A p \in Exports \cup Imports : Waiting(p)' => Waiting(p) /\ p # r
    BY <1>1, Kinds DEF Waiting
  <2>0. UNCHANGED goal
    OBVIOUS
  <2> SUFFICES ASSUME NEW p \in Exports \cup Imports, Waiting(p)'
               PROVE  /\ \E q \in Requests : <<goal[p[2]][1], q>> \in waiters'
                      /\ \A q \in Exports \cup Imports :
                            Waiting(q)' /\ goal[q[2]][1] = goal[p[2]][1] => q = p
    BY <2>0 DEF ExchangesApart
  <2>2. PICK q \in Requests : <<goal[p[2]][1], q>> \in waiters
    BY <2>1 DEF Registry, ExchangesApart
  <2>3. <<goal[p[2]][1], q>> \in waiters'
    BY <2>1, <2>2
  <2> QED BY <2>1, <2>3 DEF Registry, ExchangesApart
<1> QED BY <1>3, <1>4, <1>5, <1>6, <1>7, <1>8, <1>9 DEF Registry

\* What a session has is nowhere else.
LEMMA GivenFacts ==
    ASSUME Registry, NEW r \in Requests, NEW given \in SUBSET sessions,
           \A s \in given : s[2] # r
    PROVE  /\ given \in SUBSET (Places \X Requests)
           /\ \A s \in given : /\ s[2] # r /\ Waiting(s[2]) /\ s[1] = SessionOf(s[2])
                               /\ s[2] \notin delayed \cup dependent
           /\ \A w \in waiters, s \in given : s[2] # w[2]
BY DEF Registry, TypeOK, HomesApart

\* The sessions without the request that was answered, for GivenFacts.
LEMMA WithoutFacts ==
    ASSUME Registry, NEW r \in Requests
    PROVE  /\ Without(r) \in SUBSET (Places \X Requests)
           /\ \A s \in Without(r) : /\ s[2] # r /\ Waiting(s[2]) /\ s[1] = SessionOf(s[2])
                                    /\ s[2] \notin delayed \cup dependent
           /\ \A w \in waiters, s \in Without(r) : s[2] # w[2]
<1>1. Without(r) \in SUBSET sessions /\ \A s \in Without(r) : s[2] # r
  BY DEF Without
<1> QED BY <1>1, GivenFacts

LEMMA CancelKeeps ==
    ASSUME Registry, NEW r \in Plain, Cancel(r)
    PROVE  Registry'
<1> USE DEF Cancel
<1> DEFINE given == sessions \ {<<SessionOf(r), r>>}
<1>1. r \in Requests /\ Waiting(r)
  BY Kinds
<1>2. given \in SUBSET sessions /\ \A s \in given : s[2] # r
  BY DEF Registry, TypeOK, HomesApart
<1>3. /\ given \in SUBSET (Places \X Requests)
      /\ \A s \in given : /\ s[2] # r /\ Waiting(s[2]) /\ s[1] = SessionOf(s[2])
                          /\ s[2] \notin delayed \cup dependent
      /\ \A w \in waiters, s \in given : s[2] # w[2]
  <2> HIDE DEF given
  <2> QED BY <1>1, <1>2, GivenFacts
<1>4. badGuest' \subseteq Requests /\ main' \in DCs /\ events' \in 0..MaxEvents
  BY InstanceAssumption DEF Registry, TypeOK, Event
<1>5. Unregister(r, "cancelled", given)
  OBVIOUS
<1>6. UNCHANGED <<registered, delayed, goal, waiters>>
  OBVIOUS
<1> QED BY <1>1, <1>3, <1>4, <1>5, <1>6, EndKeeps

LEMMA DoneKeeps ==
    ASSUME Registry, NEW r \in Requests, Waiting(r), Done(r)
    PROVE  Registry'
<1> USE DEF Done
<1>1. /\ Without(r) \in SUBSET (Places \X Requests)
      /\ \A s \in Without(r) : /\ s[2] # r /\ Waiting(s[2]) /\ s[1] = SessionOf(s[2])
                               /\ s[2] \notin delayed \cup dependent
      /\ \A w \in waiters, s \in Without(r) : s[2] # w[2]
  BY WithoutFacts
<1>2. badGuest' \subseteq Requests /\ main' \in DCs /\ events' \in 0..MaxEvents
  BY DEF Registry, TypeOK
<1>3. Unregister(r, "done", Without(r))
  OBVIOUS
<1>4. UNCHANGED <<registered, delayed, goal, waiters>>
  OBVIOUS
<1> QED BY <1>1, <1>2, <1>3, <1>4, EndKeeps

\* The exchange that ends has its own waiters.
LEMMA OtherExchanges ==
    ASSUME Registry, NEW r \in Exports \cup Imports, Waiting(r)
    PROVE  \A p \in Exports \cup Imports :
               Waiting(p) /\ p # r => goal[p[2]][1] # goal[r[2]][1]
BY DEF Registry, ExchangesApart

LEMMA FailKeeps ==
    ASSUME Registry, NEW r \in Requests, Waiting(r), Fail(r),
           badGuest' \subseteq Requests, events' \in 0..MaxEvents
    PROVE  Registry'
<1> USE DEF Fail
<1>1. /\ waiters' \subseteq waiters
      /\ \A p \in Exports \cup Imports, w \in waiters :
             Waiting(p) /\ p # r /\ w[1] = goal[p[2]][1] => w \in waiters'
  <2>1. CASE r \in Exports
    BY <2>1, OtherExchanges
  <2>2. CASE r \notin Exports
    BY <2>2
  <2> QED BY <2>1, <2>2
<1>2. /\ Without(r) \in SUBSET (Places \X Requests)
      /\ \A s \in Without(r) : /\ s[2] # r /\ Waiting(s[2]) /\ s[1] = SessionOf(s[2])
                               /\ s[2] \notin delayed \cup dependent
      /\ \A w \in waiters', s \in Without(r) : s[2] # w[2]
  BY <1>1, WithoutFacts
<1>3. main' \in DCs
  BY DEF Registry, TypeOK
<1>4. Unregister(r, "failed", Without(r))
  OBVIOUS
<1>5. UNCHANGED <<registered, delayed, goal>>
  OBVIOUS
<1> QED BY <1>1, <1>2, <1>3, <1>4, <1>5, EndKeeps

LEMMA ImportDoneKeeps ==
    ASSUME Registry, NEW r \in Imports, Waiting(r), InSession(r), ImportDone(r)
    PROVE  Registry'
<1> DEFINE here == dc[r]
           waited == {q \in Requests : <<here, q>> \in waiters /\ Waiting(q)}
           moves == \E q \in waited : toMain[q]
           plain == {q \in waited : ~toMain[q]}
           left == IF moves THEN Spared(Without(r), here) ELSE Without(r)
<1>1. r \in Requests /\ here \in DCs /\ here = goal[r[2]][1]
  BY Kinds DEF Registry, TypeOK, ExchangeInTurn
<1>2. PICK early \in SUBSET plain :
          Unregister(r, "done", left \cup {<<<<here, shift[q]>>, q>> : q \in plain \ early})
  BY DEF ImportDone
<1> DEFINE given == left \cup {<<<<here, shift[q]>>, q>> : q \in plain \ early}
<1>3. ASSUME NEW q \in waited
      PROVE  /\ q \in Requests /\ q # r /\ Waiting(q) /\ dc[q] = here
             /\ SessionOf(q) = <<here, shift[q]>> /\ SessionOf(q) \in Places
             /\ q \notin delayed \cup dependent
  <2>1. dc[q] = here /\ q \notin delayed \cup dependent /\ \A s \in sessions : s[2] # q
    BY <1>3 DEF Registry, HomesApart
  <2>2. q # r
    BY <2>1 DEF InSession
  <2> QED BY <2>1, <2>2 DEF Registry, TypeOK, SessionOf, Places
<1>4. \A w \in waiters : w[1] # here \/ w[2] \in waited \/ ~Waiting(w[2])
  BY DEF Registry, TypeOK
<1>5. left \subseteq Without(r)
  BY DEF Spared
<1>6. dc' = dc
  <2>1. dc' = [q \in Requests |-> IF q \in waited THEN here ELSE dc[q]]
    BY DEF ImportDone
  <2> QED BY <2>1, <1>3 DEF Registry, TypeOK
<1>7. /\ waiters' = {w \in waiters : w[1] # here}
      /\ UNCHANGED <<shift, toMain, after, delayed, goal, badGuest, events>>
      /\ main' \in DCs
  BY <1>1 DEF ImportDone, Registry, TypeOK
<1>8. /\ given \in SUBSET (Places \X Requests)
      /\ \A s \in given : /\ s[2] # r /\ Waiting(s[2]) /\ s[1] = SessionOf(s[2])
                          /\ s[2] \notin delayed \cup dependent
      /\ \A w \in waiters', s \in given : s[2] # w[2]
  <2>1. ASSUME NEW s \in given
        PROVE  /\ s \in Places \X Requests
               /\ s[2] # r /\ Waiting(s[2]) /\ s[1] = SessionOf(s[2])
               /\ s[2] \notin delayed \cup dependent
               /\ \A w \in waiters' : s[2] # w[2]
    <3>1. CASE s \in left
      BY <3>1, <1>1, <1>5, <1>7, WithoutFacts
    <3>2. CASE s \in {<<<<here, shift[q]>>, q>> : q \in plain \ early}
      <4>1. PICK q \in plain \ early : s = <<<<here, shift[q]>>, q>>
        BY <3>2
      <4>2. q \in waited
        OBVIOUS
      <4>3. \A w \in waiters' : w[2] # q
        BY <1>3, <1>7, <4>2 DEF Registry, HomesApart
      <4>4. s = <<SessionOf(q), q>> /\ s[1] = SessionOf(q) /\ s[2] = q
        BY <4>1, <4>2, <1>3
      <4> QED BY <4>2, <4>3, <4>4, <1>3
    <3> QED BY <3>1, <3>2
  <2> QED BY <2>1
<1>9. \A p \in Exports \cup Imports, w \in waiters :
          Waiting(p) /\ p # r /\ w[1] = goal[p[2]][1] => w \in waiters'
  BY <1>1, <1>7, OtherExchanges
<1>10. UNCHANGED <<registered, delayed, goal>>
  BY <1>6, <1>7 DEF registered
<1>11. badGuest' \subseteq Requests /\ events' \in 0..MaxEvents /\ waiters' \subseteq waiters
  BY <1>7 DEF Registry, TypeOK
<1>12. Unregister(r, "done", given)
  BY <1>2
<1> HIDE DEF given
<1> QED BY <1>1, <1>7, <1>8, <1>9, <1>10, <1>11, <1>12, EndKeeps

LEMMA ExportDoneKeeps ==
    ASSUME Registry, NEW r \in Exports, Waiting(r), ExportDone(r)
    PROVE  Registry'
<1> DEFINE import == <<"import", r[2]>>
           to == goal[r[2]]
<1>1. /\ r \in Requests /\ import \in Imports /\ import \in Requests /\ import # r
      /\ import \notin Plain /\ import \notin Exports /\ import[2] = r[2] /\ to \in Places
      /\ r[2] \in 1..NumExchanges
  BY Kinds, Numbers DEF Registry, TypeOK
<1>2. outcome[import] = "none"
  BY DEF Registry, ExchangeInTurn, Waiting
<1>3. /\ outcome' \in [Requests -> {"none", "waiting", "done", "failed", "cancelled"}]
      /\ dc' \in [Requests -> DCs] /\ shift' \in [Requests -> Shifts]
      /\ outcome'[r] = "done" /\ outcome'[import] = "waiting"
      /\ dc'[import] = to[1] /\ shift'[import] = to[2]
      /\ \A q \in Requests \ {r, import} : outcome'[q] = outcome[q]
      /\ \A q \in Requests \ {import} : dc'[q] = dc[q] /\ shift'[q] = shift[q]
  BY <1>1 DEF ExportDone, Registry, TypeOK, Places
<1>4. /\ sessions' = Without(r) \cup {<<to, import>>} \cup Sent(Following(r))
      /\ dependent' = dependent \ (Following(r) \cup {r})
      /\ UNCHANGED <<toMain, after, delayed, waiters, goal, badGuest, main, events>>
  BY DEF ExportDone
<1>5. /\ import \notin delayed /\ import \notin dependent
      /\ \A w \in waiters : w[2] # import
      /\ \A s \in sessions : s[2] # import
  BY <1>2 DEF Registry, HomesApart, DependOnLive, Waiting
<1>6. /\ Following(r) \subseteq dependent
      /\ r \notin Following(r)
      /\ \A x \in dependent : after[x] \in Following(r) \cup {r} => x \in Following(r)
  BY <1>1, FollowingFacts
<1>7. ASSUME NEW q \in Following(r)
      PROVE  /\ q \in Requests /\ q # r /\ q # import /\ outcome[q] = "waiting"
             /\ SessionOf(q) \in Places /\ SessionOf(q)' = SessionOf(q)
             /\ q \notin delayed /\ \A w \in waiters : w[2] # q
  BY SMTT(30), <1>3, <1>5, <1>6 DEF Registry, TypeOK, HomesApart, DependOnLive, SessionOf, Places, Waiting
<1>8. ASSUME NEW s \in sessions'
      PROVE  /\ s \in Places \X Requests /\ outcome'[s[2]] = "waiting"
             /\ s[1] = SessionOf(s[2])' /\ s[2] \notin delayed /\ s[2] \notin dependent'
             /\ \A w \in waiters : s[2] # w[2]
  <2>1. CASE s \in Without(r)
    <3>1. /\ s \in Places \X Requests /\ s[2] # r /\ s[2] # import /\ outcome[s[2]] = "waiting"
          /\ s[1] = SessionOf(s[2]) /\ s[2] \notin delayed /\ s[2] \notin dependent
          /\ \A w \in waiters : s[2] # w[2]
      BY <1>1, <1>5, <2>1, WithoutFacts DEF Without, Waiting
    <3>2. SessionOf(s[2])' = SessionOf(s[2]) /\ outcome'[s[2]] = "waiting"
      BY <1>3, <3>1 DEF SessionOf
    <3> QED BY <1>4, <3>1, <3>2
  <2>2. CASE s = <<to, import>>
    <3>1. s[1] = to /\ s[2] = import /\ s \in Places \X Requests
      BY <1>1, <2>2
    <3>2. to = <<to[1], to[2]>>
      BY <1>1 DEF Places
    <3>3. to = SessionOf(import)'
      BY <1>3, <3>2 DEF SessionOf
    <3> QED BY <1>3, <1>4, <1>5, <3>1, <3>3
  <2>3. CASE s \in Sent(Following(r))
    <3>1. PICK q \in Following(r) : s = <<SessionOf(q), q>>
      BY <2>3 DEF Sent
    <3> QED BY <1>3, <1>4, <1>7, <3>1
  <2> QED BY <2>1, <2>2, <2>3, <1>4
<1>9. TypeOK'
  <2>1. sessions' \subseteq Places \X Requests
    BY <1>8
  <2> QED BY <1>3, <1>4, <2>1 DEF Registry, TypeOK
<1>10. HomesApart'
  <2>1. ASSUME NEW w \in waiters'
        PROVE  (/\ outcome[w[2]] # "none"
                /\ Waiting(w[2]) => dc[w[2]] = w[1] /\ w[2] \notin delayed \cup dependent)'
    <3>1. w \in waiters /\ w[2] \in Requests /\ w[2] # import
      BY <1>4, <1>5 DEF Registry, TypeOK
    <3>2. /\ outcome[w[2]] # "none"
          /\ outcome[w[2]] = "waiting" => dc[w[2]] = w[1] /\ w[2] \notin delayed \cup dependent
      BY <3>1 DEF Registry, HomesApart, Waiting
    <3> QED BY <1>3, <1>4, <3>1, <3>2 DEF Waiting
  <2>2. \A q \in delayed' : (outcome[q] # "none" /\ q \notin dependent)'
    BY <1>3, <1>4, <1>5 DEF Registry, TypeOK, HomesApart
  <2> QED BY <1>4, <1>8, <2>1, <2>2 DEF HomesApart, Waiting
<1>11. DependOnLive'
  <2> SUFFICES ASSUME NEW x \in dependent'
               PROVE  outcome'[x] = "waiting" /\ after[x] \in Plain /\ outcome'[after[x]] = "waiting"
    BY <1>4 DEF DependOnLive, Waiting
  <2>1. x \in dependent /\ x # r /\ x # import /\ after[x] # r
    BY <1>4, <1>5, <1>6
  <2>2. x \in Requests /\ after[x] \in Plain /\ after[x] # import
    BY <2>1, <1>1 DEF Registry, TypeOK, DependOnLive
  <2> QED BY <1>3, <2>1, <2>2, Kinds DEF Registry, DependOnLive, Waiting
<1>12. AfterEarlier'
  BY <1>4 DEF Registry, AfterEarlier
<1>13. InTurn'
  BY <1>1, <1>3, Kinds DEF Registry, InTurn
<1>14. ExchangeInTurn'
  <2>1. ASSUME NEW e \in Exports, outcome'[e] \in {"none", "waiting"}
        PROVE  outcome'[<<"import", e[2]>>] = "none"
    <3>1. e # r /\ e \in Requests /\ e # import
      BY <1>1, <1>3, <2>1, Kinds
    <3>2. <<"import", e[2]>> \in Imports /\ <<"import", e[2]>> # import
      BY <3>1, Numbers
    <3>3. outcome[<<"import", e[2]>>] = "none"
      BY <1>3, <2>1, <3>1 DEF Registry, ExchangeInTurn
    <3> QED BY <1>1, <1>3, <3>2, <3>3, Kinds
  <2>2. ASSUME NEW i \in Imports, outcome'[i] = "waiting"
        PROVE  dc'[i] = goal[i[2]][1]
    BY <1>1, <1>3, <2>2, Kinds DEF Registry, ExchangeInTurn, Waiting
  <2> QED BY <1>4, <2>1, <2>2 DEF ExchangeInTurn, Waiting
<1>15. ExchangesApart'
  <2>1. ASSUME NEW p \in Exports \cup Imports, outcome'[p] = "waiting"
        PROVE  \/ p = import /\ goal[p[2]] = goal[r[2]]
               \/ outcome[p] = "waiting" /\ p # r /\ p # import
                    /\ goal[p[2]][1] # goal[r[2]][1]
    <3>1. p # r /\ p \in Requests
      BY <1>3, <2>1, Kinds
    <3>2. CASE p = import
      BY <1>1, <3>2
    <3>3. CASE p # import
      <4>1. outcome[p] = "waiting"
        BY <1>3, <2>1, <3>1, <3>3
      <4> QED BY <3>1, <3>3, <4>1, OtherExchanges DEF Waiting
    <3> QED BY <3>2, <3>3
  <2>2. \A p \in Exports \cup Imports : outcome[p] = "waiting" =>
            /\ \E q \in Requests : <<goal[p[2]][1], q>> \in waiters
            /\ \A q \in Exports \cup Imports :
                  outcome[q] = "waiting" /\ goal[q[2]][1] = goal[p[2]][1] => q = p
    BY DEF Registry, ExchangesApart, Waiting
  <2>3. \E q \in Requests : <<goal[r[2]][1], q>> \in waiters
    BY <2>2 DEF Waiting
  <2> QED BY <1>4, <2>1, <2>2, <2>3 DEF ExchangesApart, Waiting
<1> QED BY <1>9, <1>10, <1>11, <1>12, <1>13, <1>14, <1>15 DEF Registry

-----------------------------------------------------------------------------
(* The errors                                                              *)

\* A request that a session has is in no other place.
LEMMA InSessionFacts ==
    ASSUME Registry, NEW r \in Requests, Waiting(r), InSession(r)
    PROVE  r \notin delayed /\ r \notin dependent /\ \A w \in waiters : w[2] # r
BY DEF Registry, HomesApart, InSession

\* Steps that leave the requests as they are, except where they go.
LEMMA RestKeeps ==
    ASSUME Registry, TypeOK', HomesApart',
           UNCHANGED <<outcome, after, dependent, waiters, goal>>,
           \A i \in Imports : dc'[i] = dc[i]
    PROVE  Registry'
<1>1. DependOnLive' /\ AfterEarlier' /\ InTurn'
  BY DEF Registry, DependOnLive, AfterEarlier, InTurn, Waiting
<1>2. ExchangeInTurn' /\ ExchangesApart'
  BY DEF Registry, ExchangeInTurn, ExchangesApart, Waiting
<1> QED BY <1>1, <1>2 DEF Registry

LEMMA TemporaryKeeps ==
    ASSUME Registry, NEW r \in Requests, Waiting(r), InSession(r), Temporary(r),
           events' \in 0..MaxEvents
    PROVE  Registry'
<1> USE DEF registered
<1>1. /\ delayed' = delayed \cup {r} /\ sessions' = Without(r)
      /\ UNCHANGED <<outcome, registered, dependent, waiters, goal, badGuest, main>>
  BY DEF Temporary
<1>2. TypeOK'
  BY <1>1 DEF Registry, TypeOK, Without
<1>3. HomesApart'
  <2>1. ASSUME NEW s \in Without(r)
        PROVE  /\ Waiting(s[2])' /\ s[1] = SessionOf(s[2])' /\ s[2] \notin delayed' \cup dependent'
               /\ \A w \in waiters : s[2] # w[2]
    BY <1>1, WithoutFacts DEF Waiting, SessionOf
  <2>2. ASSUME NEW w \in waiters
        PROVE  (/\ outcome[w[2]] # "none"
                /\ Waiting(w[2]) => dc[w[2]] = w[1] /\ w[2] \notin delayed \cup dependent)'
    BY <1>1, InSessionFacts DEF Registry, HomesApart, Waiting
  <2>3. \A q \in delayed' : (outcome[q] # "none" /\ q \notin dependent)'
    BY <1>1, InSessionFacts DEF Registry, HomesApart, Waiting
  <2> QED BY <1>1, <2>1, <2>2, <2>3 DEF HomesApart
<1> QED BY <1>1, <1>2, <1>3, RestKeeps

\* One that is sent again, perhaps to another place.
LEMMA SentAgainKeeps ==
    ASSUME Registry, NEW r \in Requests, Waiting(r), InSession(r), NEW d \in DCs,
           NEW given, given \subseteq Without(r),
           sessions' = given \cup {<<<<d, shift[r]>>, r>>},
           dc' = [dc EXCEPT ![r] = d], main' \in DCs, events' \in 0..MaxEvents,
           UNCHANGED <<outcome, shift, toMain, delayed, dependent, waiters, goal, badGuest>>,
           after' \in [Requests -> Requests \cup {NoRequest}]
    PROVE  TypeOK' /\ HomesApart'
<1>1. /\ dc' \in [Requests -> DCs] /\ dc'[r] = d
      /\ \A q \in Requests : q # r => dc'[q] = dc[q]
  BY DEF Registry, TypeOK
<1>2. ASSUME NEW s \in sessions'
      PROVE  /\ s \in Places \X Requests /\ outcome[s[2]] = "waiting"
             /\ s[1] = <<dc'[s[2]], shift[s[2]]>>
             /\ s[2] \notin delayed \cup dependent
             /\ \A w \in waiters : s[2] # w[2]
  <2>1. CASE s \in given
    BY <1>1, <2>1, WithoutFacts DEF Waiting, SessionOf
  <2>2. CASE s = <<<<d, shift[r]>>, r>>
    BY <1>1, <2>2, InSessionFacts DEF Registry, TypeOK, Places, Waiting
  <2> QED BY <2>1, <2>2
<1>3. TypeOK'
  <2>1. sessions' \subseteq Places \X Requests
    BY <1>2
  <2> QED BY <1>1, <2>1 DEF Registry, TypeOK
<1>4. \A w \in waiters : /\ outcome[w[2]] # "none"
                         /\ outcome[w[2]] = "waiting" =>
                               dc'[w[2]] = w[1] /\ w[2] \notin delayed \cup dependent
  BY <1>1, InSessionFacts DEF Registry, TypeOK, HomesApart, Waiting
<1>5. HomesApart'
  BY <1>2, <1>4 DEF Registry, HomesApart, Waiting, SessionOf
<1> QED BY <1>3, <1>5

LEMMA NotInitedKeeps ==
    ASSUME Registry, NEW r \in Requests, Waiting(r), InSession(r), NotInited(r),
           events' \in 0..MaxEvents
    PROVE  Registry'
<1> USE DEF registered
<1>1. /\ sessions' = Without(r) \cup {<<<<dc[r], shift[r]>>, r>>}
      /\ UNCHANGED <<outcome, registered, delayed, dependent, waiters, goal, badGuest, main>>
  BY DEF NotInited, Sent, SessionOf
<1>2. /\ dc' = [dc EXCEPT ![r] = dc[r]] /\ dc[r] \in DCs /\ main' \in DCs
      /\ after' \in [Requests -> Requests \cup {NoRequest}]
  BY <1>1 DEF Registry, TypeOK
<1>3. TypeOK' /\ HomesApart'
  BY <1>1, <1>2, SentAgainKeeps
<1> QED BY <1>1, <1>3, RestKeeps

LEMMA MigrateKeeps ==
    ASSUME Registry, NEW r \in Plain, Waiting(r), InSession(r), NEW d \in DCs, Migrate(r, d),
           events' \in 0..MaxEvents
    PROVE  Registry'
<1> DEFINE given == IF toMain[r] THEN Spared(Without(r), d) ELSE Without(r)
<1>1. /\ sessions' = given \cup {<<<<d, shift[r]>>, r>>} /\ dc' = [dc EXCEPT ![r] = d]
      /\ UNCHANGED <<outcome, shift, toMain, after, delayed, dependent, waiters, goal, badGuest>>
  BY DEF Migrate, Moved
<1>2. given \subseteq Without(r)
  BY DEF Spared
<1>3. /\ r \in Requests /\ main' \in DCs /\ after' \in [Requests -> Requests \cup {NoRequest}]
      /\ \A i \in Imports : dc'[i] = dc[i]
  BY <1>1, Kinds DEF Migrate, Registry, TypeOK
<1> HIDE DEF given
<1>4. TypeOK' /\ HomesApart'
  BY <1>1, <1>2, <1>3, SentAgainKeeps
<1> QED BY <1>1, <1>3, <1>4, RestKeeps

LEMMA MsgWaitKeeps ==
    ASSUME Registry, NEW r \in Plain, Waiting(r), InSession(r), MsgWait(r),
           events' \in 0..MaxEvents
    PROVE  Registry'
<1>1. /\ r \in Requests /\ after[r] \in Plain /\ after[r][2] < r[2]
      /\ UNCHANGED <<outcome, dc, shift, toMain, delayed, waiters, goal, badGuest, main>>
  BY Kinds DEF MsgWait, Registry, AfterEarlier
<1>2. CASE SamePlace(r, after[r])
  <2>1. /\ dependent' = dependent \cup {r} /\ sessions' = Without(r) /\ after' = after
        /\ outcome[after[r]] = "waiting"
    BY <1>2 DEF MsgWait, SamePlace, Waiting
  <2>2. TypeOK'
    BY <1>1, <2>1 DEF Registry, TypeOK, Without
  <2>3. HomesApart'
    <3>1. ASSUME NEW s \in Without(r)
          PROVE  /\ Waiting(s[2])' /\ s[1] = SessionOf(s[2])'
                 /\ s[2] \notin delayed' \cup dependent'
                 /\ \A w \in waiters : s[2] # w[2]
      BY <1>1, <2>1, WithoutFacts DEF Waiting, SessionOf
    <3>2. ASSUME NEW w \in waiters
          PROVE  (/\ outcome[w[2]] # "none"
                  /\ Waiting(w[2]) => dc[w[2]] = w[1] /\ w[2] \notin delayed \cup dependent)'
      BY <1>1, <2>1, InSessionFacts DEF Registry, HomesApart, Waiting
    <3>3. \A q \in delayed' : (outcome[q] # "none" /\ q \notin dependent)'
      BY <1>1, <2>1, InSessionFacts DEF Registry, HomesApart
    <3> QED BY <1>1, <2>1, <3>1, <3>2, <3>3 DEF HomesApart
  <2>4. DependOnLive'
    BY <1>1, <2>1 DEF Registry, DependOnLive, Waiting
  <2> QED BY <1>1, <2>1, <2>2, <2>3, <2>4
          DEF Registry, AfterEarlier, InTurn, ExchangeInTurn, ExchangesApart, Waiting
<1>3. CASE ~SamePlace(r, after[r])
  <2>1. /\ after' = [after EXCEPT ![r] = NoRequest] /\ dependent' = dependent
        /\ sessions' = Without(r) \cup {<<<<dc[r], shift[r]>>, r>>}
    BY <1>3 DEF MsgWait, Sent, SessionOf
  <2>2. /\ after' \in [Requests -> Requests \cup {NoRequest}] /\ main' \in DCs
        /\ dc' = [dc EXCEPT ![r] = dc[r]] /\ dc[r] \in DCs
    BY <1>1, <2>1 DEF Registry, TypeOK
  <2>3. TypeOK' /\ HomesApart'
    BY <1>1, <2>1, <2>2, SentAgainKeeps
  <2>4. DependOnLive' /\ AfterEarlier'
    <3>1. /\ r \notin dependent /\ after'[r] = NoRequest
          /\ \A q \in Requests : q # r => after'[q] = after[q]
      BY <1>1, <2>1, InSessionFacts DEF Registry, TypeOK
    <3> QED BY <1>1, <2>1, <3>1 DEF Registry, TypeOK, DependOnLive, AfterEarlier, Waiting
  <2> QED BY <1>1, <2>3, <2>4 DEF Registry, InTurn, ExchangeInTurn, ExchangesApart, Waiting
<1> QED BY <1>2, <1>3

\* The second to wait for an authorization.
LEMMA WaitWithOthersKeeps ==
    ASSUME Registry, NEW r \in Requests, Waiting(r), InSession(r),
           sessions' = Without(r), waiters' = waiters \cup {<<dc[r], r>>},
           UNCHANGED <<outcome, registered, goal, delayed, dependent, main>>,
           badGuest' \subseteq Requests, events' \in 0..MaxEvents
    PROVE  Registry'
<1> USE DEF registered
<1>1. TypeOK'
  BY DEF Registry, TypeOK, Without
<1>2. HomesApart'
  <2>1. ASSUME NEW s \in Without(r)
        PROVE  /\ Waiting(s[2])' /\ s[1] = SessionOf(s[2])'
               /\ s[2] \notin delayed' \cup dependent' /\ s[2] # r
               /\ \A w \in waiters : s[2] # w[2]
    BY WithoutFacts DEF Waiting, SessionOf
  <2>2. ASSUME NEW w \in waiters'
        PROVE  (/\ outcome[w[2]] # "none"
                /\ Waiting(w[2]) => dc[w[2]] = w[1] /\ w[2] \notin delayed \cup dependent
                /\ \A s \in sessions : s[2] # w[2])'
    <3>1. CASE w \in waiters
      BY <2>1, <3>1 DEF Registry, HomesApart, Waiting
    <3>2. CASE w = <<dc[r], r>>
      BY <2>1, <3>2, InSessionFacts DEF Waiting
    <3> QED BY <3>1, <3>2
  <2> QED BY <2>1, <2>2 DEF Registry, HomesApart
<1>3. DependOnLive' /\ AfterEarlier' /\ InTurn' /\ ExchangeInTurn'
  BY DEF Registry, DependOnLive, AfterEarlier, InTurn, ExchangeInTurn, Waiting
<1>4. ExchangesApart'
  BY DEF Registry, ExchangesApart, Waiting
<1> QED BY <1>1, <1>2, <1>3, <1>4 DEF Registry

\* The first one, which has it exported.
LEMMA WaitForExportKeeps ==
    ASSUME Registry, NEW r \in Requests, Waiting(r), InSession(r),
           FirstToWait(dc[r]), NEW e \in Exports, outcome[e] = "none",
           outcome' = [outcome EXCEPT ![e] = "waiting"],
           dc' = [dc EXCEPT ![e] = main],
           shift' = [shift EXCEPT ![e] = MainShift],
           toMain' = [toMain EXCEPT ![e] = TRUE],
           goal' = [goal EXCEPT ![e[2]] = SessionOf(r)],
           sessions' = Without(r) \cup {<<<<main, MainShift>>, e>>},
           waiters' = waiters \cup {<<dc[r], r>>},
           UNCHANGED <<after, delayed, dependent, main>>,
           badGuest' \subseteq Requests, events' \in 0..MaxEvents
    PROVE  Registry'
<1>1. /\ e \in Requests /\ e \notin Plain /\ e \notin Imports /\ e # r
      /\ e[2] \in 1..NumExchanges
      /\ <<"import", e[2]>> \in Imports /\ outcome[<<"import", e[2]>>] = "none"
  BY Kinds, Numbers DEF Registry, ExchangeInTurn, Waiting
<1>2. /\ e \notin delayed /\ e \notin dependent
      /\ \A w \in waiters : w[2] # e
      /\ \A s \in sessions : s[2] # e
  BY <1>1 DEF Registry, HomesApart, DependOnLive, Waiting
<1>3. /\ SessionOf(r) \in Places /\ SessionOf(r)[1] = dc[r] /\ dc[r] \in DCs /\ main \in DCs
      /\ MainShift \in Shifts
  BY InstanceAssumption DEF SessionOf, Places, Registry, TypeOK
<1>4. /\ outcome' \in [Requests -> {"none", "waiting", "done", "failed", "cancelled"}]
      /\ dc' \in [Requests -> DCs] /\ shift' \in [Requests -> Shifts]
      /\ toMain' \in [Requests -> BOOLEAN] /\ goal' \in [1..NumExchanges -> Places]
      /\ outcome'[e] = "waiting" /\ dc'[e] = main /\ shift'[e] = MainShift
      /\ goal'[e[2]][1] = dc[r]
      /\ \A q \in Requests : q # e =>
            outcome'[q] = outcome[q] /\ dc'[q] = dc[q] /\ shift'[q] = shift[q]
      /\ \A k \in 1..NumExchanges : k # e[2] => goal'[k] = goal[k]
  BY <1>1, <1>3 DEF Registry, TypeOK
<1>5. ASSUME NEW s \in sessions'
      PROVE  /\ s \in Places \X Requests /\ outcome'[s[2]] = "waiting"
             /\ s[1] = SessionOf(s[2])' /\ s[2] \notin delayed /\ s[2] \notin dependent
             /\ s[2] # r /\ \A w \in waiters : s[2] # w[2]
  <2>1. CASE s \in Without(r)
    <3>1. /\ s \in Places \X Requests /\ s[2] # r /\ s[2] # e /\ outcome[s[2]] = "waiting"
          /\ s[1] = SessionOf(s[2]) /\ s[2] \notin delayed /\ s[2] \notin dependent
          /\ \A w \in waiters : s[2] # w[2]
      BY <1>2, <2>1, WithoutFacts DEF Without, Waiting
    <3>2. SessionOf(s[2])' = SessionOf(s[2]) /\ outcome'[s[2]] = "waiting"
      BY <1>4, <3>1 DEF SessionOf
    <3> QED BY <3>1, <3>2
  <2>2. CASE s = <<<<main, MainShift>>, e>>
    BY <1>1, <1>2, <1>3, <1>4, <2>2 DEF SessionOf, Places
  <2> QED BY <2>1, <2>2
<1>6. TypeOK'
  <2>1. sessions' \subseteq Places \X Requests
    BY <1>5
  <2>2. waiters' \subseteq DCs \X Requests
    BY <1>3 DEF Registry, TypeOK
  <2> QED BY <1>4, <2>1, <2>2 DEF Registry, TypeOK
<1>7. HomesApart'
  <2>1. ASSUME NEW w \in waiters'
        PROVE  /\ outcome'[w[2]] # "none"
               /\ outcome'[w[2]] = "waiting" =>
                      dc'[w[2]] = w[1] /\ w[2] \notin delayed /\ w[2] \notin dependent
               /\ \A s \in sessions' : s[2] # w[2]
    <3>1. CASE w \in waiters
      <4>1. w[2] \in Requests /\ w[2] # e
        BY <1>2, <3>1 DEF Registry, TypeOK
      <4> QED BY <1>4, <1>5, <3>1, <4>1 DEF Registry, HomesApart, Waiting
    <3>2. CASE w = <<dc[r], r>>
      <4>1. w[1] = dc[r] /\ w[2] = r /\ outcome'[r] = "waiting" /\ dc'[r] = dc[r]
        BY <1>1, <1>4, <3>2 DEF Waiting
      <4> QED BY <1>5, <4>1, InSessionFacts
    <3> QED BY <3>1, <3>2
  <2>2. \A q \in delayed' : (outcome[q] # "none" /\ q \notin dependent)'
    BY <1>2, <1>4 DEF Registry, TypeOK, HomesApart
  <2> QED BY <1>5, <2>1, <2>2 DEF HomesApart, Waiting
<1>8. DependOnLive'
  BY <1>1, <1>2, <1>4, Kinds DEF Registry, TypeOK, DependOnLive, Waiting
<1>9. AfterEarlier'
  BY DEF Registry, AfterEarlier
<1>10. InTurn'
  BY <1>1, <1>4, Kinds DEF Registry, InTurn
<1>11. \A p \in Exports \cup Imports :
           outcome'[p] = "waiting" /\ p # e =>
               outcome[p] = "waiting" /\ p[2] # e[2] /\ goal'[p[2]] = goal[p[2]] /\ dc'[p] = dc[p]
  BY <1>1, <1>4, Kinds, Numbers
<1>12. ExchangeInTurn'
  <2>1. \A f \in Exports : outcome'[f] \in {"none", "waiting"} => outcome'[<<"import", f[2]>>] = "none"
    BY <1>1, <1>4, Kinds, Numbers DEF Registry, ExchangeInTurn
  <2>2. \A i \in Imports : outcome'[i] = "waiting" => dc'[i] = goal'[i[2]][1]
    BY <1>1, <1>11 DEF Registry, ExchangeInTurn, Waiting
  <2> QED BY <2>1, <2>2 DEF ExchangeInTurn, Waiting
<1>13. ExchangesApart'
  <2>1. ASSUME NEW p \in Exports \cup Imports, outcome[p] = "waiting"
        PROVE  /\ \E q \in Requests : <<goal[p[2]][1], q>> \in waiters
               /\ goal[p[2]][1] # dc[r]
               /\ \A q \in Exports \cup Imports :
                     outcome[q] = "waiting" /\ goal[q[2]][1] = goal[p[2]][1] => q = p
    BY <2>1 DEF Registry, ExchangesApart, FirstToWait, Waiting
  <2>2. ASSUME NEW p \in Exports \cup Imports, outcome'[p] = "waiting"
        PROVE  /\ \E q \in Requests : <<goal'[p[2]][1], q>> \in waiters'
               /\ \A q \in Exports \cup Imports :
                     outcome'[q] = "waiting" /\ goal'[q[2]][1] = goal'[p[2]][1] => q = p
    <3>1. CASE p = e
      BY <1>4, <1>11, <2>1, <3>1
    <3>2. CASE p # e
      <4>1. /\ outcome[p] = "waiting" /\ goal'[p[2]] = goal[p[2]]
        BY <1>11, <2>2, <3>2
      <4>2. \E q \in Requests : <<goal'[p[2]][1], q>> \in waiters'
        BY <2>1, <4>1
      <4>3. ASSUME NEW q \in Exports \cup Imports, outcome'[q] = "waiting",
                   goal'[q[2]][1] = goal'[p[2]][1]
            PROVE  q = p
        <5>1. q # e
          BY <1>4, <2>1, <4>1, <4>3
        <5> QED BY <1>11, <2>1, <4>1, <4>3, <5>1
      <4> QED BY <4>2, <4>3
    <3> QED BY <3>1, <3>2
  <2> QED BY <2>2 DEF ExchangesApart, Waiting
<1> QED BY <1>6, <1>7, <1>8, <1>9, <1>10, <1>12, <1>13 DEF Registry

LEMMA WaitForAuthorizationKeeps ==
    ASSUME Registry, NEW r \in Requests, Waiting(r), InSession(r), WaitForAuthorization(r),
           badGuest' \subseteq Requests, events' \in 0..MaxEvents
    PROVE  Registry'
<1>1. waiters' = waiters \cup {<<dc[r], r>>} /\ UNCHANGED <<after, delayed, dependent, main>>
  BY DEF WaitForAuthorization
<1>2. CASE ~FirstToWait(dc[r])
  <2>1. sessions' = Without(r) /\ UNCHANGED <<outcome, dc, shift, toMain, goal>>
    BY <1>2 DEF WaitForAuthorization
  <2>2. UNCHANGED <<outcome, registered, goal, delayed, dependent, main>>
    BY <1>1, <2>1 DEF registered
  <2> QED BY <1>1, <2>1, <2>2, WaitWithOthersKeeps
<1>3. CASE FirstToWait(dc[r])
  <2>1. PICK e \in Exports :
            /\ outcome[e] = "none"
            /\ outcome' = [outcome EXCEPT ![e] = "waiting"]
            /\ dc' = [dc EXCEPT ![e] = main]
            /\ shift' = [shift EXCEPT ![e] = MainShift]
            /\ toMain' = [toMain EXCEPT ![e] = TRUE]
            /\ goal' = [goal EXCEPT ![e[2]] = SessionOf(r)]
            /\ sessions' = Without(r) \cup {<<<<main, MainShift>>, e>>}
    BY <1>3 DEF WaitForAuthorization
  <2> QED BY <1>1, <1>3, <2>1, WaitForExportKeeps
<1> QED BY <1>2, <1>3

\* Every error is one of these.
LEMMA ErrorKeeps ==
    ASSUME Registry, NEW r \in Requests, Error(r)
    PROVE  Registry'
<1>1. /\ Waiting(r) /\ InSession(r)
      /\ \/ OtherError(r)
         \/ Temporary(r)
         \/ NotInited(r)
         \/ Unauthorized(r)
         \/ r \in Plain /\ (MsgWait(r) \/ FileIdInvalid(r) \/ \E d \in DCs : Migrate(r, d))
  BY DEF Error
<1>2. events' \in 0..MaxEvents
  BY InstanceAssumption DEF Error, Event, Registry, TypeOK
<1>3. badGuest \subseteq Requests
  BY DEF Registry, TypeOK
<1>4. ASSUME OtherError(r) PROVE Registry'
  BY <1>1, <1>2, <1>3, <1>4, FailKeeps DEF OtherError
<1>5. CASE Temporary(r)
  BY <1>1, <1>2, <1>5, TemporaryKeeps
<1>6. CASE NotInited(r)
  BY <1>1, <1>2, <1>6, NotInitedKeeps
<1>7. CASE Unauthorized(r)
  BY <1>1, <1>2, <1>3, <1>4, <1>7, WaitForAuthorizationKeeps DEF Unauthorized
<1>8. CASE r \in Plain /\ MsgWait(r)
  BY <1>1, <1>2, <1>8, MsgWaitKeeps
<1>9. CASE FileIdInvalid(r)
  <2>1. badGuest \ {r} \subseteq Requests /\ badGuest \cup {r} \subseteq Requests
    BY <1>3
  <2> QED BY <1>1, <1>2, <1>4, <1>9, <2>1, FailKeeps, WaitForAuthorizationKeeps DEF FileIdInvalid
<1>10. CASE r \in Plain /\ \E d \in DCs : Migrate(r, d)
  BY <1>1, <1>2, <1>10, MigrateKeeps
<1> QED BY <1>1, <1>4, <1>5, <1>6, <1>7, <1>8, <1>9, <1>10

\* ... and so is every answer.
LEMMA AnswerKeeps ==
    ASSUME Registry, NEW r \in Requests, Answer(r)
    PROVE  Registry'
BY DoneKeeps, ExportDoneKeeps, ImportDoneKeeps DEF Answer

-----------------------------------------------------------------------------
(* The theorems                                                            *)

LEMMA RegistryInit ==
    Init => Registry
<1> SUFFICES ASSUME Init PROVE Registry
  OBVIOUS
<1> USE DEF Init
<1>1. \A r \in Requests : outcome[r] = "none" /\ after[r] = NoRequest
  OBVIOUS
<1>2. TypeOK
  BY InstanceAssumption DEF TypeOK, Places
<1>3. HomesApart /\ DependOnLive
  BY DEF HomesApart, DependOnLive
<1>4. AfterEarlier
  BY <1>1 DEF AfterEarlier
<1>5. InTurn
  BY <1>1, Kinds DEF InTurn
<1>6. ExchangeInTurn
  BY <1>1, Kinds, Numbers DEF ExchangeInTurn, Waiting
<1>7. ExchangesApart
  BY <1>1, Kinds DEF ExchangesApart, Waiting
<1> QED BY <1>2, <1>3, <1>4, <1>5, <1>6, <1>7 DEF Registry

LEMMA RegistryStep ==
    Registry /\ [Next]_vars => Registry'
<1> SUFFICES ASSUME Registry, [Next]_vars PROVE Registry'
  OBVIOUS
<1>1. CASE \E r \in Plain : SendRequest(r) \/ Cancel(r)
  BY <1>1, SendRequestKeeps, CancelKeeps
<1>2. CASE \E d \in DCs : SetMainDcId(d)
  BY <1>2, SetMainDcIdKeeps
<1>3. CASE \E r \in Requests : CheckDelayed(r) \/ Answer(r) \/ Error(r)
  BY <1>3, CheckDelayedKeeps, AnswerKeeps, ErrorKeeps
<1>4. CASE UNCHANGED vars
  <2> USE <1>4 DEF vars, registered
  <2>1. TypeOK' /\ HomesApart'
    BY DEF Registry, TypeOK, HomesApart, Waiting, SessionOf
  <2> QED
    BY <2>1 DEF Registry, DependOnLive, AfterEarlier, InTurn, ExchangeInTurn, ExchangesApart, Waiting
<1> QED BY <1>1, <1>2, <1>3, <1>4 DEF Next

\* Whatever errors, changes of datacenter, cancels and exchanges come in whatever order,
\* the registry and the places of the requests fit together (mtp_instance.cpp).
THEOREM RegistryHolds ==
    Spec => []Registry
BY RegistryInit, RegistryStep, PTL DEF Spec

\* Every variable keeps its type: no signed datacenter gets into _requestsByDc.
THEOREM InstanceTypeCorrect ==
    Spec => []TypeOK
<1>1. Registry => TypeOK
  BY DEF Registry
<1> QED BY <1>1, RegistryHolds, PTL

\* A request that waits is in one place.
THEOREM RequestsHaveOneHome ==
    Spec => []OneHome
<1>1. Registry => OneHome
  <2> SUFFICES ASSUME Registry, NEW r \in Requests, Waiting(r)
               PROVE  /\ InSession(r) => r \notin delayed \cup dependent /\ WaitsAt(r) = {}
                      /\ r \in delayed => r \notin dependent /\ WaitsAt(r) = {}
                      /\ r \in dependent => WaitsAt(r) = {}
    BY DEF OneHome
  <2>1. InSession(r) => r \notin delayed \cup dependent /\ WaitsAt(r) = {}
    BY DEF Registry, HomesApart, InSession, WaitsAt
  <2>2. (r \in delayed => r \notin dependent) /\ (r \in delayed \cup dependent => WaitsAt(r) = {})
    BY DEF Registry, HomesApart, WaitsAt
  <2> QED BY <2>1, <2>2
<1> QED BY <1>1, RegistryHolds, PTL

\* ... which is where _requestsByDc says.
THEOREM RequestsAreInTheirPlace ==
    Spec => []InItsPlace
<1>1. Registry => InItsPlace
  BY DEF Registry, HomesApart, InItsPlace
<1> QED BY <1>1, RegistryHolds, PTL

\* What is put aside depends on a request that has not ended.
THEOREM DependenciesAreLive ==
    Spec => []DependOnLive
<1>1. Registry => DependOnLive
  BY DEF Registry
<1> QED BY <1>1, RegistryHolds, PTL

\* An authorization is carried over to a datacenter by one request at a time.
THEOREM ExchangesAreExclusive ==
    Spec => []OneExchange
<1>1. Registry => OneExchange
  BY DEF Registry, ExchangesApart, OneExchange, Authorizes
<1> QED BY <1>1, RegistryHolds, PTL

-----------------------------------------------------------------------------
(* The requests that are stranded                                          *)

\* What a waiting request can wait for: a session, a timer, a request that it depends on,
\* or an authorization that is on its way.
Tended(r) ==
    InSession(r) \/ r \in delayed \/ r \in dependent
    \/ \E d \in DCs : <<d, r>> \in waiters /\ Authorizes(d) # {}

\* The ways in which a request is known to be lost.
KnownLoss(r) ==
    \/ main' # main
    \/ \E q \in Exports \cup Imports : Waiting(q) /\ outcome'[q] = "failed"
    \/ \E w \in waiters : <<w[1], r>> \in waiters' /\ Authorizes(w[1]) = {}
    \/ toMain[r] /\ WaitsAt(r) # {}

\* A step strands nothing, as long as it is not one of the known losses: r waits after it, and
\* was tended before it when it waited then.
StaysTended(r) == Waiting(r)' /\ (Waiting(r) => Tended(r)) /\ ~KnownLoss(r) => Tended(r)'

\* A request of a place that sendPrepared() gives it to is in a session.
LEMMA GivenIsTended ==
    ASSUME NEW r, NEW p \in Places, <<p, r>> \in sessions'
    PROVE  Tended(r)'
BY DEF Tended, InSession

\* Those who wait are tended as long as their authorization is.
LEMMA WaiterIsTended ==
    ASSUME NEW r, NEW d \in DCs, <<d, r>> \in waiters', Authorizes(d)' # {}
    PROVE  Tended(r)'
BY DEF Tended

\* Nothing happens to a request that stays where it is.
LEMMA StayIsTended ==
    ASSUME NEW r \in Requests, Waiting(r),
           \A s \in sessions : s[2] = r => s \in sessions',
           r \in delayed => r \in delayed' \/ InSession(r)',
           r \in dependent => r \in dependent' \/ InSession(r)',
           \A d \in DCs : <<d, r>> \in waiters /\ Authorizes(d) # {} => Tended(r)'
    PROVE  StaysTended(r)
<1> SUFFICES ASSUME Tended(r) PROVE Tended(r)'
  BY DEF StaysTended
<1>1. CASE InSession(r)
  BY <1>1 DEF Tended, InSession
<1>2. CASE r \in delayed
  BY <1>2 DEF Tended
<1>3. CASE r \in dependent
  BY <1>3 DEF Tended
<1>4. CASE \E d \in DCs : <<d, r>> \in waiters /\ Authorizes(d) # {}
  BY <1>4
<1> QED BY <1>1, <1>2, <1>3, <1>4 DEF Tended

\* An exchange of an authorization goes on when it waits on and is for the same datacenter.
LEMMA ExchangeGoesOn ==
    ASSUME NEW d \in DCs, Authorizes(d) # {},
           \A q \in Exports \cup Imports :
               Waiting(q) /\ goal[q[2]][1] = d => Waiting(q)' /\ goal'[q[2]][1] = d
    PROVE  Authorizes(d)' # {}
BY DEF Authorizes

\* The end of a request has those sent that were put aside until then.
LEMMA DependentsAreSent ==
    ASSUME Registry, NEW r \in Requests, NEW how, NEW given, Unregister(r, how, given),
           NEW q \in dependent, q # r
    PROVE  q \in dependent' \/ InSession(q)'
<1>1. CASE q \in Following(r)
  <2>1. <<SessionOf(q), q>> \in sessions'
    BY <1>1 DEF Unregister, Sent
  <2>2. SessionOf(q) \in Places
    BY DEF Registry, TypeOK, SessionOf, Places
  <2> QED BY <2>1, <2>2 DEF InSession
<1>2. CASE q \notin Following(r)
  BY <1>2 DEF Unregister
<1> QED BY <1>1, <1>2

\* A step that leaves who waits and the exchanges alone, and all but one request where they are.
LEMMA OthersStayTended ==
    ASSUME NEW r \in Requests, Waiting(r),
           \A s \in sessions : s[2] = r => s \in sessions',
           r \in delayed => r \in delayed' \/ InSession(r)',
           r \in dependent => r \in dependent' \/ InSession(r)',
           \A d \in DCs : <<d, r>> \in waiters => <<d, r>> \in waiters',
           \A q \in Exports \cup Imports : Waiting(q) => Waiting(q)' /\ goal'[q[2]] = goal[q[2]]
    PROVE  StaysTended(r)
<1>1. ASSUME NEW d \in DCs, <<d, r>> \in waiters, Authorizes(d) # {} PROVE Tended(r)'
  <2>1. Authorizes(d)' # {}
    BY <1>1, ExchangeGoesOn
  <2> QED BY <1>1, <2>1, WaiterIsTended
<1> QED BY <1>1, StayIsTended

LEMMA SendRequestTends ==
    ASSUME Registry, NEW q \in Plain, SendRequest(q), NEW r \in Requests
    PROVE  StaysTended(r)
<1>1. q \in Requests /\ outcome[q] = "none"
  BY Kinds DEF SendRequest
<1>2. PICK a \in {NoRequest} \cup {p \in Plain : Waiting(p)}, d \in DCs, s \in Shifts, signed \in BOOLEAN :
          Register(q, d, s, signed, a) /\ Place(q, d, s, a)
  BY InstanceAssumption DEF SendRequest, Registry, TypeOK
<1>3. UNCHANGED <<delayed, waiters, goal, badGuest, main>>
  BY DEF SendRequest
<1>4. /\ sessions \subseteq sessions' /\ dependent \subseteq dependent'
      /\ <<<<d, s>>, q>> \in sessions' \/ q \in dependent'
  BY <1>2 DEF Place
<1>5. outcome' = [outcome EXCEPT ![q] = "waiting"]
  BY <1>2 DEF Register
<1>6. CASE r = q
  <2>1. <<d, s>> \in Places
    BY DEF Places
  <2>2. Tended(r)'
    BY <1>4, <1>6, <2>1 DEF Tended, InSession
  <2> QED BY <2>2 DEF StaysTended
<1>7. CASE r # q
  <2>1. CASE Waiting(r)
    <3>1. \A p \in Exports \cup Imports : Waiting(p) => Waiting(p)'
      BY <1>1, <1>5, Kinds DEF Waiting, Registry, TypeOK
    <3> QED BY <1>3, <1>4, <2>1, <3>1, OthersStayTended
  <2>2. CASE ~Waiting(r)
    BY <1>5, <1>7, <2>2 DEF Waiting, Registry, TypeOK, StaysTended
  <2> QED BY <2>1, <2>2
<1> QED BY <1>6, <1>7

LEMMA CancelTends ==
    ASSUME Registry, NEW q \in Plain, Cancel(q), NEW r \in Requests
    PROVE  StaysTended(r)
<1> DEFINE given == sessions \ {<<SessionOf(q), q>>}
<1>1. q \in Requests /\ q \notin Exports \cup Imports /\ Unregister(q, "cancelled", given)
  BY Kinds DEF Cancel
<1>2. UNCHANGED <<registered, delayed, waiters, goal, badGuest, main>>
  BY DEF Cancel
<1>3. outcome' = [outcome EXCEPT ![q] = "cancelled"] /\ given \subseteq sessions'
  BY <1>1 DEF Unregister
<1>4. CASE r = q \/ ~Waiting(r)
  BY <1>1, <1>3, <1>4 DEF Waiting, Registry, TypeOK, StaysTended
<1>5. CASE r # q /\ Waiting(r)
  <2>1. \A p \in Exports \cup Imports : Waiting(p) => Waiting(p)'
    BY <1>1, <1>3, Kinds DEF Waiting, Registry, TypeOK
  <2>2. \A s \in sessions : s[2] = r => s \in sessions'
    BY <1>3, <1>5
  <2>3. r \in dependent => r \in dependent' \/ InSession(r)'
    BY <1>1, <1>5, DependentsAreSent
  <2> QED BY <1>2, <1>5, <2>1, <2>2, <2>3, OthersStayTended
<1> QED BY <1>4, <1>5

LEMMA SetMainDcIdTends ==
    ASSUME Registry, NEW d \in DCs, SetMainDcId(d), NEW r \in Requests
    PROVE  StaysTended(r)
<1>1. UNCHANGED <<outcome, delayed, dependent, waiters, goal>>
  BY DEF SetMainDcId
<1>2. CASE main' # main
  BY <1>2 DEF StaysTended, KnownLoss
<1>3. CASE ~Waiting(r)
  BY <1>1, <1>3 DEF StaysTended, Waiting
<1>4. CASE main' = main /\ Waiting(r)
  <2>1. sessions' = sessions
    BY <1>4 DEF SetMainDcId, Spared
  <2> QED BY <1>1, <1>4, <2>1, OthersStayTended DEF Waiting
<1> QED BY <1>2, <1>3, <1>4

LEMMA CheckDelayedTends ==
    ASSUME Registry, NEW q \in Requests, CheckDelayed(q), NEW r \in Requests
    PROVE  StaysTended(r)
<1>1. /\ UNCHANGED <<outcome, dependent, waiters, goal>> /\ sessions \subseteq sessions'
      /\ delayed' = delayed \ {q} /\ (Waiting(q) => <<SessionOf(q), q>> \in sessions')
  BY DEF CheckDelayed, Sent
<1>2. CASE ~Waiting(r)
  BY <1>1, <1>2 DEF StaysTended, Waiting
<1>3. CASE Waiting(r)
  <2>1. SessionOf(q) \in Places
    BY DEF Registry, TypeOK, SessionOf, Places
  <2>2. r \in delayed => r \in delayed' \/ InSession(r)'
    BY <1>1, <1>3, <2>1 DEF InSession
  <2>3. \A p \in Exports \cup Imports : Waiting(p) => Waiting(p)' /\ goal'[p[2]] = goal[p[2]]
    BY <1>1 DEF Waiting
  <2> QED BY <1>1, <1>3, <2>2, <2>3, OthersStayTended
<1> QED BY <1>2, <1>3

\* A request ends that is not the exchange of an authorization.
LEMMA EndTends ==
    ASSUME Registry, NEW q \in Requests, q \notin Exports \cup Imports, NEW how,
           how # "waiting", Unregister(q, how, Without(q)),
           UNCHANGED <<delayed, waiters, goal>>, NEW r \in Requests
    PROVE  StaysTended(r)
<1>1. outcome' = [outcome EXCEPT ![q] = how] /\ Without(q) \subseteq sessions'
  BY DEF Unregister
<1>2. CASE r = q \/ ~Waiting(r)
  BY <1>1, <1>2 DEF Waiting, Registry, TypeOK, StaysTended
<1>3. CASE r # q /\ Waiting(r)
  <2>1. \A p \in Exports \cup Imports : Waiting(p) => Waiting(p)'
    BY <1>1, Kinds DEF Waiting, Registry, TypeOK
  <2>2. \A s \in sessions : s[2] = r => s \in sessions'
    BY <1>1, <1>3 DEF Without
  <2>3. r \in dependent => r \in dependent' \/ InSession(r)'
    BY <1>3, DependentsAreSent
  <2> QED BY <1>3, <2>1, <2>2, <2>3, OthersStayTended
<1> QED BY <1>2, <1>3

\* An export that ends gives the authorization to its import.
LEMMA ExportDoneTends ==
    ASSUME Registry, NEW e \in Exports, Waiting(e), ExportDone(e), NEW r \in Requests
    PROVE  StaysTended(r)
<1> DEFINE import == <<"import", e[2]>>
<1>1. /\ e \in Requests /\ import \in Imports /\ import \in Requests /\ import # e
      /\ import[2] = e[2] /\ goal[e[2]] \in Places
  BY Kinds, Numbers DEF Registry, TypeOK
<1>2. /\ outcome' = [outcome EXCEPT ![e] = "done", ![import] = "waiting"]
      /\ sessions' = Without(e) \cup {<<goal[e[2]], import>>} \cup Sent(Following(e))
      /\ dependent' = dependent \ (Following(e) \cup {e})
      /\ UNCHANGED <<delayed, waiters, goal>>
  BY DEF ExportDone
<1>3. outcome'[import] = "waiting" /\ \A p \in Requests \ {e, import} : outcome'[p] = outcome[p]
  BY <1>1, <1>2 DEF Registry, TypeOK
<1>4. CASE r = e
  BY <1>1, <1>2, <1>4 DEF StaysTended, Waiting, Registry, TypeOK
<1>5. CASE r = import
  BY <1>1, <1>2, <1>5, GivenIsTended DEF StaysTended
<1>6. CASE r # e /\ r # import
  <2>1. CASE ~Waiting(r)
    BY <1>3, <1>6, <2>1 DEF StaysTended, Waiting
  <2>2. CASE Waiting(r)
    <3>1. ASSUME NEW d \in DCs, <<d, r>> \in waiters, Authorizes(d) # {} PROVE Tended(r)'
      <4>1. CASE goal[e[2]][1] = d
        <5>1. import \in Authorizes(d)'
          BY <1>1, <1>2, <1>3, <4>1 DEF Authorizes, Waiting
        <5> QED BY <1>2, <3>1, <5>1, WaiterIsTended
      <4>2. CASE goal[e[2]][1] # d
        <5>1. ASSUME NEW q \in Exports \cup Imports, Waiting(q), goal[q[2]][1] = d
              PROVE  Waiting(q)' /\ goal'[q[2]][1] = d
          <6>1. q # e /\ q # import /\ q \in Requests
            BY <1>1, <4>2, <5>1, Kinds
          <6> QED BY <1>2, <1>3, <5>1, <6>1 DEF Waiting
        <5>2. Authorizes(d)' # {}
          BY <3>1, <5>1, ExchangeGoesOn
        <5> QED BY <1>2, <3>1, <5>2, WaiterIsTended
      <4> QED BY <4>1, <4>2
    <3>2. \A s \in sessions : s[2] = r => s \in sessions'
      BY <1>2, <1>6 DEF Without
    <3>3. r \in dependent => r \in dependent' \/ InSession(r)'
      <4>1. CASE r \in Following(e)
        <5>1. <<SessionOf(r), r>> \in sessions' /\ SessionOf(r) \in Places
          BY <1>2, <4>1 DEF Sent, Registry, TypeOK, SessionOf, Places
        <5> QED BY <5>1 DEF InSession
      <4>2. CASE r \notin Following(e)
        BY <1>2, <1>6, <4>2
      <4> QED BY <4>1, <4>2
    <3> QED BY <1>2, <2>2, <3>1, <3>2, <3>3, StayIsTended
  <2> QED BY <2>1, <2>2
<1> QED BY <1>4, <1>5, <1>6

\* An import that ends has all those sent who wait for it, but for a request to the main
\* datacenter, which makes this one the main one.
LEMMA ImportDoneTends ==
    ASSUME Registry, NEW i \in Imports, Waiting(i), InSession(i), ImportDone(i), NEW r \in Requests
    PROVE  StaysTended(r)
<1> DEFINE here == dc[i]
           waited == {q \in Requests : <<here, q>> \in waiters /\ Waiting(q)}
           moves == \E q \in waited : toMain[q]
           plain == {q \in waited : ~toMain[q]}
           early == {q \in plain : moves /\ here # main /\ shift[q] = MainShift}
           left == IF moves THEN Spared(Without(i), here) ELSE Without(i)
<1>1. i \in Requests /\ here \in DCs /\ here = goal[i[2]][1]
  BY Kinds DEF Registry, TypeOK, ExchangeInTurn
<1>2. PICK some \in SUBSET early :
          Unregister(i, "done", left \cup {<<<<here, shift[q]>>, q>> : q \in plain \ some})
  BY DEF ImportDone
<1> DEFINE given == left \cup {<<<<here, shift[q]>>, q>> : q \in plain \ some}
<1>3. /\ main' = IF moves THEN here ELSE main
      /\ waiters' = {w \in waiters : w[1] # here}
      /\ UNCHANGED <<delayed, goal>>
  BY DEF ImportDone
<1>4. /\ outcome' = [outcome EXCEPT ![i] = "done"]
      /\ given \subseteq sessions'
  BY <1>2 DEF Unregister
<1>5. CASE r = i \/ ~Waiting(r)
  BY <1>1, <1>4, <1>5 DEF Waiting, Registry, TypeOK, StaysTended
<1>6. CASE r # i /\ Waiting(r)
  <2> SUFFICES ASSUME ~KnownLoss(r) PROVE StaysTended(r)
    BY DEF StaysTended
  <2>1. main' = main /\ (toMain[r] => WaitsAt(r) = {})
    BY DEF KnownLoss
  <2>2. left = Without(i) /\ some = {}
    BY <1>2, <1>3, <2>1 DEF Spared
  <2>3. \A s \in sessions : s[2] = r => s \in sessions'
    BY <1>4, <1>6, <2>2 DEF Without
  <2>4. r \in dependent => r \in dependent' \/ InSession(r)'
    BY <1>1, <1>2, <1>6, DependentsAreSent
  <2>5. ASSUME NEW d \in DCs, <<d, r>> \in waiters, Authorizes(d) # {} PROVE Tended(r)'
    <3>1. CASE d = here
      <4>1. r \in plain
        BY <1>6, <2>1, <2>5, <3>1 DEF WaitsAt
      <4>2. <<<<here, shift[r]>>, r>> \in sessions'
        BY <1>4, <2>2, <4>1
      <4>3. <<here, shift[r]>> \in Places
        BY <1>1 DEF Registry, TypeOK, Places
      <4> QED BY <4>2, <4>3, GivenIsTended
    <3>2. CASE d # here
      <4>1. <<d, r>> \in waiters'
        BY <1>3, <2>5, <3>2
      <4>2. ASSUME NEW q \in Exports \cup Imports, Waiting(q), goal[q[2]][1] = d
            PROVE  Waiting(q)' /\ goal'[q[2]][1] = d
        <5>1. q # i /\ q \in Requests
          BY <1>1, <3>2, <4>2, Kinds
        <5> QED BY <1>1, <1>3, <1>4, <4>2, <5>1 DEF Waiting, Registry, TypeOK
      <4>3. Authorizes(d)' # {}
        BY <2>5, <4>2, ExchangeGoesOn
      <4> QED BY <4>1, <4>3, WaiterIsTended
    <3> QED BY <3>1, <3>2
  <2> QED BY <1>3, <1>6, <2>3, <2>4, <2>5, StayIsTended
<1> QED BY <1>5, <1>6

LEMMA AnswerTends ==
    ASSUME Registry, NEW q \in Requests, Answer(q), NEW r \in Requests
    PROVE  StaysTended(r)
<1>1. Waiting(q) /\ InSession(q)
  BY DEF Answer
<1>2. CASE q \in Plain /\ Done(q)
  BY <1>2, Kinds, EndTends DEF Done
<1>3. CASE q \in Exports /\ ExportDone(q)
  BY <1>1, <1>3, ExportDoneTends
<1>4. CASE q \in Imports /\ ImportDone(q)
  BY <1>1, <1>4, ImportDoneTends
<1> QED BY <1>2, <1>3, <1>4 DEF Answer

\* A request that fails, unless it is the exchange of an authorization.
LEMMA FailTends ==
    ASSUME Registry, NEW q \in Requests, Waiting(q), Fail(q), NEW r \in Requests
    PROVE  StaysTended(r)
<1>1. CASE q \in Exports \cup Imports
  <2>1. outcome'[q] = "failed"
    BY DEF Fail, Unregister, Registry, TypeOK
  <2> QED BY <1>1, <2>1 DEF StaysTended, KnownLoss
<1>2. CASE q \notin Exports \cup Imports
  <2>1. Unregister(q, "failed", Without(q)) /\ UNCHANGED <<delayed, waiters, goal>>
    BY <1>2 DEF Fail
  <2> QED BY <1>2, <2>1, EndTends
<1> QED BY <1>1, <1>2

\* An error after which the request goes on somewhere, and the others stay.
LEMMA MovedTends ==
    ASSUME Registry, NEW q \in Requests, Waiting(q), InSession(q), Tended(q)',
           Without(q) \subseteq sessions',
           UNCHANGED <<outcome, waiters, goal>>,
           delayed \subseteq delayed', dependent \subseteq dependent', NEW r \in Requests
    PROVE  StaysTended(r)
<1>1. CASE r = q
  BY <1>1 DEF StaysTended
<1>2. CASE ~Waiting(r)
  BY <1>2 DEF StaysTended, Waiting
<1>3. CASE r # q /\ Waiting(r)
  <2>1. \A s \in sessions : s[2] = r => s \in sessions'
    BY <1>3 DEF Without
  <2>2. \A p \in Exports \cup Imports : Waiting(p) => Waiting(p)' /\ goal'[p[2]] = goal[p[2]]
    BY DEF Waiting
  <2> QED BY <1>3, <2>1, <2>2, OthersStayTended
<1> QED BY <1>1, <1>2, <1>3

LEMMA TemporaryTends ==
    ASSUME Registry, NEW q \in Requests, Waiting(q), InSession(q), Temporary(q), NEW r \in Requests
    PROVE  StaysTended(r)
<1>1. /\ q \in delayed' /\ delayed \subseteq delayed' /\ sessions' = Without(q)
      /\ UNCHANGED <<outcome, dependent, waiters, goal>>
  BY DEF Temporary
<1>2. Tended(q)'
  BY <1>1 DEF Tended
<1> QED BY <1>1, <1>2, MovedTends

LEMMA NotInitedTends ==
    ASSUME Registry, NEW q \in Requests, Waiting(q), InSession(q), NotInited(q), NEW r \in Requests
    PROVE  StaysTended(r)
<1>1. /\ sessions' = Without(q) \cup {<<SessionOf(q), q>>}
      /\ UNCHANGED <<outcome, delayed, dependent, waiters, goal>>
  BY DEF NotInited, Sent
<1>2. SessionOf(q) \in Places
  BY DEF Registry, TypeOK, SessionOf, Places
<1>3. Tended(q)'
  BY <1>1, <1>2, GivenIsTended
<1> QED BY <1>1, <1>3, MovedTends

LEMMA MsgWaitTends ==
    ASSUME Registry, NEW q \in Requests, Waiting(q), InSession(q), MsgWait(q), NEW r \in Requests
    PROVE  StaysTended(r)
<1>1. UNCHANGED <<outcome, delayed, waiters, goal>>
  BY DEF MsgWait
<1>2. /\ Without(q) \subseteq sessions' /\ dependent \subseteq dependent'
      /\ q \in dependent' \/ <<SessionOf(q), q>> \in sessions'
  BY DEF MsgWait, Sent
<1>3. SessionOf(q) \in Places
  BY DEF Registry, TypeOK, SessionOf, Places
<1>4. Tended(q)'
  BY <1>2, <1>3 DEF Tended, InSession
<1> QED BY <1>1, <1>2, <1>4, MovedTends

LEMMA MigrateTends ==
    ASSUME Registry, NEW q \in Requests, Waiting(q), InSession(q), NEW d \in DCs, Migrate(q, d),
           NEW r \in Requests
    PROVE  StaysTended(r)
<1> SUFFICES ASSUME main' = main PROVE StaysTended(r)
  BY DEF StaysTended, KnownLoss
<1>1. /\ sessions' = Without(q) \cup {<<<<d, shift[q]>>, q>>}
      /\ UNCHANGED <<outcome, delayed, dependent, waiters, goal>>
  BY DEF Migrate, Spared
<1>2. <<d, shift[q]>> \in Places
  BY DEF Registry, TypeOK, Places
<1>3. Tended(q)'
  BY <1>1, <1>2, GivenIsTended
<1> QED BY <1>1, <1>3, MovedTends

\* Those who wait already wait on; who comes first has the authorization exported.
LEMMA WaitForAuthorizationTends ==
    ASSUME Registry, NEW q \in Requests, Waiting(q), InSession(q), WaitForAuthorization(q),
           NEW r \in Requests
    PROVE  StaysTended(r)
<1>1. /\ waiters' = waiters \cup {<<dc[q], q>>} /\ UNCHANGED <<delayed, dependent, main>>
      /\ Without(q) \subseteq sessions' /\ dc[q] \in DCs
  BY DEF WaitForAuthorization, Registry, TypeOK
<1>2. CASE ~FirstToWait(dc[q])
  <2>1. UNCHANGED <<outcome, goal>>
    BY <1>2 DEF WaitForAuthorization
  <2>2. PICK p \in Requests : <<dc[q], p>> \in waiters
    BY <1>2 DEF FirstToWait
  <2>3. CASE r = q
    <3>1. CASE Authorizes(dc[q]) = {}
      <4>1. <<dc[q], p>>[1] = dc[q]
        OBVIOUS
      <4>2. \E w \in waiters : <<w[1], r>> \in waiters' /\ Authorizes(w[1]) = {}
        BY <1>1, <2>2, <2>3, <3>1, <4>1
      <4> QED BY <4>2 DEF StaysTended, KnownLoss
    <3>2. CASE Authorizes(dc[q]) # {}
      <4>1. PICK d \in DCs : d = dc[q]
        BY <1>1
      <4>2. Authorizes(d)' # {}
        BY <2>1, <3>2, <4>1 DEF Authorizes, Waiting
      <4>3. <<d, r>> \in waiters'
        BY <1>1, <2>3, <4>1
      <4>4. Tended(r)'
        BY <4>2, <4>3, WaiterIsTended
      <4> QED BY <4>4 DEF StaysTended
    <3> QED BY <3>1, <3>2
  <2>4. CASE r # q /\ ~Waiting(r)
    BY <2>1, <2>4 DEF StaysTended, Waiting
  <2>5. CASE r # q /\ Waiting(r)
    <3>1. \A s \in sessions : s[2] = r => s \in sessions'
      BY <1>1, <2>5 DEF Without
    <3>2. \A k \in Exports \cup Imports : Waiting(k) => Waiting(k)' /\ goal'[k[2]] = goal[k[2]]
      BY <2>1 DEF Waiting
    <3> QED BY <1>1, <2>5, <3>1, <3>2, OthersStayTended
  <2> QED BY <2>3, <2>4, <2>5
<1>3. CASE FirstToWait(dc[q])
  <2>1. PICK e \in Exports :
          /\ outcome[e] = "none"
          /\ outcome' = [outcome EXCEPT ![e] = "waiting"]
          /\ goal' = [goal EXCEPT ![e[2]] = SessionOf(q)]
          /\ sessions' = Without(q) \cup {<<<<main, MainShift>>, e>>}
    BY <1>3 DEF WaitForAuthorization
  <2>2. e \in Requests /\ e[2] \in 1..NumExchanges /\ e # q
    BY <2>1, Kinds, Numbers DEF Waiting
  <2>3. /\ outcome'[e] = "waiting" /\ \A p \in Requests \ {e} : outcome'[p] = outcome[p]
        /\ goal'[e[2]] = SessionOf(q)
        /\ \A k \in 1..NumExchanges : k # e[2] => goal'[k] = goal[k]
    BY <2>1, <2>2 DEF Registry, TypeOK
  <2>4. \A k \in Exports \cup Imports : Waiting(k) => Waiting(k)' /\ goal'[k[2]] = goal[k[2]]
    <3> SUFFICES ASSUME NEW k \in Exports \cup Imports, Waiting(k)
                 PROVE  Waiting(k)' /\ goal'[k[2]] = goal[k[2]]
      OBVIOUS
    <3>1. k \in Requests /\ k # e /\ k[2] \in 1..NumExchanges
      BY <2>1, Kinds, Numbers DEF Waiting
    <3>2. k[2] # e[2]
      <4>1. CASE k \in Exports
        BY <3>1, <4>1, Numbers
      <4>2. CASE k \in Imports
        <5>1. outcome[<<"import", e[2]>>] = "none"
          BY <2>1 DEF Registry, ExchangeInTurn
        <5>2. k = <<"import", k[2]>>
          BY <4>2, Numbers
        <5> QED BY <5>1, <5>2 DEF Waiting
      <4> QED BY <4>1, <4>2
    <3> QED BY <2>3, <3>1, <3>2 DEF Waiting
  <2>5. CASE r = e
    <3>1. <<main, MainShift>> \in Places
      BY InstanceAssumption DEF Registry, TypeOK, Places
    <3>2. Tended(r)'
      BY <2>1, <2>5, <3>1, GivenIsTended
    <3> QED BY <3>2 DEF StaysTended
  <2>6. CASE r = q
    <3>1. PICK d \in DCs : d = dc[q]
      BY <1>1
    <3>2. e \in Authorizes(d)'
      BY <2>3, <3>1 DEF Authorizes, Waiting, SessionOf
    <3>3. <<d, r>> \in waiters'
      BY <1>1, <2>6, <3>1
    <3>4. Tended(r)'
      BY <3>2, <3>3, WaiterIsTended
    <3> QED BY <3>4 DEF StaysTended
  <2>7. CASE r # e /\ r # q /\ ~Waiting(r)
    BY <2>3, <2>7 DEF StaysTended, Waiting
  <2>8. CASE r # e /\ r # q /\ Waiting(r)
    <3>1. \A s \in sessions : s[2] = r => s \in sessions'
      BY <1>1, <2>8 DEF Without
    <3> QED BY <1>1, <2>4, <2>8, <3>1, OthersStayTended
  <2> QED BY <2>5, <2>6, <2>7, <2>8
<1> QED BY <1>2, <1>3

LEMMA ErrorTends ==
    ASSUME Registry, NEW q \in Requests, Error(q), NEW r \in Requests
    PROVE  StaysTended(r)
<1>1. /\ Waiting(q) /\ InSession(q)
      /\ \/ OtherError(q)
         \/ Temporary(q)
         \/ NotInited(q)
         \/ Unauthorized(q)
         \/ MsgWait(q) \/ FileIdInvalid(q) \/ \E d \in DCs : Migrate(q, d)
  BY DEF Error
<1>2. \/ Fail(q) \/ Temporary(q) \/ NotInited(q) \/ MsgWait(q) \/ WaitForAuthorization(q)
      \/ \E d \in DCs : Migrate(q, d)
  BY <1>1 DEF OtherError, Unauthorized, FileIdInvalid
<1> QED BY <1>1, <1>2, FailTends, TemporaryTends, NotInitedTends, MsgWaitTends,
           WaitForAuthorizationTends, MigrateTends

\* Any step strands a request only in one of the known ways.
LEMMA StepTends ==
    ASSUME Registry, [Next]_vars
    PROVE  [\A r \in Stranded' \ Stranded : KnownLoss(r)]_vars
<1> SUFFICES ASSUME Next, NEW r \in Stranded', r \notin Stranded PROVE KnownLoss(r)
  OBVIOUS
<1>1. r \in Requests /\ Waiting(r)' /\ ~Tended(r)'
  BY DEF Stranded, Tended, WaitsAt
<1>2. Waiting(r) => Tended(r)
  BY <1>1 DEF Stranded, Tended, WaitsAt
<1>3. StaysTended(r)
  <2>1. CASE \E q \in Plain : SendRequest(q) \/ Cancel(q)
    BY <1>1, <2>1, SendRequestTends, CancelTends
  <2>2. CASE \E d \in DCs : SetMainDcId(d)
    BY <1>1, <2>2, SetMainDcIdTends
  <2>3. CASE \E q \in Requests : CheckDelayed(q) \/ Answer(q) \/ Error(q)
    BY <1>1, <2>3, CheckDelayedTends, AnswerTends, ErrorTends
  <2> QED BY <2>1, <2>2, <2>3 DEF Next
<1> QED BY <1>1, <1>2, <1>3 DEF StaysTended

\* Retries, dependencies, authorizations and changes of datacenter strand a request only where
\* the code is known to: whatever else comes, who waits for an answer is in a session, on the
\* timer, behind a request that has not ended, or waits for an authorization on its way.
THEOREM OnlyTheseAreLost ==
    Spec => OnlyKnownLosses
<1>1. Registry /\ [Next]_vars => [\A r \in Stranded' \ Stranded : KnownLoss(r)]_vars
  BY StepTends
<1> QED BY <1>1, RegistryHolds, PTL DEF Spec, OnlyKnownLosses, KnownLoss

=============================================================================
