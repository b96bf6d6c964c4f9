-------------------------- MODULE DcKeysCallsProofs --------------------------
(***************************************************************************)
(* Proofs about the calls DcKeys queues: CallsInvariant, and from it that   *)
(* the saved key is the one in use once the main thread has caught up       *)
(* (SavedKeyIsCurrent) and that no waiting session is forgotten             *)
(* (NoLostWakeup).                                                          *)
(*                                                                         *)
(* Each of the four conjuncts that CallsInvariant adds to KeyInvariant has  *)
(* a lemma for the handlers that do not touch what it is about, and a       *)
(* proof for the few that do.                                               *)
(***************************************************************************)
EXTENDS DcKeysProofs

-----------------------------------------------------------------------------
(* The main thread's queue                                                 *)

\* Calls are appended at the end ...
LEMMA QueueAppend ==
    ASSUME TypeOK, NEW e, queue' = Append(queue, e)
    PROVE  /\ Len(queue) \in Nat /\ DOMAIN queue = 1..Len(queue)
           /\ DOMAIN queue' = 1..(Len(queue) + 1)
           /\ \A i \in DOMAIN queue : i \in DOMAIN queue' /\ queue'[i] = queue[i]
           /\ queue'[Len(queue) + 1] = e
  BY AppendProperties, LenProperties DEF TypeOK

\* ... and taken at the front.
LEMMA QueueTail ==
    ASSUME TypeOK, queue # <<>>, queue' = Tail(queue)
    PROVE  /\ Len(queue) \in Nat /\ DOMAIN queue = 1..Len(queue) /\ 1 \in DOMAIN queue
           /\ DOMAIN queue' = 1..(Len(queue) - 1)
           /\ \A i \in DOMAIN queue' : i + 1 \in DOMAIN queue /\ queue'[i] = queue[i + 1]
           /\ Head(queue) = queue[1]
  BY HeadTailProperties, EmptySeq, LenProperties DEF TypeOK

\* Every queued call is a KeyEvent.
LEMMA QueueEvents ==
    ASSUME TypeOK, NEW i \in DOMAIN queue
    PROVE  /\ queue[i].kind \in {"temporary", "persistent", "destroyed"}
           /\ queue[i].kind # "temporary" => queue[i].key \in PersistentKeys
<1>1. queue[i] \in KeyEvents
  BY ElementOfSeq, LenProperties DEF TypeOK
<1> QED BY <1>1 DEF KeyEvents

\* The calls that name a persistent key are those queued before, or fewer.
NoNewCalls ==
    \A i \in DOMAIN queue' : queue'[i].kind # "temporary" =>
        \E j \in DOMAIN queue : queue[j] = queue'[i]

\* No call that is not "destroyed" is taken from the queue.
KeepsNews ==
    (\E i \in DOMAIN queue : queue[i].kind # "destroyed")
    => (\E i \in DOMAIN queue' : queue'[i].kind # "destroyed")

\* A call with a temporary key, or none, keeps SavedKeyFollows, ...
LEMMA QuietQueue ==
    ASSUME TypeOK, SavedKeyFollows,
           UNCHANGED queue \/ queue' = Append(queue, [kind |-> "temporary"]),
           UNCHANGED <<persistentKey, keysForWrite>>
    PROVE  SavedKeyFollows' /\ NoNewCalls /\ KeepsNews
<1>1. CASE UNCHANGED queue
  BY <1>1 DEF SavedKeyFollows, NoNewCalls, KeepsNews
<1>2. CASE queue' = Append(queue, [kind |-> "temporary"])
  <2> DEFINE e == [kind |-> "temporary"]
  <2>1. /\ Len(queue) \in Nat /\ DOMAIN queue = 1..Len(queue)
        /\ DOMAIN queue' = 1..(Len(queue) + 1)
        /\ \A i \in DOMAIN queue : i \in DOMAIN queue' /\ queue'[i] = queue[i]
        /\ queue'[Len(queue) + 1] = e
    BY <1>2, QueueAppend
  <2>2. e.kind = "temporary"
    OBVIOUS
  <2> HIDE DEF e
  <2>3. \A i \in DOMAIN queue' : queue'[i].kind # "temporary" =>
            i \in DOMAIN queue /\ queue'[i] = queue[i]
    BY <2>1, <2>2
  <2>4. SavedKeyFollows'
    BY <2>1, <2>3 DEF SavedKeyFollows
  <2> QED BY <2>1, <2>3, <2>4 DEF NoNewCalls, KeepsNews
<1> QED BY <1>1, <1>2

\* ... and so does one that says a key is destroyed.
LEMMA DestroyedQueue ==
    ASSUME TypeOK, SavedKeyFollows, NEW key \in PersistentKeys,
           queue' = Append(queue, [kind |-> "destroyed", key |-> key]),
           UNCHANGED <<persistentKey, keysForWrite>>
    PROVE  /\ SavedKeyFollows' /\ KeepsNews
           /\ \A i \in DOMAIN queue' : queue'[i].kind # "temporary" =>
                queue'[i].key = key \/ \E j \in DOMAIN queue : queue[j] = queue'[i]
<1> DEFINE e == [kind |-> "destroyed", key |-> key]
<1>1. /\ Len(queue) \in Nat /\ DOMAIN queue = 1..Len(queue)
      /\ DOMAIN queue' = 1..(Len(queue) + 1)
      /\ \A i \in DOMAIN queue : i \in DOMAIN queue' /\ queue'[i] = queue[i]
      /\ queue'[Len(queue) + 1] = e
  BY QueueAppend
<1>2. e.kind = "destroyed" /\ e.key = key
  OBVIOUS
<1> HIDE DEF e
<1>3. \A i \in DOMAIN queue' :
          \/ i \in DOMAIN queue /\ queue'[i] = queue[i]
          \/ i = Len(queue) + 1 /\ queue'[i].kind = "destroyed" /\ queue'[i].key = key
  BY <1>1, <1>2
<1>4. SavedKeyFollows'
  <2>1. ASSUME \A i \in DOMAIN queue' : queue'[i].kind # "persistent"
        PROVE  keysForWrite = persistentKey
    BY <1>1, <2>1 DEF SavedKeyFollows
  <2>2. ASSUME NEW i \in DOMAIN queue', NEW j \in DOMAIN queue', queue'[i].kind = "persistent"
        PROVE  /\ queue'[i].key = persistentKey
               /\ j < i /\ queue'[j].kind = "destroyed" => queue'[j].key # persistentKey
    <3>1. i \in DOMAIN queue /\ queue'[i] = queue[i]
      BY <1>3, <2>2
    <3>2. j < i => j \in DOMAIN queue /\ queue'[j] = queue[j]
      BY <1>1, <3>1
    <3> QED BY <2>2, <3>1, <3>2 DEF SavedKeyFollows
  <2> QED BY <2>1, <2>2 DEF SavedKeyFollows
<1> QED BY <1>1, <1>3, <1>4 DEF KeepsNews

-----------------------------------------------------------------------------
(* NewKeyUnheard                                                           *)

\* A step of s that makes q of its SessionPrivate, queues no call with a
\* persistent key and takes no new one leaves every new key unheard of.
LEMMA KeepsUnheard ==
    ASSUME CallsInvariant, NEW s \in Sessions, NEW q \in Privates, SetPrivate(s, q),
           NoNewCalls,
           \A u \in Sessions : u # s => myKeyCreation'[u] = myKeyCreation[u],
           q.binder \in {priv[s].binder, NoKey},
           q.creator = "bound" /\ myKeyCreation'[s] = "Persistent" =>
               /\ priv[s].creator = "bound" /\ myKeyCreation[s] = "Persistent"
               /\ q.binder = priv[s].binder
               /\ q.place = "idle" => priv[s].place = "idle"
    PROVE  NewKeyUnheard'
<1> USE DEF CallsInvariant, KeyInvariant
<1>1. /\ priv'[s] = q
      /\ \A t \in Sessions : t # s => priv'[t] = priv[t]
  BY DEF SetPrivate, TypeOK
<1> SUFFICES ASSUME NEW u \in Sessions,
                    myKeyCreation'[u] = "Persistent", priv'[u].creator = "bound"
             PROVE  /\ \A t \in Sessions \ {u} : priv'[t].binder # priv'[u].binder
                    /\ priv'[u].place = "idle" =>
                         \A i \in DOMAIN queue' : queue'[i].kind # "temporary" =>
                             queue'[i].key # priv'[u].binder
  BY DEF NewKeyUnheard
<1>2. /\ myKeyCreation[u] = "Persistent" /\ priv[u].creator = "bound"
      /\ priv'[u].binder = priv[u].binder
      /\ priv'[u].place = "idle" => priv[u].place = "idle"
  BY <1>1
<1>3. priv[u].binder # NoKey
  BY <1>2, KeysAssumption DEF BoundKeyPrivate
<1>4. \A t \in Sessions \ {u} : priv[t].binder # priv[u].binder
  BY <1>2 DEF NewKeyUnheard
<1>5. \A t \in Sessions \ {u} : priv'[t].binder # priv'[u].binder
  BY <1>1, <1>2, <1>3, <1>4
<1>6. ASSUME priv'[u].place = "idle", NEW i \in DOMAIN queue', queue'[i].kind # "temporary"
      PROVE  queue'[i].key # priv'[u].binder
  BY <1>2, <1>6 DEF NewKeyUnheard, NoNewCalls
<1> QED BY <1>5, <1>6

\* A fresh persistent key is not known to the Dcenter, to a session or to the
\* main thread.
LEMMA FreshUnheard ==
    ASSUME TypeOK, NEW key \in FreshPersistent
    PROVE  /\ key \in PersistentKeys /\ key # persistentKey
           /\ \A t \in Sessions : priv[t].binder # key
           /\ \A i \in DOMAIN queue : queue[i].kind # "temporary" => queue[i].key # key
<1>1. key \in PersistentKeys /\ key \notin UsedPersistent
  BY DEF FreshPersistent
<1>2. /\ key # persistentKey
      /\ \A t \in Sessions : priv[t].binder # key
      /\ \A e \in {queue[i] : i \in {j \in DOMAIN queue : queue[j].kind # "temporary"}} :
           e.key # key
  BY <1>1 DEF UsedPersistent
<1> QED BY <1>1, <1>2

-----------------------------------------------------------------------------
(* ListenersHear                                                           *)

\* A SessionPrivate that looks for a key.
Listens(p) == /\ p.conn = "up" /\ p.keyId = NoKey /\ p.creator = "none"
              /\ p.place \in {"idle", "noMediaKey", "acquire"}

LEMMA ListeningIs == \A s : Listening(s) <=> phase[s] = "running" /\ Listens(priv[s])
  BY DEF Listening, Listens, Creating

\* A step of s that makes q of its SessionPrivate: either it does not look for
\* a key that is there, or it did before and its calls are still there.
LEMMA SessionHears ==
    ASSUME CallsInvariant, NEW s \in Sessions, NEW q \in Privates, SetPrivate(s, q), KeepsNews,
           \A u \in Sessions : u # s => phase'[u] = phase[u] /\ pending'[u] = pending[u],
           LosesKeys,
           phase'[s] = "running" /\ Listens(q) =>
             \/ temporaryKeys'[KeyType(q.currentDcType)] = NoKey
             \/ /\ phase[s] = "running" /\ Listens(priv[s]) /\ pending'[s] = pending[s]
                /\ KeyType(q.currentDcType) = KeyType(priv[s].currentDcType)
    PROVE  ListenersHear'
<1> USE DEF CallsInvariant, KeyInvariant
<1>1. /\ priv'[s] = q
      /\ \A t \in Sessions : t # s => priv'[t] = priv[t]
  BY DEF SetPrivate, TypeOK
<1>2. \A d : KeyType(d) \in Clusters
  BY DEF KeyType, Clusters
<1> SUFFICES ASSUME NEW u \in Sessions, phase'[u] = "running", Listens(priv'[u]),
                    temporaryKeys'[KeyType(priv'[u].currentDcType)] # NoKey
             PROVE  NewsOnItsWay(u)'
  BY DEF ListenersHear, Listening, Listens, Creating
<1>3. /\ Listening(u) /\ pending'[u] = pending[u]
      /\ KeyType(priv'[u].currentDcType) = KeyType(priv[u].currentDcType)
  BY <1>1, ListeningIs
<1>4. temporaryKeys[KeyType(priv[u].currentDcType)] # NoKey
  BY <1>2, <1>3 DEF LosesKeys
<1>5. NewsOnItsWay(u)
  BY <1>3, <1>4 DEF ListenersHear
<1> QED BY <1>3, <1>5 DEF NewsOnItsWay, KeepsNews

-----------------------------------------------------------------------------
(* The handlers that queue no call with a persistent key and make no key    *)

CallsRest == SavedKeyFollows /\ NewKeyUnheard /\ CdnStays /\ ListenersHear

\* What a handler of s that makes q of its SessionPrivate owes.
Discreet(s, q) ==
    /\ q \in Privates /\ SetPrivate(s, q)
    /\ UNCHANGED queue \/ queue' = Append(queue, [kind |-> "temporary"])
    /\ UNCHANGED <<persistentKey, keysForWrite>>
    /\ LosesKeys
    /\ \A u \in Sessions : u # s =>
         phase'[u] = phase[u] /\ pending'[u] = pending[u] /\ myKeyCreation'[u] = myKeyCreation[u]
    /\ q.binder \in {priv[s].binder, NoKey}
    /\ q.creator = "bound" /\ myKeyCreation'[s] = "Persistent" =>
         /\ priv[s].creator = "bound" /\ myKeyCreation[s] = "Persistent"
         /\ q.binder = priv[s].binder
         /\ q.place = "idle" => priv[s].place = "idle"
    /\ IsCdn => q.currentDcType = "Cdn" /\ myKeyCreation'[s] \in {"None", "TemporaryRegular"}
    /\ phase'[s] = "running" /\ Listens(q) =>
         \/ temporaryKeys'[KeyType(q.currentDcType)] = NoKey
         \/ /\ phase[s] = "running" /\ Listens(priv[s]) /\ pending'[s] = pending[s]
            /\ KeyType(q.currentDcType) = KeyType(priv[s].currentDcType)

\* Such a handler keeps the four.
LEMMA DiscreetStep ==
    ASSUME CallsInvariant, NEW s \in Sessions, NEW q, Discreet(s, q)
    PROVE  CallsRest'
<1> USE DEF CallsInvariant, KeyInvariant
<1>1. SavedKeyFollows' /\ NoNewCalls /\ KeepsNews
  BY QuietQueue DEF Discreet
<1>2. NewKeyUnheard'
  BY <1>1, KeepsUnheard DEF Discreet
<1>3. ListenersHear'
  BY <1>1, SessionHears DEF Discreet
<1>4. CdnStays'
  <2>1. /\ priv'[s] = q
        /\ \A t \in Sessions : t # s => priv'[t] = priv[t]
    BY DEF SetPrivate, TypeOK, Discreet
  <2> QED BY <2>1 DEF CdnStays, Discreet
<1> QED BY <1>1, <1>2, <1>3, <1>4 DEF CallsRest

\* Handlers that end without a connection to listen on, or leave what they
\* listen for as it is.
LEMMA DiscreetHandlers ==
    ASSUME CallsInvariant, NEW s \in Sessions,
           \/ ConnectAfterTypeChange(s) \/ RestartNow(s) \/ ConnectionLost(s)
           \/ SendBindRequest(s) \/ BindFailed(s) \/ KeyNotFound(s) \/ PermanentKeyEmpty(s)
           \/ ServerFailsBind(s) \/ ServerAnswersBind(s) \/ DestroyTemporaryKey(s)
    PROVE  \E q : Discreet(s, q)
<1> USE DEF CallsInvariant, KeyInvariant, dcVars, mainVars, serverVars, Idle, Owned
<1> DEFINE p == priv[s]
<1>p. /\ p \in Privates /\ (p.creator = "bound" => p.keyId # NoKey)
      /\ IsCdn => p.currentDcType = "Cdn" /\ myKeyCreation[s] \in {"None", "TemporaryRegular"}
  BY KeysAssumption DEF TypeOK, BoundKeyPrivate, CdnStays
<1>f. \A u \in Sessions : u # s =>
        \A c : [pending EXCEPT ![s] = c][u] = pending[u]
  BY DEF TypeOK
<1>1. CASE ConnectAfterTypeChange(s)
  <2> DEFINE q == [p EXCEPT !.realDcType = DcType(s), !.place = "release"]
  <2> SUFFICES Discreet(s, q)
    OBVIOUS
  <2> QED BY <1>1, <1>p, DcTypeType DEF ConnectAfterTypeChange, Discreet, Privates, Places,
             LosesKeys, Listens
<1>2. CASE RestartNow(s) \/ ConnectionLost(s)
  <2> DEFINE q == Disconnected(p)
  <2> SUFFICES Discreet(s, q)
    OBVIOUS
  <2>1. /\ q \in Privates /\ q.conn = "down" /\ q.binder = p.binder /\ q.place = p.place
        /\ q.creator = "bound" => p.creator = "bound"
        /\ q.currentDcType = p.currentDcType
    BY <1>p DEF Disconnected, Privates
  <2>2. SetPrivate(s, q)
    BY <1>2 DEF RestartNow, ConnectionLost
  <2> HIDE DEF q, p
  <2> QED BY ZenonT(30), <1>2, <1>p, <1>f, <2>1, <2>2 DEF p, RestartNow, ConnectionLost, Discreet, LosesKeys, Listens
<1>3. CASE SendBindRequest(s) \/ BindFailed(s) \/ ServerFailsBind(s) \/ ServerAnswersBind(s)
  <2>1. PICK b \in {"none", "sent", "ok", "destroyed", "failed"} : SetPrivate(s, [p EXCEPT !.bind = b])
    BY <1>3 DEF SendBindRequest, BindFailed, ServerFailsBind, ServerAnswersBind
  <2> DEFINE q == [p EXCEPT !.bind = b]
  <2> SUFFICES Discreet(s, q)
    OBVIOUS
  <2>2. /\ q \in Privates /\ q.binder = p.binder /\ q.place = p.place /\ q.creator = p.creator
        /\ q.currentDcType = p.currentDcType /\ q.keyId = p.keyId /\ q.conn = p.conn
    BY <1>p DEF Privates
  <2>3. /\ SetPrivate(s, q)
        /\ UNCHANGED <<dcVars, mainVars, phase, myKeyCreation, pending>>
    BY <1>3, <2>1 DEF SendBindRequest, BindFailed, ServerFailsBind, ServerAnswersBind
  <2> HIDE DEF q, p
  <2> QED BY <1>p, <2>2, <2>3 DEF p, Discreet, LosesKeys, Listens
<1>4. CASE KeyNotFound(s)
  <2> DEFINE q == [Disconnected(p) EXCEPT !.place = "release"]
  <2> SUFFICES Discreet(s, q)
    OBVIOUS
  <2>1. /\ q \in Privates /\ q.conn = "down" /\ q.binder = p.binder /\ q.place = "release"
        /\ q.creator = "bound" => p.creator = "bound"
        /\ q.currentDcType = p.currentDcType
    BY ZenonT(30), <1>p DEF Disconnected, Privates, Places
  <2>2. SetPrivate(s, q)
    BY <1>4 DEF KeyNotFound
  <2> HIDE DEF q, p
  <2> QED BY <1>4, <1>p, <2>1, <2>2 DEF p, KeyNotFound, Discreet, LosesKeys, Listens
<1>5. CASE PermanentKeyEmpty(s)
  <2> DEFINE q == [p EXCEPT !.place = "release"]
  <2> SUFFICES Discreet(s, q)
    OBVIOUS
  <2> QED BY <1>5, <1>p DEF PermanentKeyEmpty, Discreet, Privates, Places, LosesKeys, Listens
<1>6. CASE DestroyTemporaryKey(s)
  <2> DEFINE q == Disconnected([p EXCEPT !.keyId = NoKey, !.place = "idle"])
  <2> SUFFICES Discreet(s, q)
    OBVIOUS
  <2>1. /\ q \in Privates /\ q.conn = "down" /\ q.binder = p.binder
        /\ q.creator # "bound" /\ q.currentDcType = p.currentDcType
    BY ZenonT(30), <1>6, <1>p DEF Disconnected, Privates, Places, DestroyTemporaryKey, ClaimsEnd, Creating
  <2>2. SetPrivate(s, q)
    BY <1>6 DEF DestroyTemporaryKey
  <2> HIDE DEF q, p
  <2> QED BY <1>6, <1>p, <2>1, <2>2 DEF p, DestroyTemporaryKey, Discreet, LosesKeys, Listens
<1> QED BY <1>1, <1>2, <1>3, <1>4, <1>5, <1>6

\* Handlers that look for the key: they find it, or it is not there.
LEMMA LookingHandlers ==
    ASSUME CallsInvariant, NEW s \in Sessions,
           OnConnected(s) \/ UpdateAuthKey(s) \/ CheckRegularKey(s)
    PROVE  \E q : Discreet(s, q)
<1> USE DEF CallsInvariant, KeyInvariant, dcVars, mainVars, serverVars, Idle, Owned
<1> DEFINE p == priv[s]
           key == temporaryKeys[KeyType(p.currentDcType)]
<1>p. /\ p \in Privates /\ (p.creator = "bound" => p.keyId # NoKey)
      /\ IsCdn => p.currentDcType = "Cdn" /\ myKeyCreation[s] \in {"None", "TemporaryRegular"}
  BY KeysAssumption DEF TypeOK, BoundKeyPrivate, CdnStays
<1>k. key \in TemporaryKeys \cup {NoKey}
  BY DEF TypeOK, KeyType, Clusters
<1>f. \A u \in Sessions : u # s =>
        \A c : [pending EXCEPT ![s] = c][u] = pending[u]
  BY DEF TypeOK
\* applyAuthKey on a connection without a key.
<1>a. ASSUME NEW u \in Privates, u.conn = "up", u.keyId = NoKey, u.place = "idle",
             u.creator = p.creator, u.binder = p.binder, u.currentDcType = p.currentDcType
      PROVE  LET q == ApplyFirstKey(u, key)
             IN  /\ q \in Privates /\ q.binder = p.binder /\ q.currentDcType = p.currentDcType
                 /\ (q.creator = "bound" => p.creator = "bound")
                 /\ (key # NoKey => q.keyId # NoKey)
  <2>1. CASE key # NoKey
    BY <1>a, <1>k, <2>1 DEF ApplyFirstKey, Privates
  <2>2. CASE key = NoKey /\ KeyType(u.currentDcType) = "MediaCluster"
    BY <1>a, <2>2 DEF ApplyFirstKey, Privates, Places
  <2>3. CASE key = NoKey /\ KeyType(u.currentDcType) # "MediaCluster"
    BY <1>a, <2>3 DEF ApplyFirstKey, StartCreator, Privates, Places
  <2> QED BY <2>1, <2>2, <2>3
<1>1. CASE OnConnected(s)
  <2> DEFINE u == [p EXCEPT !.conn = "up"]
             q == IF u.keyId # NoKey THEN u ELSE ApplyFirstKey(u, key)
  <2> SUFFICES Discreet(s, q)
    OBVIOUS
  <2>1. /\ u \in Privates /\ u.conn = "up" /\ u.place = "idle" /\ u.creator = p.creator
        /\ u.binder = p.binder /\ u.currentDcType = p.currentDcType /\ u.keyId = p.keyId
    BY <1>1, <1>p DEF OnConnected, Privates
  <2>2. SetPrivate(s, q)
    BY <1>1, <2>1 DEF OnConnected
  <2>3. /\ q \in Privates /\ q.binder = p.binder /\ q.currentDcType = p.currentDcType
        /\ (q.creator = "bound" => p.creator = "bound")
        /\ (key # NoKey => q.keyId # NoKey)
    <3> HIDE DEF u
    <3> QED BY <1>a, <2>1
  <2> HIDE DEF q
  <2> QED BY <1>1, <1>p, <2>2, <2>3 DEF OnConnected, Discreet, LosesKeys, Listens
<1>2. CASE UpdateAuthKey(s)
  <2>0. /\ UNCHANGED <<dcVars, mainVars, phase, myKeyCreation>>
        /\ \A u \in Sessions : u # s => pending'[u] = pending[u]
        /\ p.place = "idle"
    BY <1>2, <1>f DEF UpdateAuthKey
  <2>1. CASE /\ SetPrivate(s, p)
             /\ Creating(s) \/ p.conn # "up" \/ p.keyId # NoKey
    <3> SUFFICES Discreet(s, p)
      OBVIOUS
    <3> QED BY <1>p, <2>0, <2>1 DEF Discreet, LosesKeys, Listens, Creating
  <2>2. CASE ~Creating(s) /\ p.conn = "up" /\ p.keyId = NoKey /\ SetPrivate(s, ApplyFirstKey(p, key))
    <3> DEFINE q == ApplyFirstKey(p, key)
    <3> SUFFICES Discreet(s, q)
      OBVIOUS
    <3>1. /\ q \in Privates /\ q.binder = p.binder /\ q.currentDcType = p.currentDcType
          /\ (q.creator = "bound" => p.creator = "bound")
          /\ (key # NoKey => q.keyId # NoKey)
      BY <1>a, <1>p, <2>0, <2>2
    <3> HIDE DEF q
    <3> QED BY <1>p, <2>0, <2>2, <3>1 DEF q, Discreet, LosesKeys, Listens
  <2>3. CASE SetPrivate(s, Disconnected([p EXCEPT !.keyId = NoKey])) /\ ~Creating(s)
    <3> DEFINE q == Disconnected([p EXCEPT !.keyId = NoKey])
    <3> SUFFICES Discreet(s, q)
      OBVIOUS
    <3>1. /\ q \in Privates /\ q.binder = p.binder /\ q.currentDcType = p.currentDcType
          /\ q.creator # "bound" /\ q.conn = "down"
      BY <1>p, <2>3 DEF Disconnected, Privates, Creating
    <3> HIDE DEF q
    <3> QED BY <1>p, <2>0, <2>3, <3>1 DEF q, Discreet, LosesKeys, Listens
  <2> QED BY <1>2, <2>1, <2>2, <2>3 DEF UpdateAuthKey
<1>3. CASE CheckRegularKey(s)
  <2> DEFINE q == IF temporaryKeys["Regular"] # NoKey THEN [p EXCEPT !.place = "acquire"]
                  ELSE StartCreator(p)
  <2> SUFFICES Discreet(s, q)
    OBVIOUS
  <2>1. /\ q \in Privates /\ q.binder = p.binder /\ q.currentDcType = p.currentDcType
        /\ (q.creator = "bound" => p.creator = "bound") /\ (q.creator = "none" <=> p.creator = "none")
        /\ q.keyId = p.keyId /\ q.conn = p.conn
    BY <1>3, <1>p DEF CheckRegularKey, StartCreator, Privates, Places
  <2>2. p.creator # "bound" /\ p.place = "noMediaKey"
    BY <1>3, <1>p DEF CheckRegularKey, StartedUnkeyed
  <2>3. SetPrivate(s, q)
    BY <1>3 DEF CheckRegularKey
  <2> HIDE DEF q
  <2> QED BY <1>3, <1>p, <2>1, <2>2, <2>3 DEF CheckRegularKey, Discreet, LosesKeys, Listens
<1> QED BY <1>1, <1>2, <1>3

\* Handlers that may acquire the creation of a key: a CDN session acquires
\* "TemporaryRegular" or nothing, and none of them listens on with a key there.
LEMMA AcquiringHandlers ==
    ASSUME CallsInvariant, NEW s \in Sessions, ConnectToServer(s) \/ AcquireMediaKey(s)
    PROVE  \E q : Discreet(s, q)
<1> USE DEF CallsInvariant, KeyInvariant, dcVars, mainVars, serverVars, Idle, Owned
<1> DEFINE p == priv[s]
<1>p. /\ p \in Privates /\ (p.creator = "bound" => p.keyId # NoKey)
      /\ IsCdn => /\ p.currentDcType = "Cdn" /\ p.realDcType = "Cdn" /\ DcType(s) = "Cdn"
                  /\ myKeyCreation[s] \in {"None", "TemporaryRegular"}
  BY KeysAssumption DEF TypeOK, BoundKeyPrivate, CdnStays, PersistentClaim, DcType
<1>t. ASSUME NEW acquired, TakeKeyCreation(s, acquired)
      PROVE  /\ \A u \in Sessions : u # s => myKeyCreation'[u] = myKeyCreation[u]
             /\ myKeyCreation'[s] = IF acquired = "None" THEN myKeyCreation[s] ELSE acquired
  BY <1>t DEF TakeKeyCreation, TypeOK
<1>1. CASE ConnectToServer(s)
  <2> DEFINE u == [p EXCEPT !.realDcType = DcType(s)]
             acquired == Acquirable(s, u)
             current == AcquiredDcType(u, acquired)
             v == [u EXCEPT !.currentDcType = current,
                            !.creator = IF acquired = "None" THEN @ ELSE "idle"]
             q == IF current = "Cdn" /\ ~options.cdnKeys THEN v
                  ELSE [v EXCEPT !.conn = "testing", !.bind = "none"]
  <2> SUFFICES Discreet(s, q)
    OBVIOUS
  <2>1. /\ u \in Privates /\ u.realDcType = DcType(s) /\ u.creator = p.creator
        /\ u.currentDcType = p.currentDcType /\ u.binder = p.binder /\ u.keyId = p.keyId
        /\ u.conn = p.conn /\ u.place = p.place
    BY <1>p, DcTypeType DEF Privates
  <2>2. acquired \in CreatingTypes /\ current \in DcTypes
    BY <2>1, AcquirableType
  <2>3. IsCdn => current = "Cdn" /\ acquired \in {"None", "TemporaryRegular"}
    BY <1>p, <2>1 DEF AcquiredDcType, Acquirable, AcquireKeyCreation
  <2>4. acquired # "None" => p.creator = "none"
    BY <2>1 DEF Acquirable
  <2> HIDE DEF u, acquired, current
  <2>5. /\ v \in Privates /\ v.binder = p.binder /\ v.currentDcType = current
        /\ v.creator = (IF acquired = "None" THEN p.creator ELSE "idle")
        /\ v.conn = p.conn /\ v.place = p.place
    BY <2>1, <2>2 DEF Privates
  <2> HIDE DEF v
  <2>6. /\ q \in Privates /\ q.binder = p.binder /\ q.currentDcType = current
        /\ q.creator = (IF acquired = "None" THEN p.creator ELSE "idle")
        /\ q.conn # "up" /\ q.place = p.place
    BY <1>1, <2>5 DEF Privates, ConnectToServer
  <2>7. SetPrivate(s, q) /\ TakeKeyCreation(s, acquired)
    BY <1>1 DEF ConnectToServer, u, v, acquired, current
  <2> HIDE DEF q, p
  <2> QED BY <1>1, <1>p, <1>t, <2>3, <2>4, <2>6, <2>7 DEF p, ConnectToServer, Discreet, LosesKeys, Listens
<1>2. CASE AcquireMediaKey(s)
  <2> DEFINE acquired == Acquirable(s, p)
             v == [p EXCEPT !.creator = IF acquired = "None" THEN @ ELSE "idle"]
             w == Disconnected([v EXCEPT !.place = "idle"])
  <2>0. p.place = "acquire" /\ p.keyId = NoKey /\ p.creator # "bound"
    BY <1>2, <1>p DEF AcquireMediaKey, StartedUnkeyed
  <2>1. acquired \in CreatingTypes
    BY <1>p, AcquirableType
  <2>2. IsCdn => acquired \in {"None", "TemporaryRegular"}
    BY <1>p DEF Acquirable, AcquireKeyCreation
  <2>3. acquired # "None" => p.creator = "none"
    BY DEF Acquirable
  <2>4. TakeKeyCreation(s, acquired) /\ (SetPrivate(s, w) \/ SetPrivate(s, StartCreator(v)))
    BY <1>2 DEF AcquireMediaKey
  <2> HIDE DEF acquired
  <2>5. /\ v \in Privates /\ v.binder = p.binder /\ v.currentDcType = p.currentDcType
        /\ v.creator = (IF acquired = "None" THEN p.creator ELSE "idle")
        /\ v.keyId = p.keyId /\ v.conn = p.conn /\ v.place = p.place
    BY <1>p DEF Privates
  <2> HIDE DEF v
  <2>6. /\ w \in Privates /\ w.binder = p.binder /\ w.currentDcType = p.currentDcType
        /\ w.creator # "bound" /\ w.conn = "down"
    BY ZenonT(30), <2>0, <2>5 DEF Disconnected, Privates, Places
  <2> DEFINE q == StartCreator(v)
  <2>7. /\ q \in Privates /\ q.binder = p.binder /\ q.currentDcType = p.currentDcType
        /\ q.creator # "bound" /\ q.keyId = p.keyId /\ q.conn = p.conn
        /\ q.creator = "none" => p.creator = "none"
    BY ZenonT(30), <2>0, <2>5 DEF StartCreator, Privates, Places
  <2> HIDE DEF p, w, q
  <2>8. CASE SetPrivate(s, w)
    <3> SUFFICES Discreet(s, w)
      OBVIOUS
    <3> QED BY <1>2, <1>p, <1>t, <2>2, <2>4, <2>6, <2>8 DEF p, AcquireMediaKey, Discreet, LosesKeys, Listens
  <2>9. CASE SetPrivate(s, q)
    <3> SUFFICES Discreet(s, q)
      OBVIOUS
    <3> QED BY <1>2, <1>p, <1>t, <2>0, <2>2, <2>4, <2>7, <2>9 DEF p, AcquireMediaKey, Discreet, LosesKeys, Listens
  <2> QED BY <2>4, <2>8, <2>9 DEF q
<1> QED BY <1>1, <1>2

\* What releaseKeyCreationOnFail does to the claims.
LEMMA FailReleases ==
    ASSUME KeyInvariant, NEW s \in Sessions, Owned(s), ReleaseKeyCreationOnFail(s)
    PROVE  /\ myKeyCreation'[s] = "None"
           /\ \A u \in Sessions : u # s => myKeyCreation'[u] = myKeyCreation[u]
  BY DEF KeyInvariant, ReleaseKeyCreationOnFail, TypeOK, CreatorHoldsClaim

\* A CDN session that fails to create the key still finds it missing.
LEMMA FailingHandlers ==
    ASSUME CallsInvariant, NEW s \in Sessions, UnboundFailed(s) \/ ReleaseBeforeDestroy(s)
    PROVE  \E q : Discreet(s, q)
<1> USE DEF CallsInvariant, KeyInvariant, dcVars, mainVars, serverVars, Idle
<1> DEFINE p == priv[s]
           u == NoCreator(p)
<1>p. p \in Privates /\ (IsCdn => p.currentDcType = "Cdn")
  BY DEF TypeOK, CdnStays
<1>m. /\ myKeyCreation'[s] = "None"
      /\ \A t \in Sessions : t # s => myKeyCreation'[t] = myKeyCreation[t]
  BY FailReleases DEF UnboundFailed, ReleaseBeforeDestroy, Owned
<1>u. /\ u \in Privates /\ u.creator = "none" /\ u.binder = NoKey
      /\ u.currentDcType = p.currentDcType /\ u.place = p.place
  BY <1>p DEF NoCreator, Privates
<1> HIDE DEF u
<1>1. CASE UnboundFailed(s) /\ SetPrivate(s, Disconnected(u))
  <2> DEFINE q == Disconnected(u)
  <2> SUFFICES Discreet(s, q)
    OBVIOUS
  <2>1. /\ q \in Privates /\ q.conn = "down" /\ q.binder = NoKey /\ q.creator = "none"
        /\ q.currentDcType = p.currentDcType
    BY <1>u DEF Disconnected, Privates
  <2> HIDE DEF q
  <2> QED BY <1>1, <1>p, <1>m, <2>1 DEF q, UnboundFailed, Discreet, LosesKeys, Listens
<1>2. CASE UnboundFailed(s) /\ IsCdn /\ SetPrivate(s, u)
  <2> SUFFICES Discreet(s, u)
    OBVIOUS
  <2>1. myKeyCreation[s] = "TemporaryRegular"
    BY <1>2 DEF UnboundFailed, CreatorHoldsClaim, CdnStays, Creating
  <2>2. temporaryKeys["Regular"] = NoKey
    BY <2>1 DEF CreationExclusive, IndexByType
  <2>3. KeyType(u.currentDcType) = "Regular"
    BY <1>2, <1>p, <1>u DEF KeyType
  <2> QED BY <1>2, <1>p, <1>m, <1>u, <2>2, <2>3 DEF UnboundFailed, Discreet, LosesKeys, Listens
<1>3. CASE ReleaseBeforeDestroy(s)
  <2> DEFINE q == [u EXCEPT !.place = "destroy"]
  <2> SUFFICES Discreet(s, q)
    OBVIOUS
  <2>1. /\ q \in Privates /\ q.place = "destroy" /\ q.binder = NoKey /\ q.creator = "none"
        /\ q.currentDcType = p.currentDcType
    BY <1>u DEF Privates, Places
  <2>2. SetPrivate(s, q)
    BY <1>3 DEF ReleaseBeforeDestroy, u
  <2> HIDE DEF q
  <2> QED BY <1>3, <1>p, <1>m, <2>1, <2>2 DEF ReleaseBeforeDestroy, Discreet, LosesKeys, Listens
<1> QED BY <1>1, <1>2, <1>3 DEF UnboundFailed, u

\* A new SessionPrivate has no connection yet.
LEMMA LifeHandlers ==
    ASSUME CallsInvariant, NEW s \in Sessions,
           PrivateDeleted(s) \/ Resume(s) \/ Kill(s) \/ StartSession(s)
    PROVE  \E q : Discreet(s, q)
<1> USE DEF CallsInvariant, KeyInvariant, dcVars, mainVars, serverVars
<1> DEFINE q == InitPrivate(DcType(s))
<1> SUFFICES Discreet(s, q)
  OBVIOUS
<1>1. /\ q \in Privates /\ q.conn = "down" /\ q.binder = NoKey /\ q.creator = "none"
      /\ q.currentDcType = DcType(s)
  BY DcTypeType, InitPrivateType DEF InitPrivate
<1>2. IsCdn => DcType(s) = "Cdn" /\ myKeyCreation[s] \in {"None", "TemporaryRegular"}
  BY DEF DcType, CdnStays
<1>3. /\ SetPrivate(s, q)
      /\ \A u \in Sessions : u # s => phase'[u] = phase[u] /\ pending'[u] = pending[u]
      /\ UNCHANGED <<persistentKey, temporaryKeys, mainVars>>
  BY DEF PrivateDeleted, Resume, Kill, StartSession, TypeOK
<1>4. /\ \A u \in Sessions : u # s => myKeyCreation'[u] = myKeyCreation[u]
      /\ myKeyCreation'[s] \in {myKeyCreation[s], "None"}
  <2>1. CASE PrivateDeleted(s)
    BY <2>1, FailReleases DEF PrivateDeleted, Owned
  <2>2. CASE Resume(s) \/ Kill(s) \/ StartSession(s)
    BY <2>2 DEF Resume, Kill, StartSession
  <2> QED BY <2>1, <2>2
<1> HIDE DEF q
<1> QED BY <1>1, <1>2, <1>3, <1>4 DEF Discreet, LosesKeys, Listens

\* The end of a Session's life leaves its SessionPrivate alone.
LEMMA StopSteps ==
    ASSUME CallsInvariant, NEW s \in Sessions, Stop(s) \/ SessionDestroyed(s)
    PROVE  CallsRest'
<1> USE DEF CallsInvariant, KeyInvariant, dcVars, mainVars, serverVars
<1>1. /\ UNCHANGED <<persistentKey, temporaryKeys, mainVars, priv, pending>>
      /\ \A u \in Sessions : /\ phase'[u] = "running" => phase[u] = "running"
                             /\ myKeyCreation'[u] \in {myKeyCreation[u], "None"}
  BY DEF Stop, SessionDestroyed, TypeOK
<1>2. SavedKeyFollows' /\ NewKeyUnheard' /\ CdnStays'
  BY <1>1 DEF SavedKeyFollows, NewKeyUnheard, CdnStays
<1>3. ListenersHear'
  BY <1>1 DEF ListenersHear, Listening, NewsOnItsWay, Creating
<1> QED BY <1>2, <1>3 DEF CallsRest

-----------------------------------------------------------------------------
(* The handlers that make a key, install it, or report it destroyed         *)

\* unboundReady: a key the session makes is new to everybody, one that it takes
\* from the Dcenter is nobody's new key.
LEMMA UnboundReadyHears ==
    ASSUME CallsInvariant, NEW s \in Sessions, UnboundReady(s)
    PROVE  CallsRest'
<1> USE DEF CallsInvariant, KeyInvariant, dcVars, mainVars, serverVars, Idle
<1> DEFINE p == priv[s]
<1>p. p \in Privates /\ (IsCdn => p.currentDcType = "Cdn") /\ Owned(s)
  BY DEF TypeOK, CdnStays, UnboundReady
<1>1. PICK t \in FreshTemporary,
           key \in IF myKeyCreation[s] = "Persistent" THEN FreshPersistent
                   ELSE {persistentKey} :
        IF key = NoKey
        THEN /\ ReleaseKeyCreationOnFail(s)
             /\ SetPrivate(s, Disconnected(NoCreator(p)))
        ELSE /\ SetPrivate(s, [p EXCEPT !.creator = "bound", !.binder = key, !.keyId = t])
             /\ UNCHANGED <<creatingKeys, myKeyCreation>>
  BY DEF UnboundReady
<1>2. UNCHANGED <<persistentKey, temporaryKeys, mainVars, phase, pending>>
  BY DEF UnboundReady
<1>3. CASE key = NoKey
  <2> DEFINE q == Disconnected(NoCreator(p))
  <2>1. /\ q \in Privates /\ q.conn = "down" /\ q.binder = NoKey /\ q.creator = "none"
        /\ q.currentDcType = p.currentDcType
    BY <1>p DEF Disconnected, NoCreator, Privates
  <2>2. /\ SetPrivate(s, q) /\ myKeyCreation'[s] = "None"
        /\ \A u \in Sessions : u # s => myKeyCreation'[u] = myKeyCreation[u]
    BY <1>p, <1>1, <1>3, FailReleases
  <2> HIDE DEF q
  <2>3. Discreet(s, q)
    BY <1>p, <1>2, <2>1, <2>2 DEF Discreet, LosesKeys, Listens
  <2> QED BY <2>3, DiscreetStep
<1>4. CASE key # NoKey
  <2> DEFINE q == [p EXCEPT !.creator = "bound", !.binder = key, !.keyId = t]
  <2>0. t \in TemporaryKeys /\ key \in PersistentKeys
    BY <1>4 DEF FreshTemporary, FreshPersistent, TypeOK
  <2>1. /\ q \in Privates /\ q.creator = "bound" /\ q.binder = key /\ q.place = "idle"
        /\ q.currentDcType = p.currentDcType
    BY <1>p, <2>0 DEF Privates, UnboundReady
  <2>2. SetPrivate(s, q) /\ UNCHANGED myKeyCreation
    BY <1>1, <1>4
  <2> HIDE DEF q
  <2>3. SavedKeyFollows' /\ NoNewCalls /\ KeepsNews
    BY <1>2, QuietQueue
  <2>4. ListenersHear'
    BY <1>2, <2>1, <2>2, <2>3, SessionHears DEF LosesKeys, Listens
  <2>5. /\ priv'[s] = q
        /\ \A u \in Sessions : u # s => priv'[u] = priv[u]
    BY <2>2 DEF SetPrivate, TypeOK
  <2>6. CdnStays'
    BY <1>p, <2>1, <2>2, <2>5 DEF CdnStays
  <2>7. NewKeyUnheard'
    <3> SUFFICES ASSUME NEW u \in Sessions, myKeyCreation[u] = "Persistent",
                        priv'[u].creator = "bound"
                 PROVE  /\ \A v \in Sessions \ {u} : priv'[v].binder # priv'[u].binder
                        /\ priv'[u].place = "idle" =>
                             \A i \in DOMAIN queue : queue[i].kind # "temporary" =>
                                 queue[i].key # priv'[u].binder
      BY <1>2, <2>2 DEF NewKeyUnheard
    <3>1. CASE u = s
      <4>1. key \in FreshPersistent
        BY <1>1, <3>1
      <4> QED BY <2>1, <2>5, <3>1, <4>1, FreshUnheard
    <3>2. CASE u # s
      <4>1. persistentKey = NoKey
        BY DEF PersistentClaim
      <4>2. key \in FreshPersistent
        BY <1>1, <1>4, <4>1
      <4>3. \A v \in Sessions : priv[v].binder # key
        BY <4>2, FreshUnheard
      <4> QED BY <2>1, <2>5, <3>2, <4>3 DEF NewKeyUnheard
    <3> QED BY <3>1, <3>2
  <2> QED BY <2>3, <2>4, <2>6, <2>7 DEF CallsRest
<1> QED BY <1>3, <1>4

\* releaseKeyCreationOnDone: the call it queues tells everybody of the key, and
\* follows whatever was queued about the persistent key before.
LEMMA InstallHears ==
    ASSUME CallsInvariant, NEW s \in Sessions, NEW q \in Privates, SetPrivate(s, q),
           NEW t, NEW used \in PersistentKeys \cup {NoKey},
           ReleaseKeyCreationOnDone(s, t, used),
           ReleaseAccepted(s, used),
           q.binder = NoKey, q.creator = "none", q.currentDcType = priv[s].currentDcType,
           myKeyCreation[s] = "Persistent" =>
               priv[s].creator = "bound" /\ priv[s].place = "idle" /\ priv[s].binder = used,
           UNCHANGED keysForWrite
    PROVE  CallsRest'
<1> USE DEF CallsInvariant, KeyInvariant, dcVars
<1>1. /\ priv'[s] = q
      /\ \A u \in Sessions : u # s => priv'[u] = priv[u]
  BY DEF SetPrivate, TypeOK
<1>2. /\ myKeyCreation'[s] = "None"
      /\ \A u \in Sessions : u # s => myKeyCreation'[u] = myKeyCreation[u]
  BY DEF ReleaseKeyCreationOnDone, TypeOK
<1>3. CdnStays'
  BY <1>1, <1>2 DEF CdnStays
<1>4. PICK e : /\ queue' = Append(queue, e)
               /\ IF myKeyCreation[s] = "Persistent"
                  THEN e.kind = "persistent" /\ e.key = used /\ persistentKey' = used
                  ELSE e.kind = "temporary" /\ UNCHANGED persistentKey
  <2>1. CASE myKeyCreation[s] = "Persistent"
    <3> DEFINE e == [kind |-> "persistent", key |-> used]
    <3>1. queue' = queue \o <<e>> /\ persistentKey' = used
      BY <2>1 DEF ReleaseKeyCreationOnDone, Install
    <3>2. queue' = Append(queue, e)
      BY <3>1, AppendIsConcat DEF TypeOK
    <3> QED BY <2>1, <3>1, <3>2
  <2>2. CASE myKeyCreation[s] # "Persistent"
    <3> DEFINE e == [kind |-> "temporary"]
    <3>1. queue' = queue \o <<e>> /\ UNCHANGED persistentKey
      BY <2>2 DEF ReleaseKeyCreationOnDone, Install
    <3>2. queue' = Append(queue, e)
      BY <3>1, AppendIsConcat DEF TypeOK
    <3> QED BY <2>2, <3>1, <3>2
  <2> QED BY <2>1, <2>2
<1>5. /\ Len(queue) \in Nat /\ DOMAIN queue = 1..Len(queue)
      /\ DOMAIN queue' = 1..(Len(queue) + 1)
      /\ \A i \in DOMAIN queue : i \in DOMAIN queue' /\ queue'[i] = queue[i]
      /\ queue'[Len(queue) + 1] = e
  BY <1>4, QueueAppend
<1>6. \A i \in DOMAIN queue' : \/ i \in DOMAIN queue /\ queue'[i] = queue[i]
                               \/ i = Len(queue) + 1 /\ queue'[i] = e
  BY <1>5
<1>7. e.kind # "destroyed"
  BY <1>4
<1>8. ListenersHear'
  BY <1>5, <1>7 DEF ListenersHear, NewsOnItsWay
<1>9. CASE myKeyCreation[s] = "Persistent"
  <2>1. persistentKey = NoKey /\ persistentKey' = used /\ e.kind = "persistent" /\ e.key = used
    BY <1>4, <1>9 DEF PersistentClaim
  <2>2. \A i \in DOMAIN queue : queue[i].kind # "temporary" => queue[i].key # used
    BY <1>9 DEF NewKeyUnheard
  <2>3. \A i \in DOMAIN queue : queue[i].kind # "persistent"
    BY <2>1, QueueEvents, KeysAssumption DEF SavedKeyFollows
  <2>4. SavedKeyFollows'
    BY <1>5, <1>6, <2>1, <2>2, <2>3, QueueEvents DEF SavedKeyFollows
  <2>5. NewKeyUnheard'
    <3> SUFFICES ASSUME NEW u \in Sessions, myKeyCreation'[u] = "Persistent",
                        priv'[u].creator = "bound"
                 PROVE  FALSE
      BY DEF NewKeyUnheard
    <3>1. u # s /\ myKeyCreation[u] = "Persistent"
      BY <1>2
    <3> QED BY <1>9, <3>1 DEF CreationExclusive, IndexByType
  <2> QED BY <1>3, <1>8, <2>4, <2>5 DEF CallsRest
<1>10. CASE myKeyCreation[s] # "Persistent"
  <2>1. e.kind = "temporary" /\ UNCHANGED persistentKey
    BY <1>4, <1>10
  <2>2. SavedKeyFollows'
    BY <1>5, <1>6, <2>1 DEF SavedKeyFollows
  <2>3. NoNewCalls
    BY <1>6, <2>1 DEF NoNewCalls
  <2>4. NewKeyUnheard'
    BY <1>2, <2>3, KeepsUnheard
  <2> QED BY <1>3, <1>8, <2>2, <2>4 DEF CallsRest
<1> QED BY <1>9, <1>10

\* A CDN session always installs its key: nothing is bound to anything.
LEMMA CdnKeyReadyHears ==
    ASSUME CallsInvariant, NEW s \in Sessions, CdnKeyReady(s)
    PROVE  CallsRest'
<1> USE DEF CallsInvariant, KeyInvariant, dcVars, mainVars, serverVars, Idle
<1> DEFINE p == priv[s]
<1>p. /\ p \in Privates /\ IsCdn /\ p.currentDcType = "Cdn"
      /\ myKeyCreation[s] # "Persistent"
  BY DEF TypeOK, CdnStays, CdnKeyReady
<1>1. PICK t \in FreshTemporary :
        /\ ReleaseKeyCreationOnDone(s, t, NoKey)
        /\ LET u == NoCreator([p EXCEPT !.keyId = t])
           IN  SetPrivate(s, IF ReleaseAccepted(s, NoKey) THEN u ELSE Disconnected(u))
  BY DEF CdnKeyReady
<1>2. t \in TemporaryKeys /\ t # NoKey
  BY KeysAssumption DEF FreshTemporary
<1> DEFINE u == NoCreator([p EXCEPT !.keyId = t])
<1>3. /\ u \in Privates /\ u.creator = "none" /\ u.binder = NoKey /\ u.keyId = t
      /\ u.currentDcType = p.currentDcType
  BY <1>p, <1>2 DEF NoCreator, Privates
<1>4. UNCHANGED <<keysForWrite, options, phase, pending>>
  BY DEF CdnKeyReady
<1>5. CASE ReleaseAccepted(s, NoKey)
  <2>1. SetPrivate(s, u)
    BY <1>1, <1>5
  <2> HIDE DEF u
  <2> QED BY <1>p, <1>1, <1>3, <1>4, <1>5, <2>1, InstallHears
<1>6. CASE ~ReleaseAccepted(s, NoKey)
  <2> DEFINE q == Disconnected(u)
  <2>1. SetPrivate(s, q)
    BY <1>1, <1>6
  <2> HIDE DEF u
  <2>2. /\ q \in Privates /\ q.creator = "none" /\ q.binder = NoKey /\ q.conn = "down"
        /\ q.currentDcType = p.currentDcType
    BY <1>3 DEF Disconnected, Privates
  <2>3. /\ UNCHANGED <<dcVars, queue>> /\ myKeyCreation'[s] = "None"
        /\ \A v \in Sessions : v # s => myKeyCreation'[v] = myKeyCreation[v]
    BY <1>1, <1>6 DEF ReleaseKeyCreationOnDone, TypeOK
  <2> HIDE DEF q
  <2>4. Discreet(s, q)
    BY <1>p, <1>4, <2>1, <2>2, <2>3 DEF Discreet, LosesKeys, Listens
  <2> QED BY <2>4, DiscreetStep
<1> QED BY <1>5, <1>6

\* handleBindResponse: the bound key is installed, refused because the Dcenter's
\* key has changed meanwhile, or its persistent key is reported destroyed.
LEMMA BindHears ==
    ASSUME CallsInvariant, NEW s \in Sessions, BindSucceeded(s) \/ BindKeyDestroyed(s)
    PROVE  CallsRest'
<1> USE DEF CallsInvariant, KeyInvariant, dcVars, mainVars, serverVars, Idle
<1> DEFINE p == priv[s]
<1>p. /\ p \in Privates /\ p.creator = "bound" /\ p.place = "idle"
      /\ p.binder \in PersistentKeys /\ p.keyId # NoKey
      /\ (IsCdn => p.currentDcType = "Cdn" /\ myKeyCreation[s] \in {"None", "TemporaryRegular"})
  BY KeysAssumption DEF TypeOK, CdnStays, BindSucceeded, BindKeyDestroyed, BoundKeyPrivate
<1>1. CASE BindSucceeded(s)
  <2> DEFINE q == [NoCreator(p) EXCEPT !.bind = "none",
                     !.place = IF ReleaseAccepted(s, p.binder) THEN "idle" ELSE "release"]
  <2>1. /\ q \in Privates /\ q.creator = "none" /\ q.binder = NoKey /\ q.keyId = p.keyId
        /\ q.currentDcType = p.currentDcType
    BY <1>p DEF NoCreator, Privates, Places
  <2>2. /\ SetPrivate(s, q) /\ ReleaseKeyCreationOnDone(s, p.keyId, p.binder)
        /\ UNCHANGED <<keysForWrite, options, phase, pending>>
    BY <1>1 DEF BindSucceeded
  <2> HIDE DEF q
  <2>3. CASE ReleaseAccepted(s, p.binder)
    BY <1>p, <2>1, <2>2, <2>3, InstallHears
  <2>4. CASE ~ReleaseAccepted(s, p.binder)
    <3>1. /\ UNCHANGED <<dcVars, queue>> /\ myKeyCreation'[s] = "None"
          /\ \A v \in Sessions : v # s => myKeyCreation'[v] = myKeyCreation[v]
      BY <2>2, <2>4 DEF ReleaseKeyCreationOnDone, TypeOK
    <3>2. Discreet(s, q)
      BY <1>p, <2>1, <2>2, <3>1 DEF Discreet, LosesKeys, Listens
    <3> QED BY <3>2, DiscreetStep
  <2> QED BY <2>3, <2>4
<1>2. CASE BindKeyDestroyed(s)
  <2> DEFINE q == [p EXCEPT !.bind = "none", !.place = "release"]
  <2>1. /\ q \in Privates /\ q.creator = "bound" /\ q.binder = p.binder /\ q.place = "release"
        /\ q.currentDcType = p.currentDcType
    BY <1>p DEF Privates, Places
  <2>2. /\ SetPrivate(s, q) /\ queue' = Append(queue, [kind |-> "destroyed", key |-> p.binder])
        /\ UNCHANGED <<dcVars, keysForWrite, options, phase, myKeyCreation, pending>>
    BY <1>2 DEF BindKeyDestroyed
  <2>3. /\ priv'[s] = q
        /\ \A u \in Sessions : u # s => priv'[u] = priv[u]
    BY <2>2 DEF SetPrivate, TypeOK
  <2> HIDE DEF q
  <2>4. /\ SavedKeyFollows' /\ KeepsNews
        /\ \A i \in DOMAIN queue' : queue'[i].kind # "temporary" =>
             queue'[i].key = p.binder \/ \E j \in DOMAIN queue : queue[j] = queue'[i]
    BY <1>p, <2>2, DestroyedQueue
  <2>5. ListenersHear'
    BY <2>1, <2>2, <2>4, SessionHears DEF LosesKeys, Listens
  <2>6. CdnStays'
    BY <1>p, <2>1, <2>2, <2>3 DEF CdnStays
  <2>7. NewKeyUnheard'
    <3> SUFFICES ASSUME NEW u \in Sessions, myKeyCreation[u] = "Persistent",
                        priv'[u].creator = "bound"
                 PROVE  /\ \A v \in Sessions \ {u} : priv'[v].binder # priv'[u].binder
                        /\ priv'[u].place = "idle" =>
                             \A i \in DOMAIN queue' : queue'[i].kind # "temporary" =>
                                 queue'[i].key # priv'[u].binder
      BY <2>2 DEF NewKeyUnheard
    <3>1. priv[u].creator = "bound" /\ priv'[u].binder = priv[u].binder
      BY <1>p, <2>1, <2>3
    <3>2. \A v \in Sessions \ {u} : priv[v].binder # priv[u].binder
      BY <3>1 DEF NewKeyUnheard
    <3>3. \A v \in Sessions \ {u} : priv'[v].binder # priv'[u].binder
      BY <2>1, <2>3, <3>1, <3>2
    <3>4. ASSUME priv'[u].place = "idle", NEW i \in DOMAIN queue', queue'[i].kind # "temporary"
          PROVE  queue'[i].key # priv'[u].binder
      <4>1. u # s /\ priv[u].place = "idle"
        BY <2>1, <2>3, <3>4
      <4>2. CASE queue'[i].key = p.binder
        BY <3>1, <3>2, <4>1, <4>2
      <4>3. CASE \E j \in DOMAIN queue : queue[j] = queue'[i]
        BY <3>1, <3>4, <4>1, <4>3 DEF NewKeyUnheard
      <4> QED BY <2>4, <3>4, <4>2, <4>3
    <3> QED BY <3>3, <3>4
  <2> QED BY <2>4, <2>5, <2>6, <2>7 DEF CallsRest
<1> QED BY <1>1, <1>2

-----------------------------------------------------------------------------
(* The main thread                                                         *)

\* Calls taken from the queue are in it no more; those left are the same.
LEMMA TakenQueue ==
    ASSUME TypeOK, queue # <<>>, queue' = Tail(queue)
    PROVE  NoNewCalls
  BY QueueTail DEF NoNewCalls

\* A notified session that runs has updateAuthKey among its calls.
LEMMA NotifiedHears ==
    ASSUME TypeOK, NEW calls \in {<<"updateAuthKey">>, <<"updateAuthKey", "restartNow">>},
           Notify(calls), UNCHANGED phase
    PROVE  \A s \in Sessions : phase'[s] = "running" => NewsOnItsWay(s)'
<1> SUFFICES ASSUME NEW s \in Sessions, phase[s] = "running"
             PROVE  \E i \in DOMAIN pending'[s] : pending'[s][i] = "updateAuthKey"
  BY DEF NewsOnItsWay
<1>1. pending'[s] = pending[s] \o calls /\ pending[s] \in Seq({"updateAuthKey", "restartNow"})
  BY DEF Notify, TypeOK
<1>2. calls \in Seq({"updateAuthKey", "restartNow"}) /\ Len(calls) >= 1
      /\ calls[1] = "updateAuthKey"
  <2>1. CASE calls = <<"updateAuthKey">>
    BY <2>1
  <2>2. CASE calls = <<"updateAuthKey", "restartNow">>
    BY <2>2
  <2> QED BY <2>1, <2>2
<1>3. /\ Len(pending'[s]) = Len(pending[s]) + Len(calls)
      /\ pending'[s][Len(pending[s]) + 1] = calls[1]
      /\ DOMAIN pending'[s] = 1..Len(pending'[s])
      /\ Len(pending[s]) \in Nat /\ Len(calls) \in Nat
  BY <1>1, <1>2, ConcatProperties, LenProperties
<1> QED BY <1>2, <1>3

\* temporaryKeyChanged and dcPersistentKeyChanged.
LEMMA KeyChangedHears ==
    ASSUME CallsInvariant, TemporaryKeyChanged \/ PersistentKeyChanged
    PROVE  CallsRest'
<1> USE DEF CallsInvariant, KeyInvariant, dcVars, serverVars
<1>0. /\ queue # <<>> /\ queue' = Tail(queue) /\ Notify(<<"updateAuthKey">>)
      /\ UNCHANGED <<persistentKey, temporaryKeys, phase, myKeyCreation, priv>>
  BY DEF TemporaryKeyChanged, PersistentKeyChanged
<1>1. /\ Len(queue) \in Nat /\ DOMAIN queue = 1..Len(queue) /\ 1 \in DOMAIN queue
      /\ DOMAIN queue' = 1..(Len(queue) - 1)
      /\ \A i \in DOMAIN queue' : i + 1 \in DOMAIN queue /\ queue'[i] = queue[i + 1]
      /\ Head(queue) = queue[1]
  BY <1>0, QueueTail
<1>2. ListenersHear'
  BY <1>0, NotifiedHears DEF ListenersHear, Listening
<1>3. NewKeyUnheard' /\ CdnStays'
  BY <1>0, TakenQueue DEF NewKeyUnheard, CdnStays, NoNewCalls
<1>4. \A i, j \in DOMAIN queue' : queue'[i].kind = "persistent" =>
        /\ queue'[i].key = persistentKey
        /\ j < i /\ queue'[j].kind = "destroyed" => queue'[j].key # persistentKey
  <2> SUFFICES ASSUME NEW i \in DOMAIN queue', NEW j \in DOMAIN queue',
                      queue'[i].kind = "persistent"
               PROVE  /\ queue'[i].key = persistentKey
                      /\ j < i /\ queue'[j].kind = "destroyed" => queue'[j].key # persistentKey
    OBVIOUS
  <2>1. /\ i + 1 \in DOMAIN queue /\ queue'[i] = queue[i + 1]
        /\ j + 1 \in DOMAIN queue /\ queue'[j] = queue[j + 1]
        /\ (j < i => j + 1 < i + 1)
    BY <1>1
  <2> QED BY <2>1 DEF SavedKeyFollows
<1>5. ASSUME \A i \in DOMAIN queue' : queue'[i].kind # "persistent"
      PROVE  keysForWrite' = persistentKey
  <2>1. \A i \in DOMAIN queue : i # 1 => queue[i].kind # "persistent"
    <3> SUFFICES ASSUME NEW i \in DOMAIN queue, i # 1 PROVE queue[i].kind # "persistent"
      OBVIOUS
    <3>1. i - 1 \in DOMAIN queue' /\ queue'[i - 1] = queue[i]
      BY <1>1
    <3> QED BY <1>5, <3>1
  <2>2. CASE TemporaryKeyChanged
    BY <1>1, <2>1, <2>2 DEF TemporaryKeyChanged, SavedKeyFollows
  <2>3. CASE PersistentKeyChanged
    BY <1>1, <2>3 DEF PersistentKeyChanged, SavedKeyFollows
  <2> QED BY <2>2, <2>3
<1>6. SavedKeyFollows'
  BY <1>0, <1>4, <1>5 DEF SavedKeyFollows
<1> QED BY <1>2, <1>3, <1>6 DEF CallsRest

\* keyDestroyedOnServer: the key it forgets is not one that a queued call is
\* still to save.
LEMMA KeyDestroyedHears ==
    ASSUME CallsInvariant, KeyDestroyedOnServer
    PROVE  CallsRest'
<1> USE DEF CallsInvariant, KeyInvariant, serverVars
<1>0. /\ queue # <<>> /\ queue' = Tail(queue) /\ Head(queue).kind = "destroyed"
      /\ UNCHANGED <<phase, myKeyCreation, priv>>
  BY DEF KeyDestroyedOnServer
<1>1. /\ Len(queue) \in Nat /\ DOMAIN queue = 1..Len(queue) /\ 1 \in DOMAIN queue
      /\ DOMAIN queue' = 1..(Len(queue) - 1)
      /\ \A i \in DOMAIN queue' : i + 1 \in DOMAIN queue /\ queue'[i] = queue[i + 1]
      /\ Head(queue) = queue[1]
  BY <1>0, QueueTail
<1>2. NewKeyUnheard' /\ CdnStays'
  BY <1>0, TakenQueue DEF NewKeyUnheard, CdnStays, NoNewCalls
<1>3. \A i \in DOMAIN queue : i # 1 => i - 1 \in DOMAIN queue' /\ queue'[i - 1] = queue[i]
  BY <1>1
<1>4. CASE persistentKey = Head(queue).key
  <2>1. /\ persistentKey' = NoKey /\ keysForWrite' = NoKey
        /\ temporaryKeys' = [c \in Clusters |-> NoKey]
    BY <1>4 DEF KeyDestroyedOnServer
  <2>2. \A i \in DOMAIN queue' : queue'[i].kind # "persistent"
    <3> SUFFICES ASSUME NEW i \in DOMAIN queue', queue'[i].kind = "persistent" PROVE FALSE
      OBVIOUS
    <3>1. i + 1 \in DOMAIN queue /\ queue[i + 1].kind = "persistent" /\ 1 < i + 1
      BY <1>1
    <3> QED BY <1>0, <1>1, <1>4, <3>1 DEF SavedKeyFollows
  <2>3. SavedKeyFollows'
    BY <2>1, <2>2 DEF SavedKeyFollows
  <2>4. ListenersHear'
    BY <2>1 DEF ListenersHear, KeyType, Clusters
  <2> QED BY <1>2, <2>3, <2>4 DEF CallsRest
<1>5. CASE persistentKey # Head(queue).key
  <2>1. UNCHANGED <<persistentKey, keysForWrite, temporaryKeys>> /\ Notify(<<"restartNow">>)
    BY <1>5 DEF KeyDestroyedOnServer
  <2>2. SavedKeyFollows'
    <3>1. ASSUME \A i \in DOMAIN queue' : queue'[i].kind # "persistent"
          PROVE  keysForWrite = persistentKey
      BY <1>0, <1>1, <1>3, <3>1 DEF SavedKeyFollows
    <3>2. ASSUME NEW i \in DOMAIN queue', NEW j \in DOMAIN queue', queue'[i].kind = "persistent"
          PROVE  /\ queue'[i].key = persistentKey
                 /\ j < i /\ queue'[j].kind = "destroyed" => queue'[j].key # persistentKey
      <4>1. /\ i + 1 \in DOMAIN queue /\ queue'[i] = queue[i + 1]
            /\ j + 1 \in DOMAIN queue /\ queue'[j] = queue[j + 1]
            /\ (j < i => j + 1 < i + 1)
        BY <1>1
      <4> QED BY <3>2, <4>1 DEF SavedKeyFollows
    <3> QED BY <2>1, <3>1, <3>2 DEF SavedKeyFollows
  <2>3. ListenersHear'
    <3> SUFFICES ASSUME NEW s \in Sessions, NewsOnItsWay(s), phase[s] = "running"
                 PROVE  NewsOnItsWay(s)'
      BY <1>0, <2>1 DEF ListenersHear, Listening, Creating
    <3>1. CASE \E i \in DOMAIN queue : queue[i].kind # "destroyed"
      BY <1>0, <1>1, <1>3, <3>1 DEF NewsOnItsWay
    <3>2. CASE \E i \in DOMAIN pending[s] : pending[s][i] = "updateAuthKey"
      <4>1. /\ pending'[s] = pending[s] \o <<"restartNow">>
            /\ pending[s] \in Seq({"updateAuthKey", "restartNow"})
        BY <2>1 DEF Notify, TypeOK
      <4>2. /\ \A i \in DOMAIN pending[s] : pending'[s][i] = pending[s][i]
            /\ DOMAIN pending[s] \subseteq DOMAIN pending'[s]
        BY <4>1, CallsType, ConcatProperties, LenProperties
      <4> QED BY <3>2, <4>2 DEF NewsOnItsWay
    <3> QED BY <3>1, <3>2 DEF NewsOnItsWay
  <2> QED BY <1>2, <2>2, <2>3 DEF CallsRest
<1> QED BY <1>4, <1>5

\* The options and the server, or nothing at all.
LEMMA OutsideSteps ==
    ASSUME CallsInvariant,
           \/ CdnConfigLoaded \/ MediaOptionsChanged
           \/ \E t \in TemporaryKeys : ServerForgetsTemporary(t)
           \/ \E key \in PersistentKeys : ServerDestroysPersistent(key)
           \/ UNCHANGED vars
    PROVE  CallsRest'
<1>1. UNCHANGED <<persistentKey, temporaryKeys, queue, keysForWrite, phase, myKeyCreation,
                  priv, pending>>
  BY DEF CdnConfigLoaded, MediaOptionsChanged, ServerForgetsTemporary, ServerDestroysPersistent,
     vars, dcVars, mainVars, serverVars
<1> QED BY <1>1 DEF CallsInvariant, CallsRest, SavedKeyFollows, NewKeyUnheard, CdnStays,
           ListenersHear, Listening, NewsOnItsWay, Creating

-----------------------------------------------------------------------------
(* The invariant and what follows from it                                   *)

\* CallsInvariant holds initially: nothing is queued and there are no keys ...
LEMMA CallsInvariantInit == Init => CallsInvariant
<1> SUFFICES ASSUME Init PROVE CallsInvariant
  OBVIOUS
<1>1. KeyInvariant
  BY KeyInvariantInit
<1>2. SavedKeyFollows /\ NewKeyUnheard
  BY DEF Init, SavedKeyFollows, NewKeyUnheard
<1>3. CdnStays
  BY DEF Init, CdnStays, InitPrivate, DcType
<1>4. ListenersHear
  BY DEF Init, ListenersHear, KeyType, Clusters
<1> QED BY <1>1, <1>2, <1>3, <1>4 DEF CallsInvariant

\* ... and is preserved by every step.
LEMMA CallsInvariantStep == CallsInvariant /\ [Next]_vars => CallsInvariant'
<1> SUFFICES ASSUME CallsInvariant, [Next]_vars PROVE CallsInvariant'
  OBVIOUS
<1>1. KeyInvariant'
  BY KeyInvariantStep DEF CallsInvariant
<1>2. CallsRest'
  <2>1. CASE Next
    <3>1. ASSUME NEW s \in Sessions, NEW q, Discreet(s, q) PROVE CallsRest'
      BY <3>1, DiscreetStep
    <3>2. ASSUME NEW s \in Sessions,
                 \/ Connect(s) \/ Update(s) \/ Acquire(s) \/ Create(s) \/ Bind(s) \/ Refused(s)
                 \/ Destroy(s) \/ Life(s) \/ ServerAnswersBind(s)
                 \/ UnboundFailed(s) \/ ConnectionLost(s) \/ ServerFailsBind(s)
          PROVE  CallsRest'
      BY <3>1, <3>2, DiscreetHandlers, LookingHandlers, AcquiringHandlers, FailingHandlers,
         LifeHandlers, StopSteps, UnboundReadyHears, CdnKeyReadyHears, BindHears
      DEF Connect, Update, Acquire, Create, Bind, Refused, Destroy, Life
    <3> QED BY <2>1, <3>2, KeyChangedHears, KeyDestroyedHears, OutsideSteps DEF Next, Failure
  <2> QED BY <2>1, OutsideSteps
<1> QED BY <1>1, <1>2 DEF CallsInvariant, CallsRest

\* What the queued calls still have to say is always enough: for any sessions,
\* any keys and queues of any length.
THEOREM CallsInvariantHolds == Spec => []CallsInvariant
  BY CallsInvariantInit, CallsInvariantStep, PTL DEF Spec

\* Whatever keys were created, bound and destroyed, and in whatever order the
\* threads reported it, the key in _keysForWrite is the Dcenter's once the main
\* thread has handled the calls: a restart does not come up with an old key.
THEOREM SavedKeyCatchesUp == Spec => []SavedKeyIsCurrent
<1>1. CallsInvariant => SavedKeyIsCurrent
  BY DEF CallsInvariant, SavedKeyFollows, SavedKeyIsCurrent
<1> QED BY <1>1, CallsInvariantHolds, PTL

\* A session that found no key and waits for another one's creator is told when
\* the key is there, although it looked before and others install it.
THEOREM NobodyIsForgotten == Spec => []NoLostWakeup
<1>1. CallsInvariant => NoLostWakeup
  BY DEF CallsInvariant, ListenersHear, NoLostWakeup, Listening, Waiting, NewsOnItsWay,
     UpdateOnItsWay, Creating
<1> QED BY <1>1, CallsInvariantHolds, PTL
=============================================================================
