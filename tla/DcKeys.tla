------------------------------- MODULE DcKeys -------------------------------
(***************************************************************************)
(* The authorization keys of one datacenter.                               *)
(*                                                                         *)
(* A Dcenter object (mtproto/details/mtproto_dcenter.cpp) holds the        *)
(* persistent key of a DC and one temporary key for each of its two        *)
(* clusters.  It is shared by all the sessions opened to that DC, which    *)
(* run on different threads; whoever finds a temporary key missing tries   *)
(* to become its creator (acquireKeyCreation), generates it, binds it to   *)
(* the persistent key and installs it (releaseKeyCreationOnDone).  The     *)
(* instance's main thread is told of every change through queued calls     *)
(* and passes it on to all the sessions (updateAuthKey).                   *)
(*                                                                         *)
(* Each action is one handler of one thread, or, where a handler reads     *)
(* the Dcenter twice, the part of it up to the next access: Dcenter's      *)
(* methods are the atomic operations.                                      *)
(***************************************************************************)
EXTENDS Naturals, Sequences, FiniteSets

CONSTANTS Sessions,        \* the sessions opened to this DC
          MediaSessions,   \* those whose shifted id is a media cluster id
          StoppableSessions, \* those the instance may stop or kill
          PersistentKeys,  \* identities of persistent keys
          TemporaryKeys,   \* identities of temporary keys
          NoKey,           \* a null AuthKeyPtr
          IsCdn,           \* TRUE for a CDN datacenter (no persistent key)
          TemporaryMayDie, \* TRUE if the server may forget temporary keys
          PersistentMayDie,\* TRUE if the server may destroy persistent keys
          ConfigMayChange, \* TRUE if DcOptions may change while running
          MaxQueue,        \* bound: calls queued to the main thread
          MaxPending       \* bound: calls queued to one SessionPrivate

ASSUME SessionsAssumption == /\ MediaSessions \subseteq Sessions
                             /\ StoppableSessions \subseteq Sessions
ASSUME KeysAssumption == /\ NoKey \notin PersistentKeys \cup TemporaryKeys
                         /\ PersistentKeys \cap TemporaryKeys = {}
ASSUME FlagsAssumption ==
    {IsCdn, TemporaryMayDie, PersistentMayDie, ConfigMayChange} \subseteq BOOLEAN
ASSUME BoundsAssumption == MaxQueue \in Nat /\ MaxPending \in Nat

VARIABLES
  (* Dcenter, under its mutex *)
  persistentKey,   \* _persistentKey
  temporaryKeys,   \* _temporaryKeys, by cluster
  creatingKeys,    \* _creatingKeys: the clusters whose flag is up
  (* Instance, main thread *)
  queue,           \* calls queued to the instance, oldest first
  keysForWrite,    \* _keysForWrite[dcId]: the key that is saved to disk
  options,         \* DcOptions: media-only addresses known, CDN keys known
  (* Session and SessionPrivate *)
  phase,           \* life cycle of each Session object
  myKeyCreation,   \* Session::_myKeyCreation
  priv,            \* the fields of SessionPrivate that concern keys
  pending,         \* calls queued to each SessionPrivate, oldest first
  (* the server *)
  dead,            \* keys the server does not know any more
  boundTo,         \* the persistent key each temporary key is bound to
  madeAt           \* the cluster each temporary key was created at

dcVars == <<persistentKey, temporaryKeys, creatingKeys>>
mainVars == <<queue, keysForWrite, options>>
serverVars == <<dead, boundTo, madeAt>>
vars == <<dcVars, mainVars, phase, myKeyCreation, priv, pending, serverVars>>

-----------------------------------------------------------------------------
(* Types *)

Clusters == {"Regular", "MediaCluster"}          \* TemporaryKeyType
DcTypes == {"Regular", "MediaCluster", "Cdn"}    \* DcType
CreatingTypes ==                                 \* CreatingKeyType
    {"None", "Persistent", "TemporaryRegular", "TemporaryMediaCluster"}
Phases == {"running", "stopping", "stopped", "killed", "gone"}

\* The place of the handler a SessionPrivate is in, when it is between two
\* accesses to the Dcenter ("idle": between two handlers).
Places == {"idle", "noMediaKey", "acquire", "release", "destroy"}

Privates == [conn : {"down", "testing", "up"},   \* no / test / chosen connection
             realDcType : DcTypes,
             currentDcType : DcTypes,
             creator : {"none", "idle", "started", "bound"},  \* _keyCreator
             binder : PersistentKeys \cup {NoKey},  \* its bindPersistentKey()
             keyId : TemporaryKeys \cup {NoKey},    \* _encryptionKey, _keyId
             bind : {"none", "sent", "ok", "destroyed", "failed"}, \* _bindMsgId
             place : Places]

KeyEvents == [kind : {"temporary"}]
        \cup [kind : {"persistent", "destroyed"}, key : PersistentKeys]

\* TemporaryKeyTypeByDcType
KeyType(dcType) == IF dcType = "MediaCluster" THEN "MediaCluster" ELSE "Regular"

\* IndexByType(CreatingKeyType)
IndexByType(creating) ==
    IF creating = "TemporaryMediaCluster" THEN "MediaCluster" ELSE "Regular"

\* DcOptions::dcType of the session's shifted id
DcType(s) == CASE IsCdn -> "Cdn"
               [] ~IsCdn /\ s \in MediaSessions /\ options.media -> "MediaCluster"
               [] OTHER -> "Regular"

Owned(s) == phase[s] \in {"running", "stopping"}  \* SessionPrivate, not detached
Idle(s) == Owned(s) /\ priv[s].place = "idle"
Creating(s) == priv[s].creator # "none"

\* Bound: a handler starts only if the main thread's queue has room for the
\* calls it may queue, and those of the handlers under way.
Room(n) ==
    Len(queue) + Cardinality({s \in Sessions : priv[s].place \in {"release", "destroy"}})
        + n <= MaxQueue

-----------------------------------------------------------------------------
(* Dcenter *)

\* acquireKeyCreation(type): what it returns now.
AcquireKeyCreation(type) ==
    LET slot == IF type = "MediaCluster" /\ temporaryKeys["Regular"] # NoKey
                THEN "MediaCluster" ELSE "Regular"
    IN  CASE temporaryKeys[KeyType(type)] # NoKey -> "None"
          [] temporaryKeys[KeyType(type)] = NoKey /\ slot \in creatingKeys -> "None"
          [] OTHER -> CASE slot = "MediaCluster" -> "TemporaryMediaCluster"
                        [] slot = "Regular" /\ type # "Cdn" /\ persistentKey = NoKey
                             -> "Persistent"
                        [] OTHER -> "TemporaryRegular"

\* The write half of acquireKeyCreation and Session::acquireKeyCreation.
TakeKeyCreation(s, acquired) ==
    IF acquired = "None" THEN UNCHANGED <<creatingKeys, myKeyCreation>>
    ELSE /\ creatingKeys' = creatingKeys \cup {IndexByType(acquired)}
         /\ myKeyCreation' = [myKeyCreation EXCEPT ![s] = acquired]

\* Mutant: the Dcenter's flag is dropped, the session's claim is kept.
ReleaseFlagOnly(s) ==
    /\ UNCHANGED myKeyCreation
    /\ IF ~Creating(s) THEN UNCHANGED creatingKeys
       ELSE creatingKeys' = creatingKeys \ {IndexByType(myKeyCreation[s])}

\* releaseKeyCreationOnFail, when the SessionPrivate has a key creator.
ReleaseKeyCreationOnFail(s) ==
    IF ~Creating(s) THEN UNCHANGED <<creatingKeys, myKeyCreation>>
    ELSE /\ creatingKeys' = creatingKeys \ {IndexByType(myKeyCreation[s])}
         /\ myKeyCreation' = [myKeyCreation EXCEPT ![s] = "None"]

\* releaseKeyCreationOnDone: TRUE unless the persistent key has changed.
ReleaseAccepted(s, used) ==
    myKeyCreation[s] = "Persistent" \/ persistentKey = used

\* The Dcenter takes the keys, and the main thread is told of the event.
Install(s, temporaryKey, used, event) ==
    LET index == IndexByType(myKeyCreation[s])
    IN  /\ persistentKey' = IF myKeyCreation[s] = "Persistent" THEN used
                            ELSE persistentKey
        /\ temporaryKeys' = [temporaryKeys EXCEPT ![index] = temporaryKey]
        /\ creatingKeys' = creatingKeys \ {index}
        /\ queue' = queue \o event

\* Mutant: only a new persistent key is reported.
SilentOnDone(s, temporaryKey, used) ==
    /\ myKeyCreation' = [myKeyCreation EXCEPT ![s] = "None"]
    /\ IF ReleaseAccepted(s, used)
       THEN Install(s, temporaryKey, used,
                    IF myKeyCreation[s] = "Persistent"
                    THEN <<[kind |-> "persistent", key |-> used]>> ELSE <<>>)
       ELSE UNCHANGED <<dcVars, queue>>

\* Session::releaseGenericKeyCreationOnDone and Dcenter's part of it: the
\* session's claim is dropped first, the Dcenter's flag only if it accepts.
ReleaseKeyCreationOnDone(s, temporaryKey, used) ==
    /\ myKeyCreation' = [myKeyCreation EXCEPT ![s] = "None"]
    /\ IF ReleaseAccepted(s, used)
       THEN Install(s, temporaryKey, used,
                    IF myKeyCreation[s] = "Persistent"
                    THEN <<[kind |-> "persistent", key |-> used]>>
                    ELSE <<[kind |-> "temporary"]>>)
       ELSE UNCHANGED <<dcVars, queue>>

-----------------------------------------------------------------------------
(* SessionPrivate: transformations of its fields *)

InitPrivate(dcType) ==
    [conn |-> "down", realDcType |-> dcType, currentDcType |-> dcType,
     creator |-> "none", binder |-> NoKey, keyId |-> NoKey, bind |-> "none",
     place |-> "idle"]

\* doDisconnect: destroyAllConnections stops an unbound key creator.
Disconnected(p) ==
    [p EXCEPT !.conn = "down",
              !.creator = IF @ = "started" THEN "idle" ELSE @]

NoCreator(p) == [p EXCEPT !.creator = "none", !.binder = NoKey]

\* The end of applyAuthKey without a key: start the creator, if it is ours.
StartCreator(p) ==
    [p EXCEPT !.creator = IF @ = "idle" THEN "started" ELSE @, !.place = "idle"]

\* applyAuthKey(key) on a connection that has no key yet.
ApplyFirstKey(p, key) ==
    CASE key # NoKey -> [p EXCEPT !.keyId = key]
      [] key = NoKey /\ KeyType(p.currentDcType) = "MediaCluster"
           -> [p EXCEPT !.place = "noMediaKey"]
      [] OTHER -> StartCreator(p)

\* tryAcquireKeyCreation: the type the session would acquire now ...
Acquirable(s, p) == IF p.creator # "none" THEN "None"
                    ELSE AcquireKeyCreation(p.realDcType)
\* ... and the DC type it returns.
AcquiredDcType(p, acquired) ==
    CASE p.creator # "none" -> p.currentDcType
      [] p.creator = "none" /\ p.realDcType = "MediaCluster"
         /\ acquired \in {"Persistent", "TemporaryRegular"} -> "Regular"
      [] OTHER -> p.realDcType

SetPrivate(s, p) == priv' = [priv EXCEPT ![s] = p]

-----------------------------------------------------------------------------
(* SessionPrivate: handlers *)

\* connectToServer, from the retry timer or a queued call.  A CDN session
\* without the CDN public keys only requests them and stays disconnected.
ConnectToServer(s) ==
    LET p == [priv[s] EXCEPT !.realDcType = DcType(s)]
        acquired == Acquirable(s, p)
        current == AcquiredDcType(p, acquired)
        q == [p EXCEPT !.currentDcType = current,
                       !.creator = IF acquired = "None" THEN @ ELSE "idle"]
    IN  /\ Idle(s) /\ priv[s].conn = "down"
        /\ ~(Creating(s) /\ priv[s].realDcType # DcType(s))
        /\ TakeKeyCreation(s, acquired)
        /\ SetPrivate(s, IF current = "Cdn" /\ ~options.cdnKeys THEN q
                         ELSE [q EXCEPT !.conn = "testing", !.bind = "none"])
        /\ UNCHANGED <<persistentKey, temporaryKeys, mainVars, phase, pending,
                       serverVars>>

\* Mutant: the creator is dropped without releasing the claim.
DropCreatorOnTypeChange(s) ==
    /\ Idle(s) /\ priv[s].conn = "down"
    /\ Creating(s) /\ priv[s].realDcType # DcType(s)
    /\ SetPrivate(s, [NoCreator(priv[s]) EXCEPT !.realDcType = DcType(s), !.keyId = NoKey])
    /\ UNCHANGED <<dcVars, mainVars, phase, myKeyCreation, pending, serverVars>>

\* connectToServer when realDcTypeChanged() while a key is being created.
ConnectAfterTypeChange(s) ==
    /\ Idle(s) /\ priv[s].conn = "down"
    /\ Creating(s) /\ priv[s].realDcType # DcType(s)
    /\ Room(1)
    /\ SetPrivate(s, [priv[s] EXCEPT !.realDcType = DcType(s), !.place = "release"])
    /\ UNCHANGED <<dcVars, mainVars, phase, myKeyCreation, pending, serverVars>>

\* onConnected or confirmBestConnection, and checkAuthKey up to its access
\* to the Dcenter.
OnConnected(s) ==
    LET p == [priv[s] EXCEPT !.conn = "up"]
    IN  /\ Idle(s) /\ priv[s].conn = "testing"
        /\ SetPrivate(s, IF p.keyId # NoKey THEN p
                         ELSE ApplyFirstKey(p, temporaryKeys[KeyType(p.currentDcType)]))
        /\ UNCHANGED <<dcVars, mainVars, phase, myKeyCreation, pending, serverVars>>

\* Mutant: a changed key is taken without a restart.
UpdateAuthKeyInPlace(s) ==
    LET p == priv[s]
        key == temporaryKeys[KeyType(p.currentDcType)]
    IN  /\ Idle(s) /\ pending[s] # <<>> /\ Head(pending[s]) = "updateAuthKey"
        /\ pending' = [pending EXCEPT ![s] = Tail(@)]
        /\ SetPrivate(s, IF Creating(s) \/ p.conn # "up" THEN p
                         ELSE ApplyFirstKey([p EXCEPT !.keyId = NoKey], key))
        /\ UNCHANGED <<dcVars, mainVars, phase, myKeyCreation, serverVars>>

\* updateAuthKey, queued by Session::watchDcKeyChanges.
UpdateAuthKey(s) ==
    LET p == priv[s]
        key == temporaryKeys[KeyType(p.currentDcType)]
    IN  /\ Idle(s) /\ pending[s] # <<>> /\ Head(pending[s]) = "updateAuthKey"
        /\ pending' = [pending EXCEPT ![s] = Tail(@)]
        /\ SetPrivate(s, CASE Creating(s) \/ p.conn # "up" -> p
                           [] ~Creating(s) /\ p.conn = "up" /\ p.keyId = NoKey
                                -> ApplyFirstKey(p, key)
                           [] ~Creating(s) /\ p.conn = "up" /\ p.keyId # NoKey
                                /\ p.keyId = key -> p
                           [] OTHER -> Disconnected([p EXCEPT !.keyId = NoKey]))
        /\ UNCHANGED <<dcVars, mainVars, phase, myKeyCreation, serverVars>>

\* restartNow, queued by Session::restart.
RestartNow(s) ==
    /\ Idle(s) /\ pending[s] # <<>> /\ Head(pending[s]) = "restartNow"
    /\ pending' = [pending EXCEPT ![s] = Tail(@)]
    /\ SetPrivate(s, Disconnected(priv[s]))
    /\ UNCHANGED <<dcVars, mainVars, phase, myKeyCreation, serverVars>>

\* applyAuthKey: noMediaKeyWithExistingRegularKey().
CheckRegularKey(s) ==
    /\ Owned(s) /\ priv[s].place = "noMediaKey"
    /\ SetPrivate(s, IF temporaryKeys["Regular"] # NoKey
                     THEN [priv[s] EXCEPT !.place = "acquire"]
                     ELSE StartCreator(priv[s]))
    /\ UNCHANGED <<dcVars, mainVars, phase, myKeyCreation, pending, serverVars>>

\* applyAuthKey: tryAcquireKeyCreation for the media key, and the restart if
\* the returned DC type is not the one the session is connected to.
AcquireMediaKey(s) ==
    LET p == priv[s]
        acquired == Acquirable(s, p)
        q == [p EXCEPT !.creator = IF acquired = "None" THEN @ ELSE "idle"]
        wrongDc == /\ q.creator # "none"
                   /\ AcquiredDcType(p, acquired) # p.currentDcType
    IN  /\ Owned(s) /\ p.place = "acquire"
        /\ TakeKeyCreation(s, acquired)
        /\ SetPrivate(s, IF wrongDc THEN Disconnected([q EXCEPT !.place = "idle"])
                         ELSE StartCreator(q))
        /\ UNCHANGED <<persistentKey, temporaryKeys, mainVars, phase, pending,
                       serverVars>>

\* The transport of the session is lost, or refuses to connect: handleError
\* (other than -404), onDisconnected, waitReceivedFailed, waitConnectedFailed.
ConnectionLost(s) ==
    /\ Idle(s) /\ priv[s].conn # "down"
    /\ SetPrivate(s, Disconnected(priv[s]))
    /\ UNCHANGED <<dcVars, mainVars, phase, myKeyCreation, pending, serverVars>>

-----------------------------------------------------------------------------
(* Creating a key *)

UsedTemporary == {temporaryKeys[c] : c \in Clusters} \cup {priv[s].keyId : s \in Sessions}
FreshTemporary == TemporaryKeys \ UsedTemporary
UsedPersistent ==
    {persistentKey, keysForWrite}
    \cup {priv[s].binder : s \in Sessions}
    \cup {boundTo[t] : t \in TemporaryKeys \ FreshTemporary}
    \cup {e.key : e \in {queue[i] : i \in {j \in DOMAIN queue : queue[j].kind # "temporary"}}}
FreshPersistent == PersistentKeys \ UsedPersistent

\* Mutant: the persistent key is bound to without checking that there is one.
UnboundReadyUnchecked(s) ==
    /\ Idle(s) /\ priv[s].conn = "up" /\ priv[s].creator = "started" /\ ~IsCdn
    /\ \E t \in FreshTemporary,
          key \in IF myKeyCreation[s] = "Persistent"
                  THEN FreshPersistent ELSE {persistentKey} :
         /\ dead' = dead \ ({t} \cup ({key} \ UsedPersistent))
         /\ boundTo' = [boundTo EXCEPT ![t] = NoKey]
         /\ madeAt' = [madeAt EXCEPT ![t] = KeyType(priv[s].currentDcType)]
         /\ SetPrivate(s, [priv[s] EXCEPT !.creator = "bound", !.binder = key,
                                          !.keyId = t])
    /\ UNCHANGED <<dcVars, mainVars, phase, myKeyCreation, pending>>

\* unboundReady with a result: the key pair is generated, the persistent key
\* is the new one or the Dcenter's, and the temporary key is applied.
UnboundReady(s) ==
    /\ Idle(s) /\ priv[s].conn = "up" /\ priv[s].creator = "started" /\ ~IsCdn
    /\ \E t \in FreshTemporary,
          key \in IF myKeyCreation[s] = "Persistent"
                  THEN FreshPersistent ELSE {persistentKey} :
         /\ dead' = dead \ ({t} \cup ({key} \ UsedPersistent))
         /\ boundTo' = [boundTo EXCEPT ![t] = NoKey]
         /\ madeAt' = [madeAt EXCEPT ![t] = KeyType(priv[s].currentDcType)]
         /\ IF key = NoKey
            THEN /\ ReleaseKeyCreationOnFail(s)
                 /\ SetPrivate(s, Disconnected(NoCreator(priv[s])))
            ELSE /\ SetPrivate(s, [priv[s] EXCEPT !.creator = "bound",
                                                  !.binder = key, !.keyId = t])
                 /\ UNCHANGED <<creatingKeys, myKeyCreation>>
    /\ UNCHANGED <<persistentKey, temporaryKeys, mainVars, phase, pending>>

\* unboundReady in a CDN session: its temporary key is not bound to anything.
CdnKeyReady(s) ==
    /\ Idle(s) /\ priv[s].conn = "up" /\ priv[s].creator = "started" /\ IsCdn
    /\ Room(1)
    /\ \E t \in FreshTemporary :
         /\ dead' = dead \ {t}
         /\ boundTo' = [boundTo EXCEPT ![t] = NoKey]
         /\ madeAt' = [madeAt EXCEPT ![t] = KeyType(priv[s].currentDcType)]
         /\ ReleaseKeyCreationOnDone(s, t, NoKey)
         /\ LET p == NoCreator([priv[s] EXCEPT !.keyId = t])
            IN  SetPrivate(s, IF ReleaseAccepted(s, NoKey) THEN p ELSE Disconnected(p))
    /\ UNCHANGED <<keysForWrite, options, phase, pending>>

\* Mutant: the claim is not released.
UnboundFailedKeepingClaim(s) ==
    /\ Idle(s) /\ priv[s].conn = "up" /\ priv[s].creator = "started"
    /\ SetPrivate(s, Disconnected(NoCreator(priv[s])))
    /\ UNCHANGED <<dcVars, mainVars, phase, myKeyCreation, pending, serverVars>>

\* unboundReady with an error.  A CDN session that does not know the server's
\* public key stays connected and asks for the CDN config.
UnboundFailed(s) ==
    /\ Idle(s) /\ priv[s].conn = "up" /\ priv[s].creator = "started"
    /\ ReleaseKeyCreationOnFail(s)
    /\ \/ SetPrivate(s, Disconnected(NoCreator(priv[s])))
       \/ IsCdn /\ SetPrivate(s, NoCreator(priv[s]))
    /\ UNCHANGED <<persistentKey, temporaryKeys, mainVars, phase, pending, serverVars>>

\* tryToSend: auth.bindTempAuthKey is sent once per connection.
SendBindRequest(s) ==
    /\ Idle(s) /\ priv[s].conn = "up" /\ priv[s].creator = "bound"
    /\ priv[s].bind = "none"
    /\ SetPrivate(s, [priv[s] EXCEPT !.bind = "sent"])
    /\ UNCHANGED <<dcVars, mainVars, phase, myKeyCreation, pending, serverVars>>

\* handleBindResponse, DcKeyBindState::Success.
BindSucceeded(s) ==
    LET p == priv[s]
    IN  /\ Idle(s) /\ p.conn = "up" /\ p.bind = "ok" /\ p.creator = "bound"
        /\ Room(1)
        /\ ReleaseKeyCreationOnDone(s, p.keyId, p.binder)
        /\ SetPrivate(s, [NoCreator(p) EXCEPT !.bind = "none",
              !.place = IF ReleaseAccepted(s, p.binder) THEN "idle" ELSE "release"])
        /\ UNCHANGED <<keysForWrite, options, phase, pending, serverVars>>

\* handleBindResponse, DefinitelyDestroyed, and the persistent key is old
\* enough (destroyOldEnoughPersistentKey).
BindKeyDestroyed(s) ==
    LET p == priv[s]
    IN  /\ Idle(s) /\ p.conn = "up" /\ p.bind = "destroyed" /\ p.creator = "bound"
        /\ Room(2)
        /\ queue' = Append(queue, [kind |-> "destroyed", key |-> p.binder])
        /\ SetPrivate(s, [p EXCEPT !.bind = "none", !.place = "release"])
        /\ UNCHANGED <<dcVars, keysForWrite, options, phase, myKeyCreation, pending,
                       serverVars>>

\* handleBindResponse, Failed, or DefinitelyDestroyed with a key that is less
\* than kKeyOldEnoughForDestroy old: the request is sent again.
BindFailed(s) ==
    LET p == priv[s]
    IN  /\ Idle(s) /\ p.conn = "up" /\ p.creator = "bound"
        /\ p.bind \in {"failed", "destroyed"}
        /\ SetPrivate(s, [p EXCEPT !.bind = "none"])
        /\ UNCHANGED <<dcVars, mainVars, phase, myKeyCreation, pending, serverVars>>

-----------------------------------------------------------------------------
(* Losing a key *)

\* Whether the server answers packets encrypted with the session's key ...
KnownToServer(s) ==
    LET p == priv[s]
    IN  /\ p.keyId # NoKey /\ p.keyId \notin dead
        /\ madeAt[p.keyId] = KeyType(p.currentDcType)
\* ... and also requests, because it is bound to a persistent key.
AcceptsRequests(s) ==
    KnownToServer(s) /\ (IsCdn \/ boundTo[priv[s].keyId] \notin dead \cup {NoKey})

\* handleError(-404): the server does not know the key.
KeyNotFound(s) ==
    /\ Idle(s) /\ priv[s].conn = "up" /\ priv[s].keyId # NoKey /\ ~KnownToServer(s)
    /\ Room(1)
    /\ SetPrivate(s, [Disconnected(priv[s]) EXCEPT !.place = "release"])
    /\ UNCHANGED <<dcVars, mainVars, phase, myKeyCreation, pending, serverVars>>

\* rpc_result with AUTH_KEY_PERM_EMPTY.  Requests are not sent while a key
\* is being created (sendAll in tryToSend).
PermanentKeyEmpty(s) ==
    /\ Idle(s) /\ priv[s].conn = "up" /\ ~Creating(s)
    /\ KnownToServer(s) /\ ~AcceptsRequests(s)
    /\ Room(1)
    /\ SetPrivate(s, [priv[s] EXCEPT !.place = "release"])
    /\ UNCHANGED <<dcVars, mainVars, phase, myKeyCreation, pending, serverVars>>

\* destroyTemporaryKey, first access to the Dcenter: releaseKeyCreationOnFail.
ReleaseBeforeDestroy(s) ==
    /\ Owned(s) /\ priv[s].place = "release"
    /\ ReleaseKeyCreationOnFail(s)
    /\ SetPrivate(s, [NoCreator(priv[s]) EXCEPT !.place = "destroy"])
    /\ UNCHANGED <<persistentKey, temporaryKeys, mainVars, phase, pending, serverVars>>

\* Mutant: the session keeps the destroyed key.
DestroyKeepingKeyId(s) ==
    LET p == priv[s]
        found == {c \in Clusters : temporaryKeys[c] = p.keyId /\ p.keyId # NoKey}
    IN  /\ Owned(s) /\ p.place = "destroy"
        /\ temporaryKeys' = [c \in Clusters |-> IF c \in found THEN NoKey
                                                ELSE temporaryKeys[c]]
        /\ IF found = {} THEN UNCHANGED queue
           ELSE queue' = Append(queue, [kind |-> "temporary"])
        /\ SetPrivate(s, Disconnected([p EXCEPT !.place = "idle"]))
        /\ UNCHANGED <<persistentKey, creatingKeys, keysForWrite, options, phase,
                       myKeyCreation, pending, serverVars>>

\* destroyTemporaryKey, second access: Dcenter::destroyTemporaryKey, then
\* applyAuthKey(nullptr) and restart.
DestroyTemporaryKey(s) ==
    LET p == priv[s]
        found == {c \in Clusters : temporaryKeys[c] = p.keyId /\ p.keyId # NoKey}
    IN  /\ Owned(s) /\ p.place = "destroy"
        /\ temporaryKeys' = [c \in Clusters |-> IF c \in found THEN NoKey
                                                ELSE temporaryKeys[c]]
        /\ IF found = {} THEN UNCHANGED queue
           ELSE queue' = Append(queue, [kind |-> "temporary"])
        /\ SetPrivate(s, Disconnected([p EXCEPT !.keyId = NoKey, !.place = "idle"]))
        /\ UNCHANGED <<persistentKey, creatingKeys, keysForWrite, options, phase,
                       myKeyCreation, pending, serverVars>>

-----------------------------------------------------------------------------
(* Instance: the main thread *)

\* dcTemporaryKeyChanged fires, and every Session that has a SessionPrivate
\* queues the calls to it.
Notify(calls) ==
    /\ \A s \in Sessions : Len(pending[s]) + Len(calls) <= MaxPending
    /\ pending' = [s \in Sessions |-> IF phase[s] = "running"
                                      THEN pending[s] \o calls ELSE pending[s]]

TemporaryKeyChanged ==
    /\ queue # <<>> /\ Head(queue).kind = "temporary"
    /\ queue' = Tail(queue)
    /\ Notify(<<"updateAuthKey">>)
    /\ UNCHANGED <<dcVars, keysForWrite, options, phase, myKeyCreation, priv, serverVars>>

PersistentKeyChanged ==
    /\ queue # <<>> /\ Head(queue).kind = "persistent"
    /\ queue' = Tail(queue)
    /\ keysForWrite' = Head(queue).key
    /\ Notify(<<"updateAuthKey">>)
    /\ UNCHANGED <<dcVars, options, phase, myKeyCreation, priv, serverVars>>

\* Mutant: the saved key is left as it is.
KeyDestroyedNotSaved ==
    /\ queue # <<>> /\ Head(queue).kind = "destroyed"
    /\ queue' = Tail(queue)
    /\ IF persistentKey = Head(queue).key
       THEN /\ persistentKey' = NoKey
            /\ temporaryKeys' = [c \in Clusters |-> NoKey]
            /\ Notify(<<"updateAuthKey", "restartNow">>)
       ELSE /\ Notify(<<"restartNow">>)
            /\ UNCHANGED <<persistentKey, temporaryKeys>>
    /\ UNCHANGED <<creatingKeys, keysForWrite, options, phase, myKeyCreation, priv,
                   serverVars>>

\* keyDestroyedOnServer: Dcenter::destroyConfirmedForgottenKey, then
\* dcPersistentKeyChanged(nullptr), and restart of the sessions of the DC.
KeyDestroyedOnServer ==
    /\ queue # <<>> /\ Head(queue).kind = "destroyed"
    /\ queue' = Tail(queue)
    /\ IF persistentKey = Head(queue).key
       THEN /\ persistentKey' = NoKey
            /\ temporaryKeys' = [c \in Clusters |-> NoKey]
            /\ keysForWrite' = NoKey
            /\ Notify(<<"updateAuthKey", "restartNow">>)
       ELSE /\ Notify(<<"restartNow">>)
            /\ UNCHANGED <<persistentKey, temporaryKeys, keysForWrite>>
    /\ UNCHANGED <<creatingKeys, options, phase, myKeyCreation, priv, serverVars>>

\* A new config is applied to DcOptions.
MediaOptionsChanged ==
    /\ ConfigMayChange
    /\ options' = [options EXCEPT !.media = ~@]
    /\ UNCHANGED <<dcVars, queue, keysForWrite, phase, myKeyCreation, priv, pending,
                   serverVars>>

CdnConfigLoaded ==
    /\ IsCdn /\ ~options.cdnKeys
    /\ options' = [options EXCEPT !.cdnKeys = TRUE]
    /\ UNCHANGED <<dcVars, queue, keysForWrite, phase, myKeyCreation, priv, pending,
                   serverVars>>

-----------------------------------------------------------------------------
(* Session: its life cycle, driven by the main thread *)

\* Session::stop: the SessionPrivate is deleted by its own thread, later.
Stop(s) ==
    /\ s \in StoppableSessions /\ phase[s] = "running"
    /\ phase' = [phase EXCEPT ![s] = "stopping"]
    /\ UNCHANGED <<dcVars, mainVars, myKeyCreation, priv, pending, serverVars>>

\* Mutant: the destructor does not release the claim.
PrivateDeletedKeepingClaim(s) ==
    /\ phase[s] = "stopping" /\ priv[s].place = "idle"
    /\ SetPrivate(s, InitPrivate(DcType(s)))
    /\ phase' = [phase EXCEPT ![s] = "stopped"]
    /\ pending' = [pending EXCEPT ![s] = <<>>]
    /\ UNCHANGED <<dcVars, mainVars, myKeyCreation, serverVars>>

\* ~SessionPrivate
PrivateDeleted(s) ==
    /\ phase[s] = "stopping" /\ priv[s].place = "idle"
    /\ ReleaseKeyCreationOnFail(s)
    /\ SetPrivate(s, InitPrivate(DcType(s)))
    /\ phase' = [phase EXCEPT ![s] = "stopped"]
    /\ pending' = [pending EXCEPT ![s] = <<>>]
    /\ UNCHANGED <<persistentKey, temporaryKeys, mainVars, serverVars>>

\* Session::needToResumeAndSend without a SessionPrivate
Resume(s) ==
    /\ phase[s] = "stopped"
    /\ SetPrivate(s, InitPrivate(DcType(s)))
    /\ phase' = [phase EXCEPT ![s] = "running"]
    /\ UNCHANGED <<dcVars, mainVars, myKeyCreation, pending, serverVars>>

\* Instance::scheduleSessionDestroy, Session::kill: the SessionPrivate is
\* detached, so none of its handlers can reach the Dcenter any more.
Kill(s) ==
    /\ s \in StoppableSessions /\ phase[s] \in {"running", "stopping", "stopped"}
    /\ phase' = [phase EXCEPT ![s] = "killed"]
    /\ SetPrivate(s, InitPrivate(DcType(s)))
    /\ pending' = [pending EXCEPT ![s] = <<>>]
    /\ UNCHANGED <<dcVars, mainVars, myKeyCreation, serverVars>>

\* _sessionsToDestroy.clear(), ~Session
SessionDestroyed(s) ==
    /\ phase[s] = "killed"
    /\ phase' = [phase EXCEPT ![s] = "gone"]
    /\ IF myKeyCreation[s] = "None" THEN UNCHANGED <<creatingKeys, myKeyCreation>>
       ELSE /\ creatingKeys' = creatingKeys \ {IndexByType(myKeyCreation[s])}
            /\ myKeyCreation' = [myKeyCreation EXCEPT ![s] = "None"]
    /\ UNCHANGED <<persistentKey, temporaryKeys, mainVars, priv, pending, serverVars>>

\* Instance::startSession, Session::Session
StartSession(s) ==
    /\ phase[s] = "gone"
    /\ SetPrivate(s, InitPrivate(DcType(s)))
    /\ phase' = [phase EXCEPT ![s] = "running"]
    /\ UNCHANGED <<dcVars, mainVars, myKeyCreation, pending, serverVars>>

-----------------------------------------------------------------------------
(* The server *)

\* It answers auth.bindTempAuthKey, unless it does not know the temporary key:
\* boolTrue, or ENCRYPTED_MESSAGE_INVALID when the persistent key is destroyed.
BindAnswerable(s) ==
    Owned(s) /\ priv[s].creator = "bound" /\ priv[s].bind = "sent" /\ priv[s].keyId \notin dead

ServerAnswersBind(s) ==
    LET p == priv[s]
    IN  /\ BindAnswerable(s)
        /\ \/ /\ p.binder \notin dead
              /\ SetPrivate(s, [p EXCEPT !.bind = "ok"])
              /\ boundTo' = [boundTo EXCEPT ![p.keyId] = p.binder]
           \/ /\ p.binder \in dead
              /\ SetPrivate(s, [p EXCEPT !.bind = "destroyed"])
              /\ UNCHANGED boundTo
        /\ UNCHANGED <<dcVars, mainVars, phase, myKeyCreation, pending, dead, madeAt>>

\* ... or it answers with any other error.
ServerFailsBind(s) ==
    /\ BindAnswerable(s)
    /\ SetPrivate(s, [priv[s] EXCEPT !.bind = "failed"])
    /\ UNCHANGED <<dcVars, mainVars, phase, myKeyCreation, pending, serverVars>>

\* Temporary keys expire, or are forgotten.
ServerForgetsTemporary(t) ==
    /\ TemporaryMayDie /\ t \in UsedTemporary \ dead
    /\ dead' = dead \cup {t}
    /\ UNCHANGED <<dcVars, mainVars, phase, myKeyCreation, priv, pending, boundTo, madeAt>>

ServerDestroysPersistent(key) ==
    /\ PersistentMayDie /\ key \in UsedPersistent \ dead
    /\ dead' = dead \cup {key}
    /\ UNCHANGED <<dcVars, mainVars, phase, myKeyCreation, priv, pending, boundTo, madeAt>>

-----------------------------------------------------------------------------
(* Specification *)

\* Dcenter::Dcenter with the key read from disk, if any.
Init ==
    /\ persistentKey \in IF IsCdn THEN {NoKey} ELSE PersistentKeys \cup {NoKey}
    /\ keysForWrite = persistentKey
    /\ temporaryKeys = [c \in Clusters |-> NoKey]
    /\ creatingKeys = {}
    /\ queue = <<>>
    /\ options \in [media : IF ConfigMayChange THEN BOOLEAN ELSE {TRUE},
                   cdnKeys : IF IsCdn THEN BOOLEAN ELSE {FALSE}]
    /\ phase = [s \in Sessions |-> "running"]
    /\ myKeyCreation = [s \in Sessions |-> "None"]
    /\ priv = [s \in Sessions |-> InitPrivate(DcType(s))]
    /\ pending = [s \in Sessions |-> <<>>]
    /\ dead = {}
    /\ boundTo = [t \in TemporaryKeys |-> NoKey]
    /\ madeAt = [t \in TemporaryKeys |-> "Regular"]

Connect(s) == ConnectToServer(s) \/ ConnectAfterTypeChange(s) \/ OnConnected(s)
Update(s) == UpdateAuthKey(s) \/ RestartNow(s)
Acquire(s) == CheckRegularKey(s) \/ AcquireMediaKey(s)
Create(s) == UnboundReady(s) \/ CdnKeyReady(s)
Bind(s) == SendBindRequest(s) \/ BindSucceeded(s) \/ BindKeyDestroyed(s) \/ BindFailed(s)
Refused(s) == KeyNotFound(s) \/ PermanentKeyEmpty(s)
Destroy(s) == ReleaseBeforeDestroy(s) \/ DestroyTemporaryKey(s)
Life(s) == Stop(s) \/ PrivateDeleted(s) \/ Resume(s) \/ Kill(s)
           \/ SessionDestroyed(s) \/ StartSession(s)
\* What goes wrong by itself.
Failure ==
    \/ \E s \in Sessions : UnboundFailed(s) \/ ConnectionLost(s) \/ ServerFailsBind(s)
    \/ \E t \in TemporaryKeys : ServerForgetsTemporary(t)
    \/ \E key \in PersistentKeys : ServerDestroysPersistent(key)
    \/ MediaOptionsChanged

Next ==
    \/ \E s \in Sessions : \/ Connect(s) \/ Update(s) \/ Acquire(s) \/ Create(s)
                           \/ Bind(s) \/ Refused(s) \/ Destroy(s) \/ Life(s)
                           \/ ServerAnswersBind(s)
    \/ TemporaryKeyChanged \/ PersistentKeyChanged \/ KeyDestroyedOnServer
    \/ CdnConfigLoaded
    \/ Failure

Spec == Init /\ [][Next]_vars

\* What the threads and the server do without being asked: handlers of queued
\* calls and timers run, the server answers.  Failures are not fair.
Fairness ==
    /\ \A s \in Sessions :
         /\ WF_vars(Connect(s)) /\ WF_vars(Update(s)) /\ WF_vars(Acquire(s))
         /\ WF_vars(Create(s)) /\ WF_vars(SendBindRequest(s))
         /\ WF_vars(BindSucceeded(s)) /\ WF_vars(BindKeyDestroyed(s) \/ BindFailed(s))
         /\ WF_vars(Refused(s)) /\ WF_vars(Destroy(s)) /\ WF_vars(ServerAnswersBind(s))
         /\ WF_vars(PrivateDeleted(s)) /\ WF_vars(SessionDestroyed(s))
    /\ WF_vars(TemporaryKeyChanged \/ PersistentKeyChanged \/ KeyDestroyedOnServer)

FairSpec == Spec /\ Fairness

-----------------------------------------------------------------------------
(* Properties *)

TypeOK ==
    /\ persistentKey \in PersistentKeys \cup {NoKey}
    /\ temporaryKeys \in [Clusters -> TemporaryKeys \cup {NoKey}]
    /\ creatingKeys \subseteq Clusters
    /\ queue \in Seq(KeyEvents)
    /\ keysForWrite \in PersistentKeys \cup {NoKey}
    /\ options \in [media : BOOLEAN, cdnKeys : BOOLEAN]
    /\ phase \in [Sessions -> Phases]
    /\ myKeyCreation \in [Sessions -> CreatingTypes]
    /\ priv \in [Sessions -> Privates]
    /\ pending \in [Sessions -> Seq({"updateAuthKey", "restartNow"})]
    /\ dead \subseteq PersistentKeys \cup TemporaryKeys
    /\ boundTo \in [TemporaryKeys -> PersistentKeys \cup {NoKey}]
    /\ madeAt \in [TemporaryKeys -> Clusters]

\* At most one session is creating the key of a cluster, and while it does the
\* Dcenter's flag is up and the key is still missing: the preconditions
\* (Expects) of both release functions, whatever the other threads do.
CreationExclusive ==
    /\ \A s \in Sessions : myKeyCreation[s] # "None" =>
         /\ IndexByType(myKeyCreation[s]) \in creatingKeys
         /\ temporaryKeys[IndexByType(myKeyCreation[s])] = NoKey
    /\ \A s, t \in Sessions :
         /\ myKeyCreation[s] # "None" /\ myKeyCreation[t] # "None"
         /\ IndexByType(myKeyCreation[s]) = IndexByType(myKeyCreation[t])
         => s = t

\* Session and SessionPrivate, on two threads, agree on whether this session
\* creates a key, as the Expects of Session's acquire and release require.
CreatorHoldsClaim ==
    \A s \in Sessions : Owned(s) => (Creating(s) <=> myKeyCreation[s] # "None")

\* An installed temporary key is one the server has bound to the Dcenter's
\* current persistent key: a key bound to a replaced one is never installed.
InstalledKeysBound ==
    \A c \in Clusters : temporaryKeys[c] # NoKey /\ ~IsCdn =>
        persistentKey # NoKey /\ boundTo[temporaryKeys[c]] = persistentKey

\* Once the main thread has caught up, the key saved to disk is the one in use.
SavedKeyIsCurrent == queue = <<>> => keysForWrite = persistentKey

\* No wakeup is lost: a connected session that waits for a key someone else
\* creates is told of it once the key is installed, although it read the
\* Dcenter before and was not the one to install it.
Waiting(s) ==
    /\ phase[s] = "running" /\ priv[s].place = "idle" /\ priv[s].conn = "up"
    /\ ~Creating(s) /\ priv[s].keyId = NoKey
UpdateOnItsWay(s) ==
    \/ \E i \in DOMAIN queue : queue[i].kind # "destroyed"
                               \/ queue[i].key = persistentKey
    \/ \E i \in DOMAIN pending[s] : pending[s][i] = "updateAuthKey"
NoLostWakeup ==
    \A s \in Sessions :
        Waiting(s) /\ temporaryKeys[KeyType(priv[s].currentDcType)] # NoKey
        => UpdateOnItsWay(s)

\* A connection never changes the key it encrypts with
\* (Assert(!_connection->sentEncryptedWithKeyId()) in applyAuthKey).
KeyFixedPerConnection ==
    [][\A s \in Sessions :
         /\ phase[s] = "running" /\ phase'[s] = "running"
         /\ priv[s].conn = "up" /\ priv'[s].conn = "up" /\ priv[s].keyId # NoKey
         => priv'[s].keyId = priv[s].keyId]_vars

\* If failures stop, every session ends up connected with a key the server
\* accepts requests with, and keeps it: creation is neither abandoned nor
\* fought over for ever, and every waiter is woken.
Usable(s) == /\ priv[s].conn = "up" /\ ~Creating(s)
             /\ priv[s].keyId # NoKey /\ AcceptsRequests(s)
EventuallyKeyed ==
    <>[][~Failure]_vars => \A s \in Sessions : <>[](phase[s] = "running" => Usable(s))

-----------------------------------------------------------------------------
(* The inductive invariant behind CreationExclusive, CreatorHoldsClaim,     *)
(* InstalledKeysBound and KeyFixedPerConnection                            *)

\* A session without a SessionPrivate of its own runs no handler, and once
\* that has been deleted, or the Session has, its claim is released.
ClaimsEnd ==
    \A s \in Sessions :
        /\ ~Owned(s) => ~Creating(s) /\ priv[s].place = "idle"
        /\ phase[s] \in {"stopped", "gone"} => myKeyCreation[s] = "None"
        /\ priv[s].place = "destroy" => ~Creating(s)

\* Nobody sets the persistent key while a session is creating one, which no
\* CDN session does.
PersistentClaim ==
    \A s \in Sessions :
        /\ myKeyCreation[s] = "Persistent" => persistentKey = NoKey /\ ~IsCdn
        /\ IsCdn => priv[s].realDcType = "Cdn"

\* A key that is generated on a connection is its first, ...
StartedUnkeyed ==
    \A s \in Sessions :
        priv[s].creator = "started" \/ priv[s].place \in {"noMediaKey", "acquire"}
        => priv[s].keyId = NoKey /\ priv[s].conn = "up"

\* ... and until it is bound only its creator knows it.
BoundKeyPrivate ==
    \A s \in Sessions : priv[s].creator = "bound" =>
        /\ priv[s].binder \in PersistentKeys /\ priv[s].keyId \in TemporaryKeys
        /\ \A c \in Clusters : temporaryKeys[c] # priv[s].keyId
        /\ \A t \in Sessions \ {s} : priv[t].keyId # priv[s].keyId

\* An answer to auth.bindTempAuthKey is about the key of the creator that
\* asked, never about that of an earlier one.
BindAnswerCurrent ==
    \A s \in Sessions :
        LET p == priv[s]
        IN  /\ p.creator = "bound" /\ p.bind = "ok" => boundTo[p.keyId] = p.binder
            /\ p.conn # "down" /\ (p.creator # "bound" \/ p.place # "idle")
               => p.bind = "none"

KeyInvariant ==
    /\ TypeOK
    /\ CreationExclusive
    /\ CreatorHoldsClaim
    /\ ClaimsEnd
    /\ PersistentClaim
    /\ StartedUnkeyed
    /\ BoundKeyPrivate
    /\ BindAnswerCurrent
    /\ InstalledKeysBound

-----------------------------------------------------------------------------
(* The inductive invariant behind SavedKeyIsCurrent and NoLostWakeup: what  *)
(* the queued calls still have to say                                      *)

\* Until the main thread is told of the persistent key in use, the call that
\* tells it is queued, and nothing queued before it destroys that key.
SavedKeyFollows ==
    /\ (\A i \in DOMAIN queue : queue[i].kind # "persistent") => keysForWrite = persistentKey
    /\ \A i, j \in DOMAIN queue : queue[i].kind = "persistent" =>
         /\ queue[i].key = persistentKey
         /\ j < i /\ queue[j].kind = "destroyed" => queue[j].key # persistentKey

\* A new persistent key belongs to its creator, and is in no queued call until
\* the creator installs it or reports that it is destroyed.
NewKeyUnheard ==
    \A s \in Sessions : myKeyCreation[s] = "Persistent" /\ priv[s].creator = "bound" =>
        /\ \A t \in Sessions \ {s} : priv[t].binder # priv[s].binder
        /\ priv[s].place = "idle" =>
             \A i \in DOMAIN queue : queue[i].kind # "temporary" =>
                 queue[i].key # priv[s].binder

\* All of a CDN datacenter's keys are of the "Regular" cluster.
CdnStays ==
    IsCdn => \A s \in Sessions : /\ priv[s].currentDcType = "Cdn"
                                /\ myKeyCreation[s] \in {"None", "TemporaryRegular"}

\* Whoever found no key, or is about to, hears of the key that is there now:
\* through a call to the main thread, or one to the session itself.
Listening(s) ==
    /\ phase[s] = "running" /\ priv[s].conn = "up" /\ priv[s].keyId = NoKey
    /\ ~Creating(s) /\ priv[s].place \in {"idle", "noMediaKey", "acquire"}
NewsOnItsWay(s) ==
    \/ \E i \in DOMAIN queue : queue[i].kind # "destroyed"
    \/ \E i \in DOMAIN pending[s] : pending[s][i] = "updateAuthKey"
ListenersHear ==
    \A s \in Sessions :
        Listening(s) /\ temporaryKeys[KeyType(priv[s].currentDcType)] # NoKey
        => NewsOnItsWay(s)

\* KeyInvariant and the above.
CallsInvariant ==
    /\ KeyInvariant
    /\ SavedKeyFollows
    /\ NewKeyUnheard
    /\ CdnStays
    /\ ListenersHear

-----------------------------------------------------------------------------
(* What the source says of itself and a run refutes *)

\* "someone is creating already, waiting.": while the Dcenter says that a key
\* is being created, some session is its creator.
SomeoneIsCreating ==
    \A c \in creatingKeys :
        \E s \in Sessions : myKeyCreation[s] # "None" /\ IndexByType(myKeyCreation[s]) = c
=============================================================================
