---------------------------- MODULE DcKeysProofs ----------------------------
(***************************************************************************)
(* Proofs about DcKeys: the inductive invariant KeyInvariant, and what      *)
(* follows from it, for any set of sessions and any keys.                  *)
(*                                                                         *)
(* TypeOK needs two of the other conjuncts (a bound creator has keys, a    *)
(* CDN session creates no persistent one) and is proved action by action.  *)
(* For the rest the actions fall into those that change one SessionPrivate *)
(* and leave the claims alone (QuietStep) and those that take, drop or     *)
(* fulfil a claim (TakeClaim, DropClaim, InstallClaim with ClaimStep).     *)
(***************************************************************************)
EXTENDS DcKeys, SequenceTheorems, TLAPS

-----------------------------------------------------------------------------
(* Types                                                                   *)

\* The transformations of a SessionPrivate's fields keep their types ...
LEMMA PrivateTransformations ==
    ASSUME NEW p \in Privates
    PROVE  /\ Disconnected(p) \in Privates
           /\ NoCreator(p) \in Privates
           /\ StartCreator(p) \in Privates
           /\ \A key \in TemporaryKeys \cup {NoKey} : ApplyFirstKey(p, key) \in Privates
<1>1. Disconnected(p) \in Privates
  BY DEF Disconnected, Privates
<1>2. NoCreator(p) \in Privates
  BY DEF NoCreator, Privates
<1>3. StartCreator(p) \in Privates
  BY DEF StartCreator, Privates, Places
<1>4. ASSUME NEW key \in TemporaryKeys \cup {NoKey}
      PROVE  ApplyFirstKey(p, key) \in Privates
  <2>1. [p EXCEPT !.keyId = key] \in Privates /\ [p EXCEPT !.place = "noMediaKey"] \in Privates
    BY DEF Privates, Places
  <2> QED BY <2>1, <1>3 DEF ApplyFirstKey
<1> QED BY <1>1, <1>2, <1>3, <1>4

\* Writing one session's fields keeps priv a function into Privates.
LEMMA SetPrivateType ==
    ASSUME TypeOK, NEW s \in Sessions, NEW p \in Privates, SetPrivate(s, p)
    PROVE  priv' \in [Sessions -> Privates]
  BY DEF TypeOK, SetPrivate

\* ... and so do assignments to single fields.
LEMMA PrivateUpdates ==
    ASSUME NEW p \in Privates
    PROVE  /\ \A x \in {"down", "testing", "up"} : [p EXCEPT !.conn = x] \in Privates
           /\ \A x \in {"none", "sent", "ok", "destroyed", "failed"} :
                [p EXCEPT !.bind = x] \in Privates
           /\ \A x \in Places : [p EXCEPT !.place = x] \in Privates
           /\ \A x \in DcTypes : [p EXCEPT !.realDcType = x] \in Privates
           /\ \A x \in {"none", "idle", "started", "bound"} :
                [p EXCEPT !.creator = x] \in Privates
           /\ \A x \in TemporaryKeys \cup {NoKey} : [p EXCEPT !.keyId = x] \in Privates
           /\ p.currentDcType \in DcTypes /\ p.realDcType \in DcTypes
           /\ p.keyId \in TemporaryKeys \cup {NoKey}
           /\ p.binder \in PersistentKeys \cup {NoKey}
  BY DEF Privates

\* Queueing calls to the sessions keeps the queues' types.
LEMMA NotifyType ==
    ASSUME TypeOK, NEW calls \in Seq({"updateAuthKey", "restartNow"}), Notify(calls)
    PROVE  pending' \in [Sessions -> Seq({"updateAuthKey", "restartNow"})]
<1> SUFFICES ASSUME NEW s \in Sessions
             PROVE  pending[s] \o calls \in Seq({"updateAuthKey", "restartNow"})
  BY DEF TypeOK, Notify
<1> QED BY ConcatProperties DEF TypeOK

\* The calls that are queued have the type of calls.
LEMMA CallsType ==
    /\ <<"updateAuthKey">> \in Seq({"updateAuthKey", "restartNow"})
    /\ <<"restartNow">> \in Seq({"updateAuthKey", "restartNow"})
    /\ <<"updateAuthKey", "restartNow">> \in Seq({"updateAuthKey", "restartNow"})
  OBVIOUS

\* acquireKeyCreation returns a CreatingKeyType ...
LEMMA AcquireType ==
    ASSUME NEW type \in DcTypes
    PROVE  AcquireKeyCreation(type) \in CreatingTypes
  BY DEF AcquireKeyCreation, CreatingTypes

\* ... and what it writes has its type, ...
LEMMA TakeType ==
    ASSUME TypeOK, NEW s \in Sessions, NEW acquired \in CreatingTypes,
           TakeKeyCreation(s, acquired)
    PROVE  /\ creatingKeys' \subseteq Clusters
           /\ myKeyCreation' \in [Sessions -> CreatingTypes]
  BY DEF TypeOK, TakeKeyCreation, IndexByType, Clusters, CreatingTypes

\* ... as does what releaseKeyCreationOnFail writes ...
LEMMA ReleaseOnFailType ==
    ASSUME TypeOK, NEW s \in Sessions, ReleaseKeyCreationOnFail(s)
    PROVE  /\ creatingKeys' \subseteq Clusters
           /\ myKeyCreation' \in [Sessions -> CreatingTypes]
  BY DEF TypeOK, ReleaseKeyCreationOnFail, CreatingTypes

\* ... and releaseKeyCreationOnDone, if it is given a key to save.
LEMMA ReleaseOnDoneType ==
    ASSUME TypeOK, NEW s \in Sessions, NEW t \in TemporaryKeys,
           NEW used \in PersistentKeys \cup {NoKey},
           myKeyCreation[s] = "Persistent" => used \in PersistentKeys,
           ReleaseKeyCreationOnDone(s, t, used)
    PROVE  /\ persistentKey' \in PersistentKeys \cup {NoKey}
           /\ temporaryKeys' \in [Clusters -> TemporaryKeys \cup {NoKey}]
           /\ creatingKeys' \subseteq Clusters
           /\ queue' \in Seq(KeyEvents)
           /\ myKeyCreation' \in [Sessions -> CreatingTypes]
<1>1. myKeyCreation' \in [Sessions -> CreatingTypes]
  BY DEF TypeOK, ReleaseKeyCreationOnDone, CreatingTypes
<1>2. CASE ~ReleaseAccepted(s, used)
  BY <1>1, <1>2 DEF TypeOK, ReleaseKeyCreationOnDone, dcVars
<1>3. CASE ReleaseAccepted(s, used)
  <2> DEFINE event == IF myKeyCreation[s] = "Persistent"
                      THEN <<[kind |-> "persistent", key |-> used]>>
                      ELSE <<[kind |-> "temporary"]>>
  <2>1. Install(s, t, used, event)
    BY <1>3 DEF ReleaseKeyCreationOnDone
  <2>2. event \in Seq(KeyEvents)
    <3>1. CASE myKeyCreation[s] = "Persistent"
      <4>1. [kind |-> "persistent", key |-> used] \in KeyEvents
        BY <3>1 DEF KeyEvents
      <4> QED BY <3>1, <4>1
    <3>2. CASE myKeyCreation[s] # "Persistent"
      <4>1. [kind |-> "temporary"] \in KeyEvents
        BY DEF KeyEvents
      <4> QED BY <3>2, <4>1
    <3> QED BY <3>1, <3>2
  <2>3. queue' \in Seq(KeyEvents)
    BY <2>1, <2>2, ConcatProperties DEF Install, TypeOK
  <2>4. /\ persistentKey' \in PersistentKeys \cup {NoKey}
        /\ temporaryKeys' \in [Clusters -> TemporaryKeys \cup {NoKey}]
        /\ creatingKeys' \subseteq Clusters
    BY <2>1 DEF Install, TypeOK, IndexByType, Clusters
  <2> QED BY <1>1, <2>3, <2>4
<1> QED BY <1>2, <1>3

\* DcOptions::dcType returns a DcType.
LEMMA DcTypeType == \A s \in Sessions : DcType(s) \in DcTypes
  BY DEF DcType, DcTypes

\* tryAcquireKeyCreation acquires a CreatingKeyType and returns a DcType.
LEMMA AcquirableType ==
    ASSUME NEW s \in Sessions, NEW p \in Privates
    PROVE  /\ Acquirable(s, p) \in CreatingTypes
           /\ \A acquired : AcquiredDcType(p, acquired) \in DcTypes
<1>1. Acquirable(s, p) \in CreatingTypes
  BY PrivateUpdates, AcquireType DEF Acquirable, CreatingTypes
<1>2. ASSUME NEW acquired PROVE AcquiredDcType(p, acquired) \in DcTypes
  BY PrivateUpdates DEF AcquiredDcType, DcTypes
<1> QED BY <1>1, <1>2

\* A new SessionPrivate has the types of one.
LEMMA InitPrivateType == \A dcType \in DcTypes : InitPrivate(dcType) \in Privates
  BY DEF InitPrivate, Privates, Places

\* keyDestroyedOnServer is queued with a persistent key.
LEMMA DestroyedAppend ==
    ASSUME TypeOK, NEW key \in PersistentKeys
    PROVE  Append(queue, [kind |-> "destroyed", key |-> key]) \in Seq(KeyEvents)
<1>1. [kind |-> "destroyed", key |-> key] \in KeyEvents
  BY DEF KeyEvents
<1> QED BY <1>1, AppendProperties DEF TypeOK

\* What the main thread takes from its queue is a call with its key.
LEMMA HeadOfQueue ==
    ASSUME TypeOK, queue # <<>>
    PROVE  /\ Tail(queue) \in Seq(KeyEvents)
           /\ Head(queue).kind # "temporary" => Head(queue).key \in PersistentKeys
<1>1. Head(queue) \in KeyEvents /\ Tail(queue) \in Seq(KeyEvents)
  BY HeadTailProperties DEF TypeOK
<1> QED BY <1>1 DEF KeyEvents

\* Every step keeps every variable's type.
LEMMA TypeStep ==
    ASSUME KeyInvariant, Next
    PROVE  TypeOK'
<1> USE DEF KeyInvariant, dcVars, mainVars, serverVars
<1>priv. \A s \in Sessions : priv[s] \in Privates
  BY DEF TypeOK
<1>connect. ASSUME NEW s \in Sessions, ConnectToServer(s) PROVE TypeOK'
  <2> DEFINE p == [priv[s] EXCEPT !.realDcType = DcType(s)]
             acquired == Acquirable(s, p)
             current == AcquiredDcType(p, acquired)
             q == [p EXCEPT !.currentDcType = current,
                            !.creator = IF acquired = "None" THEN @ ELSE "idle"]
             r == [q EXCEPT !.conn = "testing", !.bind = "none"]
  <2>1. p \in Privates
    BY <1>priv, DcTypeType, PrivateUpdates
  <2>2. acquired \in CreatingTypes /\ current \in DcTypes
    BY <2>1, AcquirableType
  <2>3. q \in Privates
    <3> HIDE DEF p, acquired, current
    <3> QED BY <2>1, <2>2 DEF Privates
  <2>4. r \in Privates
    <3> HIDE DEF q
    <3> QED BY <2>3 DEF Privates
  <2>5. /\ TakeKeyCreation(s, acquired)
        /\ SetPrivate(s, IF current = "Cdn" /\ ~options.cdnKeys THEN q ELSE r)
        /\ UNCHANGED <<persistentKey, temporaryKeys, mainVars, phase, pending,
                       serverVars>>
    BY <1>connect DEF ConnectToServer
  <2> HIDE DEF p, acquired, current, q, r
  <2>6. priv' \in [Sessions -> Privates]
    BY <2>3, <2>4, <2>5, SetPrivateType
  <2>7. creatingKeys' \subseteq Clusters /\ myKeyCreation' \in [Sessions -> CreatingTypes]
    BY <2>2, <2>5, TakeType
  <2> QED BY <2>5, <2>6, <2>7 DEF TypeOK
<1>typeChange. ASSUME NEW s \in Sessions, ConnectAfterTypeChange(s) PROVE TypeOK'
  <2>1. [priv[s] EXCEPT !.realDcType = DcType(s), !.place = "release"] \in Privates
    <3>1. ASSUME NEW p \in Privates, NEW x \in DcTypes
          PROVE  [p EXCEPT !.realDcType = x, !.place = "release"] \in Privates
      BY DEF Privates, Places
    <3> QED BY <1>priv, <3>1, DcTypeType
  <2>2. priv' \in [Sessions -> Privates]
    BY <1>typeChange, <2>1, SetPrivateType DEF ConnectAfterTypeChange
  <2> QED BY <1>typeChange, <2>2 DEF ConnectAfterTypeChange, TypeOK
<1>connected. ASSUME NEW s \in Sessions, OnConnected(s) PROVE TypeOK'
  <2> DEFINE p == [priv[s] EXCEPT !.conn = "up"]
  <2>1. p \in Privates
    BY <1>priv, PrivateUpdates
  <2>2. temporaryKeys[KeyType(p.currentDcType)] \in TemporaryKeys \cup {NoKey}
    BY DEF TypeOK, KeyType, Clusters
  <2>3. priv' \in [Sessions -> Privates]
    BY <1>connected, <2>1, <2>2, PrivateTransformations, SetPrivateType DEF OnConnected
  <2> QED BY <1>connected, <2>3 DEF OnConnected, TypeOK
<1>update. ASSUME NEW s \in Sessions, UpdateAuthKey(s) PROVE TypeOK'
  <2> DEFINE p == priv[s]
             key == temporaryKeys[KeyType(p.currentDcType)]
  <2>1. p \in Privates
    BY <1>priv
  <2>2. key \in TemporaryKeys \cup {NoKey}
    BY DEF TypeOK, KeyType, Clusters
  <2>3. Disconnected([p EXCEPT !.keyId = NoKey]) \in Privates /\ ApplyFirstKey(p, key) \in Privates
    BY <2>1, <2>2, PrivateUpdates, PrivateTransformations
  <2>4. priv' \in [Sessions -> Privates]
    BY <1>update, <2>1, <2>3, SetPrivateType DEF UpdateAuthKey
  <2>5. pending' \in [Sessions -> Seq({"updateAuthKey", "restartNow"})]
    BY <1>update DEF UpdateAuthKey, TypeOK
  <2> QED BY <1>update, <2>4, <2>5 DEF UpdateAuthKey, TypeOK
<1>restart. ASSUME NEW s \in Sessions, RestartNow(s) PROVE TypeOK'
  <2>1. priv' \in [Sessions -> Privates]
    BY <1>restart, <1>priv, PrivateTransformations, SetPrivateType DEF RestartNow
  <2>2. pending' \in [Sessions -> Seq({"updateAuthKey", "restartNow"})]
    BY <1>restart DEF RestartNow, TypeOK
  <2> QED BY <1>restart, <2>1, <2>2 DEF RestartNow, TypeOK
<1>check. ASSUME NEW s \in Sessions, CheckRegularKey(s) PROVE TypeOK'
  <2>1. priv' \in [Sessions -> Privates]
    BY <1>check, <1>priv, PrivateTransformations, PrivateUpdates, SetPrivateType
       DEF CheckRegularKey, Places
  <2> QED BY <1>check, <2>1 DEF CheckRegularKey, TypeOK
<1>media. ASSUME NEW s \in Sessions, AcquireMediaKey(s) PROVE TypeOK'
  <2> DEFINE p == priv[s]
             acquired == Acquirable(s, p)
             q == [p EXCEPT !.creator = IF acquired = "None" THEN @ ELSE "idle"]
  <2>1. acquired \in CreatingTypes
    BY <1>priv, AcquirableType
  <2>2. q \in Privates
    <3>1. ASSUME NEW u \in Privates, NEW a \in CreatingTypes
          PROVE  [u EXCEPT !.creator = IF a = "None" THEN @ ELSE "idle"] \in Privates
      BY DEF Privates
    <3> QED BY <1>priv, <2>1, <3>1
  <2>3. /\ StartCreator(q) \in Privates
        /\ Disconnected([q EXCEPT !.place = "idle"]) \in Privates
    <3> HIDE DEF q
    <3> QED BY <2>2, PrivateTransformations, PrivateUpdates DEF Places
  <2>4. priv' \in [Sessions -> Privates]
    BY <1>media, <2>3, SetPrivateType DEF AcquireMediaKey
  <2>5. creatingKeys' \subseteq Clusters /\ myKeyCreation' \in [Sessions -> CreatingTypes]
    BY <1>media, <2>1, TakeType DEF AcquireMediaKey
  <2> QED BY <1>media, <2>4, <2>5 DEF AcquireMediaKey, TypeOK
<1>lost. ASSUME NEW s \in Sessions, ConnectionLost(s) PROVE TypeOK'
  <2>1. priv' \in [Sessions -> Privates]
    BY <1>lost, <1>priv, PrivateTransformations, SetPrivateType DEF ConnectionLost
  <2> QED BY <1>lost, <2>1 DEF ConnectionLost, TypeOK
<1>ready. ASSUME NEW s \in Sessions, UnboundReady(s) PROVE TypeOK'
  <2>1. PICK t \in TemporaryKeys, key \in PersistentKeys \cup {NoKey} :
          /\ dead' = dead \ ({t} \cup ({key} \ UsedPersistent))
          /\ boundTo' = [boundTo EXCEPT ![t] = NoKey]
          /\ madeAt' = [madeAt EXCEPT ![t] = KeyType(priv[s].currentDcType)]
          /\ IF key = NoKey
             THEN /\ ReleaseKeyCreationOnFail(s)
                  /\ SetPrivate(s, Disconnected(NoCreator(priv[s])))
             ELSE /\ SetPrivate(s, [priv[s] EXCEPT !.creator = "bound",
                                                   !.binder = key, !.keyId = t])
                  /\ UNCHANGED <<creatingKeys, myKeyCreation>>
    BY <1>ready DEF UnboundReady, TypeOK, FreshTemporary, FreshPersistent
  <2>2. /\ dead' \subseteq PersistentKeys \cup TemporaryKeys
        /\ boundTo' \in [TemporaryKeys -> PersistentKeys \cup {NoKey}]
        /\ madeAt' \in [TemporaryKeys -> Clusters]
    BY <2>1 DEF TypeOK, KeyType, Clusters
  <2>3. CASE key = NoKey
    <3>1. priv' \in [Sessions -> Privates]
      BY <1>priv, <2>1, <2>3, PrivateTransformations, SetPrivateType
    <3>2. creatingKeys' \subseteq Clusters /\ myKeyCreation' \in [Sessions -> CreatingTypes]
      BY <2>1, <2>3, ReleaseOnFailType
    <3> QED BY <1>ready, <2>2, <3>1, <3>2 DEF UnboundReady, TypeOK
  <2>4. CASE key # NoKey
    <3>1. [priv[s] EXCEPT !.creator = "bound", !.binder = key, !.keyId = t] \in Privates
      <4>1. ASSUME NEW p \in Privates
            PROVE  [p EXCEPT !.creator = "bound", !.binder = key, !.keyId = t] \in Privates
        BY DEF Privates
      <4> QED BY <1>priv, <4>1
    <3>2. priv' \in [Sessions -> Privates]
      BY <2>1, <2>4, <3>1, SetPrivateType
    <3> QED BY <1>ready, <2>1, <2>2, <2>4, <3>2 DEF UnboundReady, TypeOK
  <2> QED BY <2>3, <2>4
<1>cdnReady. ASSUME NEW s \in Sessions, CdnKeyReady(s) PROVE TypeOK'
  <2>1. PICK t \in TemporaryKeys :
          /\ dead' = dead \ {t}
          /\ boundTo' = [boundTo EXCEPT ![t] = NoKey]
          /\ madeAt' = [madeAt EXCEPT ![t] = KeyType(priv[s].currentDcType)]
          /\ ReleaseKeyCreationOnDone(s, t, NoKey)
          /\ LET p == NoCreator([priv[s] EXCEPT !.keyId = t])
             IN  SetPrivate(s, IF ReleaseAccepted(s, NoKey) THEN p ELSE Disconnected(p))
    BY <1>cdnReady DEF CdnKeyReady, FreshTemporary
  <2>2. /\ dead' \subseteq PersistentKeys \cup TemporaryKeys
        /\ boundTo' \in [TemporaryKeys -> PersistentKeys \cup {NoKey}]
        /\ madeAt' \in [TemporaryKeys -> Clusters]
    BY <2>1 DEF TypeOK, KeyType, Clusters
  <2>3. priv' \in [Sessions -> Privates]
    BY <1>priv, <2>1, PrivateUpdates, PrivateTransformations, SetPrivateType
  <2>4. myKeyCreation[s] # "Persistent"
    BY <1>cdnReady DEF CdnKeyReady, PersistentClaim
  <2>5. /\ persistentKey' \in PersistentKeys \cup {NoKey}
        /\ temporaryKeys' \in [Clusters -> TemporaryKeys \cup {NoKey}]
        /\ creatingKeys' \subseteq Clusters
        /\ queue' \in Seq(KeyEvents)
        /\ myKeyCreation' \in [Sessions -> CreatingTypes]
    BY <2>1, <2>4, ReleaseOnDoneType
  <2> QED BY <1>cdnReady, <2>2, <2>3, <2>5 DEF CdnKeyReady, TypeOK
<1>failed. ASSUME NEW s \in Sessions, UnboundFailed(s) PROVE TypeOK'
  <2>1. priv' \in [Sessions -> Privates]
    BY <1>failed, <1>priv, PrivateTransformations, SetPrivateType DEF UnboundFailed
  <2>2. creatingKeys' \subseteq Clusters /\ myKeyCreation' \in [Sessions -> CreatingTypes]
    BY <1>failed, ReleaseOnFailType DEF UnboundFailed
  <2> QED BY <1>failed, <2>1, <2>2 DEF UnboundFailed, TypeOK
<1>bindSent. ASSUME NEW s \in Sessions, SendBindRequest(s) PROVE TypeOK'
  <2>1. priv' \in [Sessions -> Privates]
    BY <1>bindSent, <1>priv, PrivateUpdates, SetPrivateType DEF SendBindRequest
  <2> QED BY <1>bindSent, <2>1 DEF SendBindRequest, TypeOK
<1>bindOk. ASSUME NEW s \in Sessions, BindSucceeded(s) PROVE TypeOK'
  <2> DEFINE p == priv[s]
  <2>1. p.keyId \in TemporaryKeys /\ p.binder \in PersistentKeys
    BY <1>bindOk DEF BindSucceeded, BoundKeyPrivate
  <2>2. \A place \in Places :
          [NoCreator(p) EXCEPT !.bind = "none", !.place = place] \in Privates
    <3>1. ASSUME NEW u \in Privates, NEW place \in Places
          PROVE  [u EXCEPT !.bind = "none", !.place = place] \in Privates
      BY DEF Privates
    <3> QED BY <1>priv, <3>1, PrivateTransformations
  <2>3. priv' \in [Sessions -> Privates]
    BY <1>bindOk, <2>2, SetPrivateType DEF BindSucceeded, Places
  <2>4. /\ persistentKey' \in PersistentKeys \cup {NoKey}
        /\ temporaryKeys' \in [Clusters -> TemporaryKeys \cup {NoKey}]
        /\ creatingKeys' \subseteq Clusters
        /\ queue' \in Seq(KeyEvents)
        /\ myKeyCreation' \in [Sessions -> CreatingTypes]
    BY <1>bindOk, <2>1, ReleaseOnDoneType DEF BindSucceeded
  <2> QED BY <1>bindOk, <2>3, <2>4 DEF BindSucceeded, TypeOK
<1>bindDestroyed. ASSUME NEW s \in Sessions, BindKeyDestroyed(s) PROVE TypeOK'
  <2>1. priv[s].binder \in PersistentKeys
    BY <1>bindDestroyed DEF BindKeyDestroyed, BoundKeyPrivate
  <2>2. queue' \in Seq(KeyEvents)
    BY <1>bindDestroyed, <2>1, DestroyedAppend DEF BindKeyDestroyed
  <2>3. [priv[s] EXCEPT !.bind = "none", !.place = "release"] \in Privates
    <3>1. ASSUME NEW p \in Privates
          PROVE  [p EXCEPT !.bind = "none", !.place = "release"] \in Privates
      BY DEF Privates, Places
    <3> QED BY <1>priv, <3>1
  <2>4. priv' \in [Sessions -> Privates]
    BY <1>bindDestroyed, <2>3, SetPrivateType DEF BindKeyDestroyed
  <2> QED BY <1>bindDestroyed, <2>2, <2>4 DEF BindKeyDestroyed, TypeOK
<1>bindFailed. ASSUME NEW s \in Sessions, BindFailed(s) PROVE TypeOK'
  <2>1. priv' \in [Sessions -> Privates]
    BY <1>bindFailed, <1>priv, PrivateUpdates, SetPrivateType DEF BindFailed
  <2> QED BY <1>bindFailed, <2>1 DEF BindFailed, TypeOK
<1>notFound. ASSUME NEW s \in Sessions, KeyNotFound(s) PROVE TypeOK'
  <2>1. priv' \in [Sessions -> Privates]
    BY <1>notFound, <1>priv, PrivateUpdates, PrivateTransformations, SetPrivateType DEF KeyNotFound, Places
  <2> QED BY <1>notFound, <2>1 DEF KeyNotFound, TypeOK
<1>permEmpty. ASSUME NEW s \in Sessions, PermanentKeyEmpty(s) PROVE TypeOK'
  <2>1. priv' \in [Sessions -> Privates]
    BY <1>permEmpty, <1>priv, PrivateUpdates, SetPrivateType DEF PermanentKeyEmpty, Places
  <2> QED BY <1>permEmpty, <2>1 DEF PermanentKeyEmpty, TypeOK
<1>release. ASSUME NEW s \in Sessions, ReleaseBeforeDestroy(s) PROVE TypeOK'
  <2>1. priv' \in [Sessions -> Privates]
    BY <1>release, <1>priv, PrivateUpdates, PrivateTransformations, SetPrivateType
       DEF ReleaseBeforeDestroy, Places
  <2>2. creatingKeys' \subseteq Clusters /\ myKeyCreation' \in [Sessions -> CreatingTypes]
    BY <1>release, ReleaseOnFailType DEF ReleaseBeforeDestroy
  <2> QED BY <1>release, <2>1, <2>2 DEF ReleaseBeforeDestroy, TypeOK
<1>destroy. ASSUME NEW s \in Sessions, DestroyTemporaryKey(s) PROVE TypeOK'
  <2>1. [priv[s] EXCEPT !.keyId = NoKey, !.place = "idle"] \in Privates
    <3>1. ASSUME NEW p \in Privates
          PROVE  [p EXCEPT !.keyId = NoKey, !.place = "idle"] \in Privates
      BY DEF Privates, Places
    <3> QED BY <1>priv, <3>1
  <2>2. priv' \in [Sessions -> Privates]
    BY <1>destroy, <2>1, PrivateTransformations, SetPrivateType DEF DestroyTemporaryKey
  <2>3. queue' \in Seq(KeyEvents)
    <3>1. [kind |-> "temporary"] \in KeyEvents
      BY DEF KeyEvents
    <3>2. queue \in Seq(KeyEvents) /\ Append(queue, [kind |-> "temporary"]) \in Seq(KeyEvents)
      BY <3>1, AppendProperties DEF TypeOK
    <3> QED BY <1>destroy, <3>2 DEF DestroyTemporaryKey
  <2>4. temporaryKeys' \in [Clusters -> TemporaryKeys \cup {NoKey}]
    BY <1>destroy DEF DestroyTemporaryKey, TypeOK
  <2> QED BY <1>destroy, <2>2, <2>3, <2>4 DEF DestroyTemporaryKey, TypeOK
<1>stop. ASSUME NEW s \in Sessions, Stop(s) PROVE TypeOK'
  BY <1>stop DEF Stop, TypeOK, Phases
<1>deleted. ASSUME NEW s \in Sessions, PrivateDeleted(s) PROVE TypeOK'
  <2>1. priv' \in [Sessions -> Privates]
    BY <1>deleted, DcTypeType, InitPrivateType, SetPrivateType DEF PrivateDeleted
  <2>2. creatingKeys' \subseteq Clusters /\ myKeyCreation' \in [Sessions -> CreatingTypes]
    BY <1>deleted, ReleaseOnFailType DEF PrivateDeleted
  <2>3. phase' \in [Sessions -> Phases]
        /\ pending' \in [Sessions -> Seq({"updateAuthKey", "restartNow"})]
    BY <1>deleted DEF PrivateDeleted, TypeOK, Phases
  <2> QED BY <1>deleted, <2>1, <2>2, <2>3 DEF PrivateDeleted, TypeOK
<1>resume. ASSUME NEW s \in Sessions, Resume(s) PROVE TypeOK'
  <2>1. priv' \in [Sessions -> Privates]
    BY <1>resume, DcTypeType, InitPrivateType, SetPrivateType DEF Resume
  <2> QED BY <1>resume, <2>1 DEF Resume, TypeOK, Phases
<1>kill. ASSUME NEW s \in Sessions, Kill(s) PROVE TypeOK'
  <2>1. priv' \in [Sessions -> Privates]
    BY <1>kill, DcTypeType, InitPrivateType, SetPrivateType DEF Kill
  <2>2. phase' \in [Sessions -> Phases]
        /\ pending' \in [Sessions -> Seq({"updateAuthKey", "restartNow"})]
    BY <1>kill DEF Kill, TypeOK, Phases
  <2> QED BY <1>kill, <2>1, <2>2 DEF Kill, TypeOK
<1>gone. ASSUME NEW s \in Sessions, SessionDestroyed(s) PROVE TypeOK'
  BY <1>gone DEF SessionDestroyed, TypeOK, Phases, CreatingTypes
<1>start. ASSUME NEW s \in Sessions, StartSession(s) PROVE TypeOK'
  <2>1. priv' \in [Sessions -> Privates]
    BY <1>start, DcTypeType, InitPrivateType, SetPrivateType DEF StartSession
  <2> QED BY <1>start, <2>1 DEF StartSession, TypeOK, Phases
<1>answer. ASSUME NEW s \in Sessions, ServerAnswersBind(s) PROVE TypeOK'
  <2>1. priv' \in [Sessions -> Privates]
    BY <1>answer, <1>priv, PrivateUpdates, SetPrivateType DEF ServerAnswersBind
  <2>2. boundTo' \in [TemporaryKeys -> PersistentKeys \cup {NoKey}]
    BY <1>answer, <1>priv, PrivateUpdates DEF ServerAnswersBind, TypeOK
  <2> QED BY <1>answer, <2>1, <2>2 DEF ServerAnswersBind, TypeOK
<1>bindError. ASSUME NEW s \in Sessions, ServerFailsBind(s) PROVE TypeOK'
  <2>1. priv' \in [Sessions -> Privates]
    BY <1>bindError, <1>priv, PrivateUpdates, SetPrivateType DEF ServerFailsBind
  <2> QED BY <1>bindError, <2>1 DEF ServerFailsBind, TypeOK
<1>temporary. ASSUME TemporaryKeyChanged PROVE TypeOK'
  <2>1. pending' \in [Sessions -> Seq({"updateAuthKey", "restartNow"})]
    BY <1>temporary, CallsType, NotifyType DEF TemporaryKeyChanged
  <2> QED BY <1>temporary, <2>1, HeadOfQueue DEF TemporaryKeyChanged, TypeOK
<1>persistent. ASSUME PersistentKeyChanged PROVE TypeOK'
  <2>1. pending' \in [Sessions -> Seq({"updateAuthKey", "restartNow"})]
    BY <1>persistent, CallsType, NotifyType DEF PersistentKeyChanged
  <2> QED BY <1>persistent, <2>1, HeadOfQueue DEF PersistentKeyChanged, TypeOK
<1>destroyed. ASSUME KeyDestroyedOnServer PROVE TypeOK'
  <2>1. pending' \in [Sessions -> Seq({"updateAuthKey", "restartNow"})]
    BY <1>destroyed, CallsType, NotifyType DEF KeyDestroyedOnServer
  <2>2. temporaryKeys' \in [Clusters -> TemporaryKeys \cup {NoKey}]
    BY <1>destroyed DEF KeyDestroyedOnServer, TypeOK
  <2> QED BY <1>destroyed, <2>1, <2>2, HeadOfQueue DEF KeyDestroyedOnServer, TypeOK
<1>mediaOptions. ASSUME MediaOptionsChanged PROVE TypeOK'
  <2>1. options' \in [media : BOOLEAN, cdnKeys : BOOLEAN]
    BY <1>mediaOptions DEF MediaOptionsChanged, TypeOK
  <2> QED BY <1>mediaOptions, <2>1 DEF MediaOptionsChanged, TypeOK
<1>cdnConfig. ASSUME CdnConfigLoaded PROVE TypeOK'
  <2>1. options' \in [media : BOOLEAN, cdnKeys : BOOLEAN]
    BY <1>cdnConfig DEF CdnConfigLoaded, TypeOK
  <2> QED BY <1>cdnConfig, <2>1 DEF CdnConfigLoaded, TypeOK
<1>forgets. ASSUME NEW t \in TemporaryKeys, ServerForgetsTemporary(t) PROVE TypeOK'
  BY <1>forgets DEF ServerForgetsTemporary, TypeOK
<1>destroys. ASSUME NEW key \in PersistentKeys, ServerDestroysPersistent(key) PROVE TypeOK'
  BY <1>destroys DEF ServerDestroysPersistent, TypeOK
<1> QED
  BY <1>connect, <1>typeChange, <1>connected, <1>update, <1>restart, <1>check, <1>media,
     <1>lost, <1>ready, <1>cdnReady, <1>failed, <1>bindSent, <1>bindOk, <1>bindDestroyed,
     <1>bindFailed, <1>notFound, <1>permEmpty, <1>release, <1>destroy, <1>stop,
     <1>deleted, <1>resume, <1>kill, <1>gone, <1>start, <1>answer, <1>bindError,
     <1>temporary, <1>persistent, <1>destroyed, <1>mediaOptions, <1>cdnConfig,
     <1>forgets, <1>destroys
  DEF Next, Connect, Update, Acquire, Create, Bind, Refused, Destroy, Life, Failure

-----------------------------------------------------------------------------
(* The rest of KeyInvariant.  Most handlers change the fields of one        *)
(* SessionPrivate only; QuietStep says what they owe.                      *)

Rest == /\ CreationExclusive
        /\ CreatorHoldsClaim
        /\ ClaimsEnd
        /\ PersistentClaim
        /\ StartedUnkeyed
        /\ BoundKeyPrivate
        /\ BindAnswerCurrent
        /\ InstalledKeysBound

\* What KeyInvariant says of a SessionPrivate by itself, ...
PrivateOK(p) ==
    /\ p.place = "destroy" => p.creator = "none"
    /\ IsCdn => p.realDcType = "Cdn"
    /\ p.creator = "started" \/ p.place \in {"noMediaKey", "acquire"}
       => p.keyId = NoKey /\ p.conn = "up"
    /\ p.conn # "down" /\ (p.creator # "bound" \/ p.place # "idle") => p.bind = "none"

\* ... and what a step that makes q of p does to its key: it takes no key but
\* an installed one, and makes no bound creator.
KeepsKey(p, q) ==
    /\ q.keyId = p.keyId \/ q.keyId = NoKey \/ \E c \in Clusters : q.keyId = temporaryKeys[c]
    /\ q.creator = "bound" => /\ p.creator = "bound"
                              /\ q.keyId = p.keyId
                              /\ q.binder = p.binder
                              /\ q.bind = "ok" => p.bind = "ok"

\* The Dcenter only loses temporary keys.
LosesKeys == \A c \in Clusters : temporaryKeys'[c] = temporaryKeys[c] \/ temporaryKeys'[c] = NoKey

\* KeyInvariant says PrivateOK of every session.
LEMMA PrivatesOK ==
    ASSUME KeyInvariant, NEW s \in Sessions
    PROVE  PrivateOK(priv[s])
  BY DEF KeyInvariant, PrivateOK, ClaimsEnd, PersistentClaim, StartedUnkeyed, BindAnswerCurrent,
         Creating

\* BoundKeyPrivate and BindAnswerCurrent after a step that keeps keys.
LEMMA KeptKeys ==
    ASSUME KeyInvariant, NEW s \in Sessions, NEW q \in Privates, SetPrivate(s, q),
           PrivateOK(q), KeepsKey(priv[s], q), LosesKeys, UNCHANGED boundTo
    PROVE  BoundKeyPrivate' /\ BindAnswerCurrent'
<1> USE DEF KeyInvariant
<1>1. /\ priv'[s] = q
      /\ \A t \in Sessions : t # s => priv'[t] = priv[t]
  BY DEF SetPrivate, TypeOK
<1>2. NoKey \notin TemporaryKeys
  BY KeysAssumption
<1>3. ASSUME NEW u \in Sessions, priv'[u].creator = "bound"
      PROVE  /\ priv[u].creator = "bound"
             /\ priv'[u].keyId = priv[u].keyId
             /\ priv'[u].binder = priv[u].binder
             /\ priv'[u].bind = "ok" => priv[u].bind = "ok"
  BY <1>1, <1>3 DEF KeepsKey
<1>4. BoundKeyPrivate'
  <2> SUFFICES ASSUME NEW u \in Sessions, priv'[u].creator = "bound"
               PROVE  /\ priv'[u].binder \in PersistentKeys /\ priv'[u].keyId \in TemporaryKeys
                      /\ \A c \in Clusters : temporaryKeys'[c] # priv'[u].keyId
                      /\ \A t \in Sessions \ {u} : priv'[t].keyId # priv'[u].keyId
    BY DEF BoundKeyPrivate
  <2>1. /\ priv[u].binder \in PersistentKeys /\ priv[u].keyId \in TemporaryKeys
        /\ \A c \in Clusters : temporaryKeys[c] # priv[u].keyId
        /\ \A t \in Sessions \ {u} : priv[t].keyId # priv[u].keyId
    BY <1>3 DEF BoundKeyPrivate
  <2>2. \A c \in Clusters : temporaryKeys'[c] # priv[u].keyId
    BY <1>2, <2>1 DEF LosesKeys
  <2>3. \A t \in Sessions \ {u} : priv'[t].keyId # priv[u].keyId
    BY <1>1, <1>2, <2>1 DEF KeepsKey
  <2> QED BY <1>3, <2>1, <2>2, <2>3
<1>5. BindAnswerCurrent'
  BY <1>1, <1>3 DEF BindAnswerCurrent, PrivateOK
<1> QED BY <1>4, <1>5

\* InstalledKeysBound, CreationExclusive and PersistentClaim after a step that
\* leaves the claims alone.
LEMMA KeptClaims ==
    ASSUME KeyInvariant, LosesKeys,
           UNCHANGED <<persistentKey, creatingKeys, myKeyCreation, boundTo>>
    PROVE  InstalledKeysBound' /\ CreationExclusive'
<1>1. InstalledKeysBound'
  BY DEF KeyInvariant, InstalledKeysBound, LosesKeys
<1>2. CreationExclusive'
  <2>1. \A s \in Sessions : myKeyCreation'[s] # "None" =>
          /\ IndexByType(myKeyCreation'[s]) \in creatingKeys'
          /\ temporaryKeys'[IndexByType(myKeyCreation'[s])] = NoKey
    BY DEF KeyInvariant, CreationExclusive, LosesKeys, IndexByType, Clusters
  <2> QED BY <2>1 DEF KeyInvariant, CreationExclusive
<1> QED BY <1>1, <1>2

\* A step that writes one SessionPrivate, leaves the claims alone, and keeps to
\* PrivateOK and KeepsKey, preserves the rest of KeyInvariant.
LEMMA QuietStep ==
    ASSUME KeyInvariant, NEW s \in Sessions, NEW q \in Privates, SetPrivate(s, q),
           Owned(s), PrivateOK(q), KeepsKey(priv[s], q), LosesKeys,
           q.creator = "none" <=> priv[s].creator = "none",
           UNCHANGED <<persistentKey, creatingKeys, phase, myKeyCreation, boundTo>>
    PROVE  Rest'
<1> USE DEF KeyInvariant
<1>1. /\ priv'[s] = q
      /\ \A t \in Sessions : t # s => priv'[t] = priv[t]
  BY DEF SetPrivate, TypeOK
<1>2. CreatorHoldsClaim'
  BY <1>1 DEF CreatorHoldsClaim, Creating, Owned
<1>3. ClaimsEnd'
  BY <1>1 DEF ClaimsEnd, Creating, Owned, PrivateOK
<1>4. PersistentClaim'
  BY <1>1 DEF PersistentClaim, PrivateOK
<1>5. StartedUnkeyed'
  BY <1>1 DEF StartedUnkeyed, PrivateOK
<1> QED BY <1>2, <1>3, <1>4, <1>5, KeptKeys, KeptClaims DEF Rest

\* The handlers that are such steps.
LEMMA QuietSteps ==
    ASSUME KeyInvariant, NEW s \in Sessions,
           \/ ConnectAfterTypeChange(s) \/ OnConnected(s) \/ UpdateAuthKey(s)
           \/ RestartNow(s) \/ CheckRegularKey(s) \/ ConnectionLost(s)
           \/ SendBindRequest(s) \/ BindKeyDestroyed(s) \/ BindFailed(s)
           \/ KeyNotFound(s) \/ PermanentKeyEmpty(s) \/ DestroyTemporaryKey(s)
           \/ ServerFailsBind(s)
    PROVE  Rest'
<1> DEFINE p == priv[s]
<1>p. p \in Privates /\ PrivateOK(p)
  BY PrivatesOK DEF KeyInvariant, TypeOK
<1>d. IsCdn => DcType(s) = "Cdn"
  BY DEF DcType
<1>k. p.creator = "bound" => p.keyId # NoKey
  BY KeysAssumption DEF KeyInvariant, BoundKeyPrivate
<1> USE DEF dcVars, mainVars, serverVars, Idle, Owned
<1> SUFFICES \E q \in Privates :
               /\ SetPrivate(s, q) /\ Owned(s) /\ PrivateOK(q) /\ KeepsKey(p, q) /\ LosesKeys
               /\ q.creator = "none" <=> p.creator = "none"
               /\ UNCHANGED <<persistentKey, creatingKeys, phase, myKeyCreation, boundTo>>
  BY QuietStep
<1>1. CASE ConnectAfterTypeChange(s)
  <2> DEFINE q == [p EXCEPT !.realDcType = DcType(s), !.place = "release"]
  <2>1. q \in Privates /\ PrivateOK(q) /\ KeepsKey(p, q) /\ q.creator = p.creator
    BY <1>1, <1>p, <1>d, DcTypeType DEF ConnectAfterTypeChange, Privates, Places, PrivateOK, KeepsKey
  <2> QED BY <1>1, <2>1 DEF ConnectAfterTypeChange, LosesKeys
<1>2. CASE OnConnected(s)
  <2> DEFINE u == [p EXCEPT !.conn = "up"]
             key == temporaryKeys[KeyType(u.currentDcType)]
             q == IF u.keyId # NoKey THEN u ELSE ApplyFirstKey(u, key)
  <2>1. key \in TemporaryKeys \cup {NoKey}
    BY DEF KeyInvariant, TypeOK, KeyType, Clusters
  <2>2. q \in Privates /\ PrivateOK(q) /\ KeepsKey(p, q) /\ (q.creator = "none" <=> p.creator = "none")
    <3>1. CASE u.keyId # NoKey
      BY <1>2, <1>p, <3>1 DEF OnConnected, Privates, Places, PrivateOK, KeepsKey
    <3>2. CASE u.keyId = NoKey /\ key # NoKey
      BY <1>2, <1>p, <1>k, <3>2, <2>1 DEF OnConnected, Privates, PrivateOK, KeepsKey, ApplyFirstKey, KeyType, Clusters
    <3>3. CASE u.keyId = NoKey /\ key = NoKey
      BY <1>2, <1>p, <1>k, <3>3 DEF OnConnected, Privates, Places, PrivateOK, KeepsKey, ApplyFirstKey, StartCreator
    <3> QED BY <3>1, <3>2, <3>3
  <2> QED BY <1>2, <2>2 DEF OnConnected, LosesKeys
<1>3. CASE UpdateAuthKey(s)
  <2> DEFINE key == temporaryKeys[KeyType(p.currentDcType)]
  <2>1. key \in TemporaryKeys \cup {NoKey}
    BY DEF KeyInvariant, TypeOK, KeyType, Clusters
  <2>2. CASE SetPrivate(s, p)
    BY <1>3, <1>p, <2>2 DEF UpdateAuthKey, LosesKeys, KeepsKey
  <2>3. CASE ~Creating(s) /\ p.conn = "up" /\ p.keyId = NoKey /\ SetPrivate(s, ApplyFirstKey(p, key))
    BY <1>3, <1>p, <2>1, <2>3 DEF UpdateAuthKey, LosesKeys, KeepsKey, Creating, Privates, Places, PrivateOK, ApplyFirstKey, StartCreator, KeyType, Clusters
  <2>4. CASE ~Creating(s) /\ SetPrivate(s, Disconnected([p EXCEPT !.keyId = NoKey]))
    BY <1>3, <1>p, <2>4 DEF UpdateAuthKey, LosesKeys, KeepsKey, Creating, Privates, PrivateOK, Disconnected
  <2> QED BY <1>3, <2>2, <2>3, <2>4 DEF UpdateAuthKey
<1>4. CASE \/ RestartNow(s) \/ ConnectionLost(s)
  <2> DEFINE q == Disconnected(p)
  <2>1. q \in Privates /\ PrivateOK(q) /\ KeepsKey(p, q) /\ (q.creator = "none" <=> p.creator = "none")
    BY ZenonT(30), <1>4, <1>p DEF RestartNow, ConnectionLost, KeepsKey, Privates, PrivateOK, Disconnected
  <2> QED BY <1>4, <2>1 DEF RestartNow, ConnectionLost, LosesKeys
<1>5. CASE CheckRegularKey(s)
  BY <1>5, <1>p DEF CheckRegularKey, LosesKeys, KeepsKey, Privates, Places, PrivateOK, StartCreator
<1>6. CASE SendBindRequest(s) \/ ServerFailsBind(s) \/ BindFailed(s) \/ PermanentKeyEmpty(s)
  BY <1>6, <1>p DEF SendBindRequest, ServerFailsBind, BindFailed, PermanentKeyEmpty, BindAnswerable, LosesKeys, KeepsKey, Privates, Places, PrivateOK, Creating
<1>7. CASE BindKeyDestroyed(s)
  BY <1>7, <1>p DEF BindKeyDestroyed, LosesKeys, KeepsKey, Privates, Places, PrivateOK
<1>8. CASE KeyNotFound(s)
  BY <1>8, <1>p DEF KeyNotFound, LosesKeys, KeepsKey, Privates, Places, PrivateOK, Disconnected
<1>9. CASE DestroyTemporaryKey(s)
  <2> DEFINE q == Disconnected([p EXCEPT !.keyId = NoKey, !.place = "idle"])
  <2>1. q \in Privates /\ PrivateOK(q) /\ KeepsKey(p, q) /\ (q.creator = "none" <=> p.creator = "none")
    BY <1>9, <1>p DEF DestroyTemporaryKey, KeepsKey, Privates, Places, PrivateOK, Disconnected
  <2> QED BY <1>9, <2>1 DEF DestroyTemporaryKey, LosesKeys
<1> QED BY <1>1, <1>2, <1>3, <1>4, <1>5, <1>6, <1>7, <1>8, <1>9

-----------------------------------------------------------------------------
(* Steps that take or release a claim.                                      *)

Keyed == /\ CreationExclusive
         /\ InstalledKeysBound
         /\ \A u \in Sessions : myKeyCreation[u] = "Persistent" => persistentKey = NoKey /\ ~IsCdn

\* A session that acquires creation is the cluster's only creator: nobody's flag
\* was up, and the key is missing.
LEMMA TakeClaim ==
    ASSUME KeyInvariant, NEW s \in Sessions, NEW type \in DcTypes, IsCdn => type = "Cdn",
           NEW acquired, acquired = "None" \/ acquired = AcquireKeyCreation(type),
           acquired # "None" => myKeyCreation[s] = "None",
           TakeKeyCreation(s, acquired), UNCHANGED <<persistentKey, temporaryKeys, boundTo>>
    PROVE  Keyed'
<1> USE DEF KeyInvariant
<1>1. InstalledKeysBound'
  BY DEF InstalledKeysBound
<1>2. CASE acquired = "None"
  <2>1. UNCHANGED <<creatingKeys, myKeyCreation>>
    BY <1>2 DEF TakeKeyCreation
  <2>2. CreationExclusive'
    BY <2>1 DEF CreationExclusive
  <2> QED BY <1>1, <2>1, <2>2 DEF Keyed, PersistentClaim
<1>3. CASE acquired # "None"
  <2> DEFINE slot == IndexByType(acquired)
  <2>1. /\ temporaryKeys[slot] = NoKey /\ slot \notin creatingKeys
        /\ acquired = "Persistent" => persistentKey = NoKey /\ ~IsCdn
    BY <1>3 DEF AcquireKeyCreation, IndexByType, KeyType, DcTypes
  <2>2. /\ creatingKeys' = creatingKeys \cup {slot}
        /\ myKeyCreation'[s] = acquired
        /\ \A u \in Sessions : u # s => myKeyCreation'[u] = myKeyCreation[u]
    BY <1>3 DEF TakeKeyCreation, TypeOK
  <2>3. CreationExclusive'
    <3> HIDE DEF slot
    <3>1. ASSUME NEW u \in Sessions, myKeyCreation'[u] # "None"
          PROVE  /\ IndexByType(myKeyCreation'[u]) \in creatingKeys'
                 /\ temporaryKeys[IndexByType(myKeyCreation'[u])] = NoKey
      BY <2>1, <2>2, <3>1 DEF CreationExclusive, slot
    <3>2. ASSUME NEW u \in Sessions, u # s, myKeyCreation[u] # "None"
          PROVE  IndexByType(myKeyCreation[u]) # slot
      BY <2>1, <3>2 DEF CreationExclusive
    <3> QED BY <2>2, <3>1, <3>2 DEF CreationExclusive, slot
  <2> QED BY <1>1, <2>1, <2>2, <2>3 DEF Keyed, PersistentClaim
<1> QED BY <1>2, <1>3

\* Releasing a claim, by whoever holds it.
LEMMA DropClaim ==
    ASSUME KeyInvariant, NEW s \in Sessions,
           \/ UNCHANGED <<creatingKeys, myKeyCreation>>
           \/ /\ myKeyCreation[s] # "None"
              /\ creatingKeys' = creatingKeys \ {IndexByType(myKeyCreation[s])}
              /\ myKeyCreation' = [myKeyCreation EXCEPT ![s] = "None"],
           UNCHANGED <<persistentKey, temporaryKeys>>,
           UNCHANGED boundTo \/ IsCdn
                \/ \E t \in FreshTemporary : boundTo' = [boundTo EXCEPT ![t] = NoKey]
    PROVE  Keyed'
<1> USE DEF KeyInvariant
<1>1. InstalledKeysBound'
  BY DEF InstalledKeysBound, FreshTemporary, UsedTemporary, TypeOK
<1>2. CASE UNCHANGED <<creatingKeys, myKeyCreation>>
  BY <1>1, <1>2 DEF Keyed, CreationExclusive, PersistentClaim
<1>3. CASE /\ myKeyCreation[s] # "None"
           /\ creatingKeys' = creatingKeys \ {IndexByType(myKeyCreation[s])}
           /\ myKeyCreation' = [myKeyCreation EXCEPT ![s] = "None"]
  <2>1. /\ myKeyCreation'[s] = "None"
        /\ \A u \in Sessions : u # s => myKeyCreation'[u] = myKeyCreation[u]
    BY <1>3 DEF TypeOK
  <2>2. ASSUME NEW u \in Sessions, u # s, myKeyCreation[u] # "None"
        PROVE  IndexByType(myKeyCreation[u]) # IndexByType(myKeyCreation[s])
    BY <1>3, <2>2 DEF CreationExclusive
  <2>3. CreationExclusive'
    <3>1. ASSUME NEW u \in Sessions, myKeyCreation'[u] # "None"
          PROVE  /\ IndexByType(myKeyCreation'[u]) \in creatingKeys'
                 /\ temporaryKeys[IndexByType(myKeyCreation'[u])] = NoKey
      BY <1>3, <2>1, <2>2, <3>1 DEF CreationExclusive
    <3> QED BY <2>1, <3>1 DEF CreationExclusive
  <2> QED BY <1>1, <2>1, <2>3 DEF Keyed, PersistentClaim
<1> QED BY <1>2, <1>3

\* A finished creator installs a key that is bound to the Dcenter's persistent
\* key, at the cluster it alone was creating for.
LEMMA InstallClaim ==
    ASSUME KeyInvariant, NEW s \in Sessions, NEW t \in TemporaryKeys,
           NEW used \in PersistentKeys \cup {NoKey}, ReleaseKeyCreationOnDone(s, t, used),
           myKeyCreation[s] # "None",
           IsCdn \/ (UNCHANGED boundTo /\ used # NoKey /\ boundTo[t] = used)
    PROVE  Keyed'
<1> USE DEF KeyInvariant
<1>1. /\ myKeyCreation'[s] = "None"
      /\ \A u \in Sessions : u # s => myKeyCreation'[u] = myKeyCreation[u]
  BY DEF ReleaseKeyCreationOnDone, TypeOK
<1>2. ASSUME NEW u \in Sessions, u # s, myKeyCreation[u] # "None"
      PROVE  IndexByType(myKeyCreation[u]) # IndexByType(myKeyCreation[s])
  BY <1>2 DEF CreationExclusive
<1>3. CASE ~ReleaseAccepted(s, used)
  <2>1. UNCHANGED dcVars
    BY <1>3 DEF ReleaseKeyCreationOnDone
  <2>2. CreationExclusive'
    BY <1>1, <2>1 DEF CreationExclusive, dcVars
  <2> QED BY <1>1, <2>1, <2>2 DEF Keyed, PersistentClaim, dcVars, InstalledKeysBound
<1>4. CASE ReleaseAccepted(s, used)
  <2> DEFINE index == IndexByType(myKeyCreation[s])
  <2>1. /\ persistentKey' = IF myKeyCreation[s] = "Persistent" THEN used ELSE persistentKey
        /\ temporaryKeys' = [temporaryKeys EXCEPT ![index] = t]
        /\ creatingKeys' = creatingKeys \ {index}
    BY <1>4 DEF ReleaseKeyCreationOnDone, Install
  <2>2. index \in Clusters
    BY DEF IndexByType, Clusters
  <2>3. CreationExclusive'
    <3>1. ASSUME NEW u \in Sessions, myKeyCreation'[u] # "None"
          PROVE  /\ IndexByType(myKeyCreation'[u]) \in creatingKeys'
                 /\ temporaryKeys'[IndexByType(myKeyCreation'[u])] = NoKey
      <4>1. u # s /\ IndexByType(myKeyCreation[u]) # index
        BY <1>1, <1>2, <3>1
      <4> QED BY <1>1, <2>1, <3>1, <4>1 DEF CreationExclusive, TypeOK, IndexByType, Clusters
    <3> QED BY <1>1, <3>1 DEF CreationExclusive
  <2>4. InstalledKeysBound'
    <3> SUFFICES ASSUME NEW c \in Clusters, temporaryKeys'[c] # NoKey, ~IsCdn
                 PROVE  persistentKey' # NoKey /\ boundTo'[temporaryKeys'[c]] = persistentKey'
      BY DEF InstalledKeysBound
    <3>1. persistentKey' = used
      BY <1>4, <2>1 DEF ReleaseAccepted
    <3>2. CASE c = index
      BY <2>1, <2>2, <3>1, <3>2 DEF TypeOK
    <3>3. CASE c # index
      <4>1. temporaryKeys'[c] = temporaryKeys[c]
        BY <2>1, <3>3 DEF TypeOK
      <4>2. myKeyCreation[s] # "Persistent"
        BY <4>1 DEF PersistentClaim, InstalledKeysBound
      <4> QED BY <2>1, <4>1, <4>2 DEF InstalledKeysBound
    <3> QED BY <3>2, <3>3
  <2>5. \A u \in Sessions : myKeyCreation'[u] = "Persistent" => persistentKey' = NoKey /\ ~IsCdn
    BY <1>1, <1>2, <2>1 DEF PersistentClaim, IndexByType
  <2> QED BY <2>3, <2>4, <2>5 DEF Keyed
<1> QED BY <1>3, <1>4

\* What a step of session s owes to the claims of the other sessions.
LEMMA ClaimStep ==
    ASSUME KeyInvariant, NEW s \in Sessions, NEW q \in Privates, SetPrivate(s, q),
           PrivateOK(q), Keyed',
           \A u \in Sessions : u # s =>
               phase'[u] = phase[u] /\ myKeyCreation'[u] = myKeyCreation[u],
           IF phase'[s] \in {"running", "stopping"}
           THEN q.creator # "none" <=> myKeyCreation'[s] # "None"
           ELSE q.creator = "none" /\ q.place = "idle",
           phase'[s] \in {"stopped", "gone"} => myKeyCreation'[s] = "None",
           BoundKeyPrivate', BindAnswerCurrent'
    PROVE  Rest'
<1> USE DEF KeyInvariant
<1>1. /\ priv'[s] = q
      /\ \A t \in Sessions : t # s => priv'[t] = priv[t]
  BY DEF SetPrivate, TypeOK
<1>2. CreatorHoldsClaim'
  BY <1>1 DEF CreatorHoldsClaim, Creating, Owned
<1>3. ClaimsEnd'
  BY <1>1 DEF ClaimsEnd, Creating, Owned, PrivateOK
<1>4. PersistentClaim'
  BY <1>1 DEF PersistentClaim, PrivateOK, Keyed
<1>5. StartedUnkeyed'
  BY <1>1 DEF StartedUnkeyed, PrivateOK
<1> QED BY <1>2, <1>3, <1>4, <1>5 DEF Rest, Keyed

\* Stopping, deleting, resuming, killing and starting a session.
LEMMA LifeSteps ==
    ASSUME KeyInvariant, NEW s \in Sessions,
           Stop(s) \/ PrivateDeleted(s) \/ Resume(s) \/ Kill(s) \/ SessionDestroyed(s)
           \/ StartSession(s)
    PROVE  Rest'
<1> USE DEF KeyInvariant, dcVars, mainVars, serverVars
<1> DEFINE p == priv[s]
           i == InitPrivate(DcType(s))
<1>p. p \in Privates /\ PrivateOK(p)
  BY PrivatesOK DEF TypeOK
<1>i. /\ i \in Privates /\ PrivateOK(i) /\ KeepsKey(p, i)
      /\ i.creator = "none" /\ i.place = "idle"
  BY DcTypeType, InitPrivateType DEF InitPrivate, PrivateOK, KeepsKey, DcType
<1>k. KeepsKey(p, p)
  BY DEF KeepsKey
<1>e. UNCHANGED temporaryKeys => LosesKeys
  BY DEF LosesKeys
<1>f. /\ \A u \in Sessions : u # s => phase'[u] = phase[u]
      /\ phase'[s] \in Phases
  BY DEF Stop, PrivateDeleted, Resume, Kill, SessionDestroyed, StartSession, TypeOK, Phases
<1> HIDE DEF p, i
<1>1. CASE Stop(s)
  <2>1. SetPrivate(s, p)
    BY <1>1 DEF Stop, SetPrivate, TypeOK, p
  <2>2. Keyed'
    BY <1>1, DropClaim DEF Stop
  <2>3. BoundKeyPrivate' /\ BindAnswerCurrent'
    BY <1>1, <1>p, <1>k, <1>e, <2>1, KeptKeys DEF Stop, p
  <2>4. phase'[s] = "stopping" /\ (p.creator # "none" <=> myKeyCreation'[s] # "None")
    BY <1>1 DEF Stop, CreatorHoldsClaim, Owned, Creating, TypeOK, p
  <2> QED BY <1>1, <1>p, <1>f, <2>1, <2>2, <2>3, <2>4, ClaimStep DEF Stop
<1>2. CASE PrivateDeleted(s)
  <2>1. /\ SetPrivate(s, i) /\ phase'[s] = "stopped" /\ myKeyCreation'[s] = "None"
        /\ \A u \in Sessions : u # s => myKeyCreation'[u] = myKeyCreation[u]
    BY <1>2 DEF PrivateDeleted, ReleaseKeyCreationOnFail, TypeOK, CreatorHoldsClaim, Owned, i
  <2>2. Keyed'
    BY <1>2, DropClaim DEF PrivateDeleted, ReleaseKeyCreationOnFail, CreatorHoldsClaim, Owned
  <2>3. BoundKeyPrivate' /\ BindAnswerCurrent'
    BY <1>2, <1>i, <1>e, <2>1, KeptKeys DEF PrivateDeleted, p
  <2> QED BY <1>i, <1>f, <2>1, <2>2, <2>3, ClaimStep
<1>3. CASE Resume(s) \/ StartSession(s)
  <2>1. /\ SetPrivate(s, i) /\ phase'[s] = "running" /\ myKeyCreation[s] = "None"
        /\ UNCHANGED <<dcVars, myKeyCreation, boundTo>>
    BY <1>3 DEF Resume, StartSession, TypeOK, ClaimsEnd, i
  <2>2. Keyed'
    BY <2>1, DropClaim
  <2>3. BoundKeyPrivate' /\ BindAnswerCurrent'
    BY <1>i, <1>e, <2>1, KeptKeys DEF p
  <2> QED BY <1>i, <1>f, <2>1, <2>2, <2>3, ClaimStep
<1>4. CASE Kill(s)
  <2>1. /\ SetPrivate(s, i) /\ phase'[s] = "killed"
        /\ UNCHANGED <<dcVars, myKeyCreation, boundTo>>
    BY <1>4 DEF Kill, TypeOK, i
  <2>2. Keyed'
    BY <2>1, DropClaim
  <2>3. BoundKeyPrivate' /\ BindAnswerCurrent'
    BY <1>i, <1>e, <2>1, KeptKeys DEF p
  <2> QED BY <1>i, <1>f, <2>1, <2>2, <2>3, ClaimStep
<1>5. CASE SessionDestroyed(s)
  <2>1. /\ SetPrivate(s, p) /\ phase'[s] = "gone" /\ myKeyCreation'[s] = "None"
        /\ \A u \in Sessions : u # s => myKeyCreation'[u] = myKeyCreation[u]
    BY <1>5 DEF SessionDestroyed, SetPrivate, TypeOK, p
  <2>2. p.creator = "none" /\ p.place = "idle"
    BY <1>5 DEF SessionDestroyed, ClaimsEnd, Owned, Creating, p
  <2>3. Keyed'
    BY <1>5, DropClaim DEF SessionDestroyed
  <2>4. BoundKeyPrivate' /\ BindAnswerCurrent'
    BY <1>5, <1>p, <1>k, <1>e, <2>1, KeptKeys DEF SessionDestroyed, p
  <2> QED BY <1>p, <1>f, <2>1, <2>2, <2>3, <2>4, ClaimStep
<1> QED BY <1>1, <1>2, <1>3, <1>4, <1>5

\* The two handlers that acquire creation.
LEMMA AcquireSteps ==
    ASSUME KeyInvariant, NEW s \in Sessions, ConnectToServer(s) \/ AcquireMediaKey(s)
    PROVE  Rest'
<1> USE DEF KeyInvariant, dcVars, mainVars, serverVars
<1>p. /\ priv[s] \in Privates /\ PrivateOK(priv[s])
      /\ priv[s].creator = "bound" => priv[s].keyId # NoKey
  BY PrivatesOK, KeysAssumption DEF TypeOK, BoundKeyPrivate
<1>d. DcType(s) \in DcTypes /\ (IsCdn => DcType(s) = "Cdn")
  BY DcTypeType DEF DcType
<1>c. /\ priv[s].creator = "none" <=> myKeyCreation[s] = "None"
      /\ UNCHANGED phase
      /\ phase[s] \in {"running", "stopping"}
  BY DEF ConnectToServer, AcquireMediaKey, CreatorHoldsClaim, Owned, Idle, Creating
<1> SUFFICES ASSUME NEW p \in Privates, p.creator = priv[s].creator,
                    IsCdn => p.realDcType = "Cdn",
                    NEW acquired, acquired = Acquirable(s, p),
                    TakeKeyCreation(s, acquired),
                    NEW q \in Privates, SetPrivate(s, q), PrivateOK(q), KeepsKey(priv[s], q),
                    q.creator # "none" <=> (p.creator # "none" \/ acquired # "None"),
                    UNCHANGED <<persistentKey, temporaryKeys, boundTo>>
             PROVE  Rest'
  <2>1. CASE ConnectToServer(s)
    <3> DEFINE p == [priv[s] EXCEPT !.realDcType = DcType(s)]
               acquired == Acquirable(s, p)
               current == AcquiredDcType(p, acquired)
               u == [p EXCEPT !.currentDcType = current,
                              !.creator = IF acquired = "None" THEN @ ELSE "idle"]
               q == IF current = "Cdn" /\ ~options.cdnKeys THEN u
                    ELSE [u EXCEPT !.conn = "testing", !.bind = "none"]
    <3>1. /\ p \in Privates /\ p.creator = priv[s].creator /\ (IsCdn => p.realDcType = "Cdn")
          /\ PrivateOK(p) /\ KeepsKey(priv[s], p) /\ p.conn = "down" /\ p.place = "idle"
      BY <1>p, <1>d, <2>1 DEF Privates, PrivateOK, KeepsKey, ConnectToServer, Idle
    <3>2. acquired \in CreatingTypes /\ current \in DcTypes
      BY <3>1, AcquirableType
    <3>3. acquired # "None" => p.creator = "none"
      BY DEF Acquirable
    <3>4. TakeKeyCreation(s, acquired) /\ SetPrivate(s, q)
          /\ UNCHANGED <<persistentKey, temporaryKeys, boundTo>>
      BY <2>1 DEF ConnectToServer
    <3> HIDE DEF acquired, current, p
    <3>5. /\ u \in Privates /\ u.creator = IF acquired = "None" THEN p.creator ELSE "idle"
          /\ u.conn = p.conn /\ u.place = p.place /\ u.keyId = p.keyId /\ u.bind = p.bind
          /\ u.binder = p.binder /\ u.realDcType = p.realDcType
      BY <3>1, <3>2 DEF Privates
    <3> HIDE DEF u
    <3>6. /\ q \in Privates /\ q.creator = u.creator /\ q.place = u.place /\ q.keyId = u.keyId
          /\ q.binder = u.binder /\ q.realDcType = u.realDcType
          /\ q.bind = u.bind \/ q.bind = "none"
          /\ q.conn # "down" => q.bind = "none"
      BY ZenonT(30), <3>1, <3>5 DEF Privates
    <3> HIDE DEF q
    <3>7. PrivateOK(q)
      BY <3>1, <3>3, <3>5, <3>6 DEF PrivateOK
    <3>8. KeepsKey(priv[s], q)
      BY <3>1, <3>3, <3>5, <3>6 DEF KeepsKey
    <3>9. q.creator # "none" <=> (p.creator # "none" \/ acquired # "None")
      BY <3>5, <3>6
    <3> QED BY <3>1, <3>4, <3>6, <3>7, <3>8, <3>9 DEF acquired
  <2>2. CASE AcquireMediaKey(s)
    <3> DEFINE p == priv[s]
               acquired == Acquirable(s, p)
               u == [p EXCEPT !.creator = IF acquired = "None" THEN @ ELSE "idle"]
    <3>1. /\ p.place = "acquire" /\ p.keyId = NoKey /\ p.conn = "up" /\ p.creator # "bound"
          /\ p.bind = "none" /\ (IsCdn => p.realDcType = "Cdn")
      BY <1>p, <2>2 DEF AcquireMediaKey, PrivateOK
    <3>2. acquired # "None" => p.creator = "none"
      BY DEF Acquirable
    <3>3. acquired \in CreatingTypes
      BY <1>p, AcquirableType
    <3>4. /\ TakeKeyCreation(s, acquired)
          /\ \/ SetPrivate(s, Disconnected([u EXCEPT !.place = "idle"]))
             \/ SetPrivate(s, StartCreator(u))
          /\ UNCHANGED <<persistentKey, temporaryKeys, boundTo>>
      BY <2>2 DEF AcquireMediaKey
    <3> HIDE DEF acquired
    <3>5. /\ u \in Privates /\ u.creator = IF acquired = "None" THEN p.creator ELSE "idle"
          /\ u.conn = "up" /\ u.keyId = NoKey /\ u.bind = "none"
          /\ u.realDcType = p.realDcType
      BY <1>p, <3>1, <3>3 DEF Privates
    <3> HIDE DEF u
    <3>6. PICK q \in Privates : /\ SetPrivate(s, q)
                                /\ q.keyId = NoKey /\ q.bind = "none" /\ q.place = "idle"
                                /\ q.realDcType = u.realDcType
                                /\ q.creator = "none" <=> u.creator = "none"
                                /\ q.creator = "bound" <=> u.creator = "bound"
                                /\ q.creator = "started" => q.conn = "up"
      <4>1. CASE SetPrivate(s, Disconnected([u EXCEPT !.place = "idle"]))
        <5> DEFINE r == Disconnected([u EXCEPT !.place = "idle"])
        <5>1. /\ r \in Privates /\ r.keyId = NoKey /\ r.bind = "none" /\ r.place = "idle"
              /\ r.realDcType = u.realDcType
              /\ r.creator = IF u.creator = "started" THEN "idle" ELSE u.creator
          BY <3>5 DEF Disconnected, Privates, Places
        <5> HIDE DEF r
        <5> QED BY <5>1, <4>1 DEF r
      <4>2. CASE SetPrivate(s, StartCreator(u))
        <5> DEFINE r == StartCreator(u)
        <5>1. /\ r \in Privates /\ r.keyId = NoKey /\ r.bind = "none" /\ r.place = "idle"
              /\ r.realDcType = u.realDcType /\ r.conn = "up"
              /\ r.creator = IF u.creator = "idle" THEN "started" ELSE u.creator
          BY <3>5 DEF StartCreator, Privates, Places
        <5> HIDE DEF r
        <5> QED BY <5>1, <4>2 DEF r
      <4> QED BY <3>4, <4>1, <4>2
    <3>7. PrivateOK(q) /\ KeepsKey(priv[s], q)
      BY <3>1, <3>5, <3>6 DEF PrivateOK, KeepsKey
    <3>8. q.creator # "none" <=> (p.creator # "none" \/ acquired # "None")
      BY <3>5, <3>6
    <3> QED BY <1>p, <3>1, <3>4, <3>6, <3>7, <3>8 DEF acquired
  <2> QED BY <2>1, <2>2
<1>1. /\ p.realDcType \in DcTypes
      /\ acquired # "None" => p.creator = "none" /\ acquired = AcquireKeyCreation(p.realDcType)
  BY PrivateUpdates DEF Acquirable
<1>2. Keyed'
  BY <1>1, <1>c, TakeClaim
<1>3. BoundKeyPrivate' /\ BindAnswerCurrent'
  BY KeptKeys DEF LosesKeys
<1>4. /\ \A u \in Sessions : u # s => myKeyCreation'[u] = myKeyCreation[u]
      /\ q.creator # "none" <=> myKeyCreation'[s] # "None"
  BY <1>c DEF TakeKeyCreation, TypeOK
<1>5. phase' = phase
  BY <1>c
<1> QED BY <1>2, <1>3, <1>4, <1>5, <1>c, ClaimStep

\* A step that gives session s, and nobody else, a key that no one has.
LEMMA FreshKey ==
    ASSUME KeyInvariant, NEW s \in Sessions, NEW q \in Privates, SetPrivate(s, q),
           NEW t \in FreshTemporary, q.keyId = t,
           q.creator = "bound" => q.binder \in PersistentKeys /\ q.bind # "ok",
           q.conn # "down" /\ (q.creator # "bound" \/ q.place # "idle") => q.bind = "none",
           UNCHANGED temporaryKeys, boundTo' = [boundTo EXCEPT ![t] = NoKey]
    PROVE  BoundKeyPrivate' /\ BindAnswerCurrent'
<1> USE DEF KeyInvariant
<1>1. /\ priv'[s] = q
      /\ \A u \in Sessions : u # s => priv'[u] = priv[u]
  BY DEF SetPrivate, TypeOK
<1>2. /\ t \in TemporaryKeys
      /\ \A c \in Clusters : temporaryKeys[c] # t
      /\ \A u \in Sessions : priv[u].keyId # t
  BY DEF FreshTemporary, UsedTemporary
<1>3. BoundKeyPrivate'
  BY <1>1, <1>2 DEF BoundKeyPrivate
<1>4. \A u \in Sessions : u # s /\ priv[u].creator = "bound"
                         => boundTo'[priv[u].keyId] = boundTo[priv[u].keyId]
  BY <1>2 DEF TypeOK
<1>5. BindAnswerCurrent'
  BY <1>1, <1>4 DEF BindAnswerCurrent
<1> QED BY <1>3, <1>5

\* A step that releases the claim of session s together with its creator.
LEMMA ReleaseSteps ==
    ASSUME KeyInvariant, NEW s \in Sessions,
           UnboundFailed(s) \/ ReleaseBeforeDestroy(s)
    PROVE  Rest'
<1> USE DEF KeyInvariant, dcVars, mainVars, serverVars
<1> DEFINE p == priv[s]
<1>p. p \in Privates /\ PrivateOK(p)
  BY PrivatesOK DEF TypeOK
<1>c. p.creator = "none" <=> myKeyCreation[s] = "None"
  BY DEF UnboundFailed, ReleaseBeforeDestroy, CreatorHoldsClaim, Owned, Idle, Creating
<1>1. PICK q \in Privates : SetPrivate(s, q) /\ PrivateOK(q) /\ KeepsKey(p, q) /\ q.creator = "none"
  <2> SUFFICES \E q : q \in Privates /\ SetPrivate(s, q) /\ PrivateOK(q) /\ KeepsKey(p, q)
                      /\ q.creator = "none"
    OBVIOUS
  <2>1. CASE UnboundFailed(s) /\ SetPrivate(s, NoCreator(p))
    <3>1. /\ NoCreator(p) \in Privates /\ PrivateOK(NoCreator(p)) /\ KeepsKey(p, NoCreator(p))
          /\ NoCreator(p).creator = "none"
      BY <1>p, <2>1 DEF UnboundFailed, Idle, NoCreator, Privates, PrivateOK, KeepsKey
    <3> QED BY <2>1, <3>1
  <2>2. CASE UnboundFailed(s) /\ SetPrivate(s, Disconnected(NoCreator(p)))
    <3> DEFINE q == Disconnected(NoCreator(p))
    <3>1. q \in Privates /\ PrivateOK(q) /\ KeepsKey(p, q) /\ q.creator = "none"
      BY <1>p, <2>2 DEF UnboundFailed, Idle, Disconnected, NoCreator, Privates, PrivateOK, KeepsKey
    <3> QED BY <2>2, <3>1
  <2>3. CASE ReleaseBeforeDestroy(s)
    <3> DEFINE q == [NoCreator(p) EXCEPT !.place = "destroy"]
    <3>1. q \in Privates /\ PrivateOK(q) /\ KeepsKey(p, q) /\ q.creator = "none"
      BY <1>p, <2>3 DEF ReleaseBeforeDestroy, NoCreator, Privates, Places, PrivateOK, KeepsKey
    <3> QED BY <2>3, <3>1 DEF ReleaseBeforeDestroy
  <2> QED BY <2>1, <2>2, <2>3 DEF UnboundFailed
<1>2. /\ ReleaseKeyCreationOnFail(s)
      /\ UNCHANGED <<persistentKey, temporaryKeys, phase, boundTo>>
      /\ phase[s] \in {"running", "stopping"}
  BY DEF UnboundFailed, ReleaseBeforeDestroy, Idle, Owned
<1>3. Keyed'
  BY <1>2, <1>c, DropClaim DEF ReleaseKeyCreationOnFail, Creating
<1>4. /\ myKeyCreation'[s] = "None"
      /\ \A u \in Sessions : u # s => myKeyCreation'[u] = myKeyCreation[u]
  BY <1>2, <1>c DEF ReleaseKeyCreationOnFail, Creating, TypeOK
<1>5. BoundKeyPrivate' /\ BindAnswerCurrent'
  BY <1>1, <1>2, KeptKeys DEF LosesKeys
<1> QED BY <1>1, <1>2, <1>3, <1>4, <1>5, ClaimStep

\* The handlers that generate a temporary key.
LEMMA ReadySteps ==
    ASSUME KeyInvariant, NEW s \in Sessions, UnboundReady(s) \/ CdnKeyReady(s)
    PROVE  Rest'
<1> USE DEF KeyInvariant, dcVars, mainVars, serverVars
<1> DEFINE p == priv[s]
<1>p. /\ p \in Privates /\ PrivateOK(p)
      /\ p.conn = "up" /\ p.creator = "started" /\ p.place = "idle" /\ p.bind = "none"
  BY PrivatesOK DEF TypeOK, UnboundReady, CdnKeyReady, Idle, PrivateOK
<1>c. myKeyCreation[s] # "None" /\ UNCHANGED phase /\ phase[s] \in {"running", "stopping"}
  BY <1>p DEF UnboundReady, CdnKeyReady, CreatorHoldsClaim, Owned, Idle, Creating
<1>1. CASE UnboundReady(s)
  <2>1. PICK t \in FreshTemporary, key \in PersistentKeys \cup {NoKey} :
          /\ boundTo' = [boundTo EXCEPT ![t] = NoKey]
          /\ IF key = NoKey
             THEN /\ ReleaseKeyCreationOnFail(s)
                  /\ SetPrivate(s, Disconnected(NoCreator(p)))
             ELSE /\ SetPrivate(s, [p EXCEPT !.creator = "bound", !.binder = key, !.keyId = t])
                  /\ UNCHANGED <<creatingKeys, myKeyCreation>>
    BY <1>1 DEF UnboundReady, TypeOK, FreshPersistent
  <2>2. UNCHANGED <<persistentKey, temporaryKeys>>
    BY <1>1 DEF UnboundReady
  <2>3. Keyed'
    BY <2>1, <2>2, <1>c, DropClaim DEF ReleaseKeyCreationOnFail
  <2>4. CASE key # NoKey
    <3> DEFINE q == [p EXCEPT !.creator = "bound", !.binder = key, !.keyId = t]
    <3>1. /\ q \in Privates /\ PrivateOK(q) /\ q.keyId = t /\ q.binder = key
          /\ q.creator = "bound" /\ q.bind = "none" /\ q.place = "idle"
      <4>1. t \in TemporaryKeys
        BY DEF FreshTemporary
      <4> QED BY <1>p, <2>4, <4>1 DEF Privates, PrivateOK
    <3>2. SetPrivate(s, q) /\ UNCHANGED <<creatingKeys, myKeyCreation>>
      BY <2>1, <2>4
    <3> HIDE DEF q, p
    <3>3. BoundKeyPrivate' /\ BindAnswerCurrent'
      BY <2>1, <2>2, <2>4, <3>1, <3>2, FreshKey
    <3> QED BY <1>c, <2>3, <3>1, <3>2, <3>3, ClaimStep
  <2>5. CASE key = NoKey
    <3> DEFINE q == Disconnected(NoCreator(p))
    <3>1. q \in Privates /\ PrivateOK(q) /\ KeepsKey(p, q) /\ q.creator = "none" /\ q.place = "idle"
      BY <1>p DEF Disconnected, NoCreator, Privates, PrivateOK, KeepsKey
    <3>2. SetPrivate(s, q) /\ ReleaseKeyCreationOnFail(s)
      BY <2>1, <2>5
    <3>3. /\ myKeyCreation'[s] = "None"
          /\ \A u \in Sessions : u # s => myKeyCreation'[u] = myKeyCreation[u]
      BY <1>p, <3>2 DEF ReleaseKeyCreationOnFail, Creating, TypeOK
    <3> HIDE DEF q, p
    <3>4. BoundKeyPrivate' /\ BindAnswerCurrent'
      <4>1. /\ priv'[s] = q
            /\ \A u \in Sessions : u # s => priv'[u] = priv[u]
        BY <3>2 DEF SetPrivate, TypeOK
      <4>2. \A u \in Sessions : priv[u].keyId # t
        BY DEF FreshTemporary, UsedTemporary
      <4>3. NoKey \notin TemporaryKeys
        BY KeysAssumption
      <4>4. BoundKeyPrivate'
        <5>1. q.keyId = p.keyId \/ q.keyId = NoKey \/ \E c \in Clusters : q.keyId = temporaryKeys[c]
          BY <3>1 DEF KeepsKey
        <5> QED BY <2>2, <3>1, <4>1, <4>3, <5>1 DEF BoundKeyPrivate, p
      <4>5. \A u \in Sessions : boundTo'[priv[u].keyId] = boundTo[priv[u].keyId]
        BY <2>1, <4>2 DEF TypeOK
      <4>6. BindAnswerCurrent'
        BY <3>1, <4>1, <4>5 DEF BindAnswerCurrent, PrivateOK
      <4> QED BY <4>4, <4>6
    <3> QED BY <1>c, <2>3, <3>1, <3>2, <3>3, <3>4, ClaimStep
  <2> QED BY <2>4, <2>5
<1>2. CASE CdnKeyReady(s)
  <2>1. PICK t \in FreshTemporary :
          /\ boundTo' = [boundTo EXCEPT ![t] = NoKey]
          /\ ReleaseKeyCreationOnDone(s, t, NoKey)
          /\ LET u == NoCreator([p EXCEPT !.keyId = t])
             IN  SetPrivate(s, IF ReleaseAccepted(s, NoKey) THEN u ELSE Disconnected(u))
    BY <1>2 DEF CdnKeyReady
  <2>2. t \in TemporaryKeys /\ IsCdn
    BY <1>2 DEF FreshTemporary, CdnKeyReady
  <2>3. Keyed'
    BY <1>c, <2>1, <2>2, InstallClaim
  <2>4. \A u \in Sessions : priv[u].creator = "bound" =>
            /\ priv[u].binder \in PersistentKeys /\ priv[u].keyId \in TemporaryKeys
            /\ priv[u].keyId # t /\ priv[u].keyId # NoKey
            /\ \A c \in Clusters : temporaryKeys'[c] # priv[u].keyId
            /\ boundTo'[priv[u].keyId] = boundTo[priv[u].keyId]
    BY <2>1, KeysAssumption DEF ReleaseKeyCreationOnDone, Install, FreshTemporary, UsedTemporary,
       BoundKeyPrivate, TypeOK, dcVars, IndexByType, Clusters
  <2>5. PICK q \in Privates : /\ SetPrivate(s, q) /\ PrivateOK(q) /\ q.keyId = t
                              /\ q.creator = "none" /\ q.place = "idle"
    <3> DEFINE u == NoCreator([p EXCEPT !.keyId = t])
    <3>1. /\ u \in Privates /\ PrivateOK(u) /\ u.keyId = t /\ u.creator = "none"
          /\ u.place = "idle"
      BY <1>p, <2>2 DEF NoCreator, Privates, PrivateOK
    <3>2. /\ Disconnected(u) \in Privates /\ PrivateOK(Disconnected(u))
          /\ Disconnected(u).keyId = t /\ Disconnected(u).creator = "none"
          /\ Disconnected(u).place = "idle"
      <4> HIDE DEF u
      <4> QED BY <3>1 DEF Disconnected, Privates, PrivateOK
    <3> QED BY <2>1, <3>1, <3>2
  <2>6. /\ priv'[s] = q
        /\ \A u \in Sessions : u # s => priv'[u] = priv[u]
    BY <2>5 DEF SetPrivate, TypeOK
  <2>7. BoundKeyPrivate' /\ BindAnswerCurrent'
    BY <2>4, <2>5, <2>6 DEF BoundKeyPrivate, BindAnswerCurrent, PrivateOK
  <2>8. /\ myKeyCreation'[s] = "None"
        /\ \A u \in Sessions : u # s => myKeyCreation'[u] = myKeyCreation[u]
    BY <2>1 DEF ReleaseKeyCreationOnDone, TypeOK
  <2> HIDE DEF p
  <2> QED BY <1>c, <2>3, <2>5, <2>7, <2>8, ClaimStep
<1> QED BY <1>1, <1>2

\* The answer to auth.bindTempAuthKey, and its handler.
LEMMA BindSteps ==
    ASSUME KeyInvariant, NEW s \in Sessions, BindSucceeded(s) \/ ServerAnswersBind(s)
    PROVE  Rest'
<1> USE DEF KeyInvariant, dcVars, mainVars, serverVars
<1> DEFINE p == priv[s]
<1>p. /\ p \in Privates /\ PrivateOK(p) /\ p.creator = "bound" /\ p.keyId # NoKey
      /\ p.binder \in PersistentKeys /\ p.keyId \in TemporaryKeys
  BY PrivatesOK, KeysAssumption DEF TypeOK, BindSucceeded, ServerAnswersBind, BindAnswerable,
     BoundKeyPrivate
<1>c. myKeyCreation[s] # "None" /\ UNCHANGED phase /\ phase[s] \in {"running", "stopping"}
  BY <1>p DEF BindSucceeded, ServerAnswersBind, BindAnswerable, CreatorHoldsClaim, Owned, Idle,
     Creating
<1>u. \A u \in Sessions : u # s /\ priv[u].creator = "bound" => priv[u].keyId # p.keyId
  BY DEF BoundKeyPrivate
<1>1. CASE BindSucceeded(s)
  <2>1. PICK q \in Privates : /\ SetPrivate(s, q) /\ PrivateOK(q) /\ q.keyId = p.keyId
                              /\ q.creator = "none"
    <3>1. \A place \in {"idle", "release"} :
            LET q == [NoCreator(p) EXCEPT !.bind = "none", !.place = place]
            IN  /\ q \in Privates /\ PrivateOK(q) /\ q.keyId = p.keyId
                /\ q.creator = "none"
      BY <1>p, <1>1 DEF BindSucceeded, NoCreator, Privates, Places, PrivateOK
    <3> QED BY <1>1, <3>1 DEF BindSucceeded
  <2>2. ReleaseKeyCreationOnDone(s, p.keyId, p.binder) /\ UNCHANGED boundTo
        /\ boundTo[p.keyId] = p.binder
    BY <1>1 DEF BindSucceeded, BindAnswerCurrent
  <2>3. Keyed'
    BY <1>p, <1>c, <2>2, KeysAssumption, InstallClaim
  <2>4. /\ priv'[s] = q
        /\ \A u \in Sessions : u # s => priv'[u] = priv[u]
    BY <2>1 DEF SetPrivate, TypeOK
  <2>5. \A c \in Clusters : temporaryKeys'[c] = temporaryKeys[c] \/ temporaryKeys'[c] = p.keyId
    BY <2>2 DEF ReleaseKeyCreationOnDone, Install, TypeOK
  <2>6. BoundKeyPrivate'
    BY <1>u, <2>1, <2>4, <2>5 DEF BoundKeyPrivate
  <2>7. BindAnswerCurrent'
    BY <2>1, <2>2, <2>4 DEF BindAnswerCurrent, PrivateOK
  <2>8. /\ myKeyCreation'[s] = "None"
        /\ \A u \in Sessions : u # s => myKeyCreation'[u] = myKeyCreation[u]
    BY <2>2 DEF ReleaseKeyCreationOnDone, TypeOK
  <2> QED BY <1>c, <2>1, <2>3, <2>6, <2>7, <2>8, ClaimStep
<1>2. CASE ServerAnswersBind(s)
  <2>1. PICK q \in Privates :
          /\ SetPrivate(s, q) /\ PrivateOK(q) /\ q.keyId = p.keyId /\ q.binder = p.binder
          /\ q.creator = "bound"
          /\ \/ boundTo' = [boundTo EXCEPT ![p.keyId] = p.binder]
             \/ q.bind # "ok" /\ UNCHANGED boundTo
    <3>1. \A bind \in {"ok", "destroyed"} :
            LET q == [p EXCEPT !.bind = bind]
            IN  /\ q \in Privates /\ PrivateOK(q) /\ q.keyId = p.keyId /\ q.binder = p.binder
                /\ q.creator = "bound" /\ q.bind = bind
      BY <1>p, <1>2 DEF ServerAnswersBind, BindAnswerable, Privates, PrivateOK
    <3> QED BY <1>2, <3>1 DEF ServerAnswersBind
  <2>2. /\ UNCHANGED <<persistentKey, temporaryKeys, creatingKeys, myKeyCreation>>
    BY <1>2 DEF ServerAnswersBind
  <2>3. \A t \in TemporaryKeys : t # p.keyId => boundTo'[t] = boundTo[t]
    BY <2>1 DEF TypeOK
  <2>4. InstalledKeysBound'
    <3>1. \A c \in Clusters : temporaryKeys[c] # p.keyId
      BY <1>p DEF BoundKeyPrivate
    <3>2. \A c \in Clusters : temporaryKeys[c] \in TemporaryKeys \cup {NoKey}
      BY DEF TypeOK
    <3> QED BY <2>2, <2>3, <3>1, <3>2 DEF InstalledKeysBound
  <2>5. Keyed'
    BY <2>2, <2>4 DEF Keyed, CreationExclusive, PersistentClaim
  <2>6. /\ priv'[s] = q
        /\ \A u \in Sessions : u # s => priv'[u] = priv[u]
    BY <2>1 DEF SetPrivate, TypeOK
  <2>7. BoundKeyPrivate'
    BY <1>p, <2>1, <2>2, <2>6 DEF BoundKeyPrivate
  <2>8. BindAnswerCurrent'
    <3>1. q.bind = "ok" => boundTo'[p.keyId] = p.binder
      BY <1>p, <2>1 DEF TypeOK
    <3>2. \A u \in Sessions : u # s /\ priv[u].creator = "bound"
                              => boundTo'[priv[u].keyId] = boundTo[priv[u].keyId]
      BY <1>u, <2>3 DEF BoundKeyPrivate
    <3> QED BY <2>1, <2>6, <3>1, <3>2 DEF BindAnswerCurrent, PrivateOK
  <2> HIDE DEF p
  <2> QED BY <1>c, <2>1, <2>2, <2>5, <2>7, <2>8, ClaimStep
<1> QED BY <1>1, <1>2

\* The main thread, the config and the server's memory of keys.
LEMMA MainSteps ==
    ASSUME KeyInvariant,
           \/ TemporaryKeyChanged \/ PersistentKeyChanged \/ KeyDestroyedOnServer
           \/ CdnConfigLoaded \/ MediaOptionsChanged
           \/ \E t \in TemporaryKeys : ServerForgetsTemporary(t)
           \/ \E key \in PersistentKeys : ServerDestroysPersistent(key)
           \/ UNCHANGED vars
    PROVE  Rest'
<1> USE DEF KeyInvariant, dcVars, mainVars, serverVars
<1>1. /\ UNCHANGED <<creatingKeys, phase, myKeyCreation, priv, boundTo>>
      /\ \/ UNCHANGED <<persistentKey, temporaryKeys>>
         \/ persistentKey' = NoKey /\ temporaryKeys' = [c \in Clusters |-> NoKey]
  BY DEF TemporaryKeyChanged, PersistentKeyChanged, KeyDestroyedOnServer, CdnConfigLoaded,
     MediaOptionsChanged, ServerForgetsTemporary, ServerDestroysPersistent, vars
<1>2. LosesKeys
  BY <1>1 DEF LosesKeys
<1>3. CreationExclusive'
  <2>1. \A s \in Sessions : myKeyCreation[s] # "None" =>
          /\ IndexByType(myKeyCreation[s]) \in creatingKeys
          /\ temporaryKeys'[IndexByType(myKeyCreation[s])] = NoKey
    BY <1>2 DEF CreationExclusive, LosesKeys, IndexByType, Clusters
  <2> QED BY <1>1, <2>1 DEF CreationExclusive
<1>4. InstalledKeysBound'
  BY <1>1 DEF InstalledKeysBound
<1>5. CreatorHoldsClaim' /\ ClaimsEnd' /\ StartedUnkeyed' /\ BindAnswerCurrent'
  BY <1>1 DEF CreatorHoldsClaim, ClaimsEnd, StartedUnkeyed, BindAnswerCurrent, Owned, Creating
<1>6. PersistentClaim'
  BY <1>1 DEF PersistentClaim
<1>7. BoundKeyPrivate'
  BY <1>1, <1>2, KeysAssumption DEF BoundKeyPrivate, LosesKeys
<1> QED BY <1>3, <1>4, <1>5, <1>6, <1>7 DEF Rest

-----------------------------------------------------------------------------
(* The theorems                                                            *)

\* KeyInvariant holds initially: nobody has a key or a claim, ...
LEMMA KeyInvariantInit == Init => KeyInvariant
<1> SUFFICES ASSUME Init PROVE KeyInvariant
  OBVIOUS
<1>1. \A s \in Sessions : DcType(s) \in DcTypes /\ (IsCdn => DcType(s) = "Cdn")
  BY DcTypeType DEF DcType
<1>2. \A s \in Sessions :
        LET p == priv[s]
        IN  /\ p \in Privates /\ p.creator = "none" /\ p.place = "idle" /\ p.keyId = NoKey
            /\ p.conn = "down" /\ p.bind = "none" /\ (IsCdn => p.realDcType = "Cdn")
  <2> SUFFICES ASSUME NEW s \in Sessions
               PROVE  LET p == priv[s]
                      IN  /\ p \in Privates /\ p.creator = "none" /\ p.place = "idle"
                          /\ p.keyId = NoKey /\ p.conn = "down" /\ p.bind = "none"
                          /\ (IsCdn => p.realDcType = "Cdn")
    OBVIOUS
  <2>1. priv[s] = InitPrivate(DcType(s))
    BY DEF Init
  <2> QED BY <1>1, <2>1, InitPrivateType DEF InitPrivate
<1>3. TypeOK
  <2>1. priv \in [Sessions -> Privates]
    BY <1>2 DEF Init
  <2>2. /\ queue \in Seq(KeyEvents)
        /\ pending \in [Sessions -> Seq({"updateAuthKey", "restartNow"})]
    BY DEF Init
  <2>3. options \in [media : BOOLEAN, cdnKeys : BOOLEAN]
    BY DEF Init
  <2>4. /\ persistentKey \in PersistentKeys \cup {NoKey}
        /\ keysForWrite \in PersistentKeys \cup {NoKey}
    BY DEF Init
  <2> QED BY <2>1, <2>2, <2>3, <2>4 DEF Init, TypeOK, Phases, CreatingTypes, Clusters
<1>4. CreationExclusive /\ InstalledKeysBound
  BY DEF Init, CreationExclusive, InstalledKeysBound
<1>5. CreatorHoldsClaim /\ ClaimsEnd /\ PersistentClaim
  BY <1>2 DEF Init, CreatorHoldsClaim, ClaimsEnd, PersistentClaim, Creating
<1>6. StartedUnkeyed /\ BoundKeyPrivate /\ BindAnswerCurrent
  BY <1>2 DEF StartedUnkeyed, BoundKeyPrivate, BindAnswerCurrent
<1> QED BY <1>3, <1>4, <1>5, <1>6 DEF KeyInvariant

\* ... and is preserved by every step.
LEMMA KeyInvariantStep == KeyInvariant /\ [Next]_vars => KeyInvariant'
<1> SUFFICES ASSUME KeyInvariant, [Next]_vars PROVE KeyInvariant'
  OBVIOUS
<1>1. TypeOK'
  <2>1. CASE UNCHANGED vars
    BY <2>1 DEF KeyInvariant, TypeOK, vars, dcVars, mainVars, serverVars
  <2> QED BY <2>1, TypeStep
<1>2. Rest'
  <2>1. CASE Next
    BY <2>1, QuietSteps, LifeSteps, AcquireSteps, ReleaseSteps, ReadySteps, BindSteps, MainSteps
    DEF Next, Connect, Update, Acquire, Create, Bind, Refused, Destroy, Life, Failure
  <2> QED BY <2>1, MainSteps
<1> QED BY <1>1, <1>2 DEF KeyInvariant, Rest

\* KeyInvariant holds in every reachable state of the sessions of a DC: any
\* number of them, any keys, CDN or not.
THEOREM KeyInvariantHolds == Spec => []KeyInvariant
  BY KeyInvariantInit, KeyInvariantStep, PTL DEF Spec

\* Every variable keeps its type: no step ever stores a null persistent key in
\* an event, takes a key of the wrong kind, or leaves a handler half way.
THEOREM TypeCorrect == Spec => []TypeOK
<1>1. KeyInvariant => TypeOK
  BY DEF KeyInvariant
<1> QED BY <1>1, KeyInvariantHolds, PTL

\* However many sessions and threads compete in acquireKeyCreation, a cluster's
\* key has one creator, whose flag is up and whose key is still missing.
THEOREM CreationIsExclusive == Spec => []CreationExclusive
<1>1. KeyInvariant => CreationExclusive
  BY DEF KeyInvariant
<1> QED BY <1>1, KeyInvariantHolds, PTL

\* Session::_myKeyCreation and SessionPrivate::_keyCreator never disagree, so
\* the Expects of Session's acquire and release functions hold.
THEOREM ClaimsAgree == Spec => []CreatorHoldsClaim
<1>1. KeyInvariant => CreatorHoldsClaim
  BY DEF KeyInvariant
<1> QED BY <1>1, KeyInvariantHolds, PTL

\* releaseKeyCreationOnDone never installs a temporary key that is bound to a
\* persistent key other than the Dcenter's, whatever happened to that key while
\* auth.bindTempAuthKey was on its way.
THEOREM InstalledKeysAreBound == Spec => []InstalledKeysBound
<1>1. KeyInvariant => InstalledKeysBound
  BY DEF KeyInvariant
<1> QED BY <1>1, KeyInvariantHolds, PTL

-----------------------------------------------------------------------------
(* KeyFixedPerConnection: the handlers that keep the connection keep the    *)
(* key, the others close the connection or had none.                       *)

KeepsConnection(s) ==
    /\ phase[s] = "running" /\ phase'[s] = "running"
    /\ priv[s].conn = "up" /\ priv'[s].conn = "up" /\ priv[s].keyId # NoKey

\* No step changes the key of a session that keeps its connection.
LEMMA KeyFixedStep ==
    ASSUME KeyInvariant, Next, NEW s \in Sessions, KeepsConnection(s)
    PROVE  priv'[s].keyId = priv[s].keyId
<1> USE DEF KeyInvariant, dcVars, mainVars, serverVars, KeepsConnection, Idle
<1>1. \A u \in Sessions : \A q : SetPrivate(u, q) => priv'[s] = IF u = s THEN q ELSE priv[s]
  BY DEF SetPrivate, TypeOK
<1>2. priv[s] \in Privates /\ PrivateOK(priv[s])
  BY PrivatesOK DEF TypeOK
<1>3. UNCHANGED priv => priv'[s].keyId = priv[s].keyId
  OBVIOUS
<1>4. ASSUME NEW u \in Sessions, Connect(u) PROVE priv'[s].keyId = priv[s].keyId
  <2>1. CASE ConnectToServer(u)
    BY <1>1, <2>1 DEF ConnectToServer
  <2>2. CASE ConnectAfterTypeChange(u)
    BY <1>1, <2>2 DEF ConnectAfterTypeChange
  <2>3. CASE OnConnected(u)
    BY <1>1, <2>3 DEF OnConnected
  <2> QED BY <1>4, <2>1, <2>2, <2>3 DEF Connect
<1>5. ASSUME NEW u \in Sessions, Update(u) PROVE priv'[s].keyId = priv[s].keyId
  <2>1. Disconnected(priv[s]).conn = "down" /\ Disconnected([priv[s] EXCEPT !.keyId = NoKey]).conn = "down"
    BY <1>2 DEF Disconnected, Privates
  <2>2. CASE UpdateAuthKey(u)
    BY <1>1, <2>1, <2>2 DEF UpdateAuthKey
  <2>3. CASE RestartNow(u)
    BY <1>1, <2>1, <2>3 DEF RestartNow
  <2> QED BY <1>5, <2>2, <2>3 DEF Update
<1>6. ASSUME NEW u \in Sessions, Acquire(u) PROVE priv'[s].keyId = priv[s].keyId
  <2>1. u # s
    BY <1>2, <1>6 DEF Acquire, CheckRegularKey, AcquireMediaKey, PrivateOK
  <2> QED BY <1>1, <1>6, <2>1 DEF Acquire, CheckRegularKey, AcquireMediaKey
<1>7. ASSUME NEW u \in Sessions, Create(u) PROVE priv'[s].keyId = priv[s].keyId
  <2>1. u # s
    BY <1>2, <1>7 DEF Create, UnboundReady, CdnKeyReady, PrivateOK
  <2> QED BY <1>1, <1>7, <2>1 DEF Create, UnboundReady, CdnKeyReady
<1>8. ASSUME NEW u \in Sessions, Bind(u) PROVE priv'[s].keyId = priv[s].keyId
  <2>1. \A place \in Places :
          [NoCreator(priv[s]) EXCEPT !.bind = "none", !.place = place].keyId = priv[s].keyId
    BY <1>2 DEF NoCreator, Privates
  <2>2. CASE BindSucceeded(u)
    BY <1>1, <2>1, <2>2 DEF BindSucceeded, Places
  <2>3. /\ [priv[s] EXCEPT !.bind = "sent"].keyId = priv[s].keyId
        /\ [priv[s] EXCEPT !.bind = "none"].keyId = priv[s].keyId
        /\ [priv[s] EXCEPT !.bind = "none", !.place = "release"].keyId = priv[s].keyId
    BY <1>2 DEF Privates
  <2>4. CASE SendBindRequest(u)
    BY <1>1, <2>3, <2>4 DEF SendBindRequest
  <2>5. CASE BindKeyDestroyed(u)
    BY <1>1, <2>3, <2>5 DEF BindKeyDestroyed
  <2>6. CASE BindFailed(u)
    BY <1>1, <2>3, <2>6 DEF BindFailed
  <2> QED BY <1>8, <2>2, <2>4, <2>5, <2>6 DEF Bind
<1>9. ASSUME NEW u \in Sessions, Refused(u) PROVE priv'[s].keyId = priv[s].keyId
  <2>1. [Disconnected(priv[s]) EXCEPT !.place = "release"].conn = "down"
        /\ [priv[s] EXCEPT !.place = "release"].keyId = priv[s].keyId
    BY <1>2 DEF Disconnected, Privates
  <2>2. CASE KeyNotFound(u)
    BY <1>1, <2>1, <2>2 DEF KeyNotFound
  <2>3. CASE PermanentKeyEmpty(u)
    BY <1>1, <2>1, <2>3 DEF PermanentKeyEmpty
  <2> QED BY <1>9, <2>2, <2>3 DEF Refused
<1>10. ASSUME NEW u \in Sessions, Destroy(u) PROVE priv'[s].keyId = priv[s].keyId
  <2>1. /\ Disconnected([priv[s] EXCEPT !.keyId = NoKey, !.place = "idle"]).conn = "down"
        /\ [NoCreator(priv[s]) EXCEPT !.place = "destroy"].keyId = priv[s].keyId
    BY <1>2 DEF Disconnected, NoCreator, Privates
  <2> QED BY <1>1, <1>10, <2>1 DEF Destroy, ReleaseBeforeDestroy, DestroyTemporaryKey
<1>11. ASSUME NEW u \in Sessions, Life(u) PROVE priv'[s].keyId = priv[s].keyId
  <2>1. CASE Stop(u) \/ SessionDestroyed(u)
    BY <1>3, <2>1 DEF Stop, SessionDestroyed
  <2>2. CASE PrivateDeleted(u) \/ Resume(u) \/ Kill(u) \/ StartSession(u)
    <3>1. u # s
      BY <2>2 DEF PrivateDeleted, Resume, Kill, StartSession, TypeOK
    <3> QED BY <1>1, <2>2, <3>1 DEF PrivateDeleted, Resume, Kill, StartSession
  <2> QED BY <1>11, <2>1, <2>2 DEF Life
<1>12. ASSUME NEW u \in Sessions, ServerAnswersBind(u) \/ ServerFailsBind(u)
       PROVE  priv'[s].keyId = priv[s].keyId
  BY <1>1, <1>2, <1>12 DEF ServerAnswersBind, ServerFailsBind, Privates
<1>13. ASSUME NEW u \in Sessions, UnboundFailed(u) PROVE priv'[s].keyId = priv[s].keyId
  <2>1. u # s
    BY <1>2, <1>13 DEF UnboundFailed, PrivateOK
  <2> QED BY <1>1, <1>13, <2>1 DEF UnboundFailed
<1>14. ASSUME NEW u \in Sessions, ConnectionLost(u) PROVE priv'[s].keyId = priv[s].keyId
  <2>1. Disconnected(priv[s]).conn = "down"
    BY <1>2 DEF Disconnected, Privates
  <2> QED BY <1>1, <1>14, <2>1 DEF ConnectionLost
<1>15. ASSUME \/ TemporaryKeyChanged \/ PersistentKeyChanged \/ KeyDestroyedOnServer
              \/ CdnConfigLoaded \/ MediaOptionsChanged
              \/ \E t \in TemporaryKeys : ServerForgetsTemporary(t)
              \/ \E key \in PersistentKeys : ServerDestroysPersistent(key)
       PROVE  priv'[s].keyId = priv[s].keyId
  <2>1. UNCHANGED priv
    BY <1>15 DEF TemporaryKeyChanged, PersistentKeyChanged, KeyDestroyedOnServer,
       CdnConfigLoaded, MediaOptionsChanged, ServerForgetsTemporary, ServerDestroysPersistent
  <2> QED BY <1>3, <2>1
<1> QED BY <1>4, <1>5, <1>6, <1>7, <1>8, <1>9, <1>10, <1>11, <1>12, <1>13, <1>14, <1>15
        DEF Next, Failure

\* A connection that has sent packets with a key never goes on with another
\* one: the Assert of applyAuthKey on sentEncryptedWithKeyId.
THEOREM KeyIsFixed == Spec => KeyFixedPerConnection
<1>1. KeyInvariant /\ [Next]_vars
      => [\A s \in Sessions : KeepsConnection(s) => priv'[s].keyId = priv[s].keyId]_vars
  BY KeyFixedStep
<1>2. KeyFixedPerConnection
      <=> [][\A s \in Sessions : KeepsConnection(s) => priv'[s].keyId = priv[s].keyId]_vars
  BY DEF KeyFixedPerConnection, KeepsConnection
<1> QED BY <1>1, <1>2, KeyInvariantHolds, PTL DEF Spec
=============================================================================
