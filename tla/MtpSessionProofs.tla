------------------------- MODULE MtpSessionProofs -------------------------
EXTENDS MtpSession, FiniteSetTheorems, SequenceTheorems, WellFoundedInduction, TLAPS

(***************************************************************************)
(* The safety of the message layer: the inductive invariant                *)
(* SessionInvariant of MtpSession, and the properties that follow from it, *)
(* for windows of received ids, requests and incidents of every number.    *)
(*                                                                         *)
(* The invariant is said once more of the two ends, as Both of the session *)
(* s, the server v and the messages d on their way to the client: Sound of *)
(* what a session knows, ServerFine of the server, Told of a message, Once *)
(* of the updates.  An operator of the model takes a session, or the       *)
(* server's end, to the next one, and a lemma says of each what it keeps   *)
(* (Less, Quietly, Handles, Prepares, TakesOn).  A step is a chain of      *)
(* these, and each action has a lemma of its own.                          *)
(*                                                                         *)
(* RequestInvariant, on which a request and its answer rest, is proved in  *)
(* the same way on top of that: Waits of the session and Keeps of the      *)
(* server, together Keeping, with Serves, Goes and SaidKeeps for the       *)
(* operators.  It needs IdsFit, for an id that is trimmed from the window  *)
(* of acked ids is not known any more.                                     *)
(*                                                                         *)
(* IdsFit is an assumption: a session may use more ids than the window     *)
(* holds.  What the ids in use depend on is IdsAreFew, proved by counting: *)
(* Within says that the ids in use and what may still give a request a new *)
(* one are at most b, and Few that with the errors of the server on the    *)
(* way and the incidents left that is never more than it was at first.     *)
(***************************************************************************)

-----------------------------------------------------------------------------
(* Numbers, sets and sequences                                             *)

\* What holds for 0 and goes from each number to the next holds for all up to the last.
LEMMA Upwards ==
    ASSUME NEW n \in Nat, NEW S, 0 \in S, \A i \in 0..n : i \in S /\ i < n => i + 1 \in S
    PROVE  \A i \in 0..n : i \in S
<1> SUFFICES ASSUME ~(\A i \in 0..n : i \in S) PROVE FALSE
  OBVIOUS
<1> DEFINE T == {i \in 0..n : i \notin S}
<1>1. T \subseteq Nat /\ T # {}
  OBVIOUS
<1>2. \E x \in T : \A y \in T : ~ (<<y, x>> \in OpToRel(<, Nat))
  BY <1>1, NatLessThanWellFounded, WFMin
<1>3. PICK x \in T : \A y \in T : ~(y < x)
  BY <1>1, <1>2 DEF OpToRel
<1>4. x \in 1..n /\ x - 1 \notin T
  BY <1>3
<1> QED BY <1>4

\* A message id has the slot it was made with.
LEMMA SlotOfMsgId ==
    ASSUME NEW n \in Nat, NEW i \in 0..(NumRequests + 4)
    PROVE  MsgId(n, i) \in Nat /\ SlotOf(MsgId(n, i)) = i
<1>1. Slots \in Nat /\ i < Slots
  BY SessionAssumption DEF Slots
<1>2. PICK k : k = n * Slots
  OBVIOUS
<1>3. k \in Nat
  BY <1>1, <1>2
<1> QED BY <1>1, <1>2, <1>3 DEF MsgId, SlotOf

\* No request has the id 0.
LEMMA SlotOfZero == SlotOf(0) = 0
<1>1. Slots \in Nat \ {0}
  BY SessionAssumption DEF Slots
<1> QED BY <1>1 DEF SlotOf

\* First() finds the message with the smallest id.
LEMMA FirstIs ==
    ASSUME NEW S, S # {}, \A m \in S : m.id \in Nat
    PROVE  First(S) \in S
<1> DEFINE T == {m.id : m \in S}
<1>1. T \subseteq Nat /\ T # {}
  OBVIOUS
<1>2. \E x \in T : \A y \in T : ~ (<<y, x>> \in OpToRel(<, Nat))
  BY <1>1, NatLessThanWellFounded, WFMin
<1>3. PICK x \in T : \A y \in T : ~(y < x)
  BY <1>1, <1>2 DEF OpToRel
<1>4. PICK m \in S : m.id = x
  OBVIOUS
<1>5. \A k \in S : m.id <= k.id
  <2> TAKE k \in S
  <2>1. k.id \in T /\ k.id \in Nat /\ x \in Nat
    BY <1>1
  <2> QED BY <1>3, <1>4, <2>1
<1> QED BY <1>5 DEF First

\* What a sequence has after something was appended to it or taken from it.
LEMMA RangeOfAppend ==
    ASSUME NEW S, NEW q \in Seq(S), NEW x \in S
    PROVE  /\ Append(q, x) \in Seq(S)
           /\ Range(Append(q, x)) = Range(q) \cup {x}
           /\ DOMAIN Append(q, x) = 1..Len(q) + 1 /\ DOMAIN q = 1..Len(q) /\ Len(q) \in Nat
           /\ Append(q, x)[Len(q) + 1] = x
           /\ \A i \in DOMAIN q : Append(q, x)[i] = q[i]
<1>1. /\ Append(q, x) \in Seq(S) /\ Len(Append(q, x)) = Len(q) + 1 /\ Len(q) \in Nat
      /\ \A i \in 1..Len(q) : Append(q, x)[i] = q[i]
      /\ Append(q, x)[Len(q) + 1] = x
  BY AppendProperties, LenProperties
<1>2. DOMAIN Append(q, x) = 1..Len(q) + 1 /\ DOMAIN q = 1..Len(q)
  BY <1>1, LenProperties
<1>3. \A i \in 1..Len(q) + 1 : i \in 1..Len(q) \/ i = Len(q) + 1
  BY <1>1
<1>4. Len(q) + 1 \in 1..Len(q) + 1 /\ \A i \in 1..Len(q) : i \in 1..Len(q) + 1
  BY <1>1
<1> HIDE <1>3, <1>4
<1>5. Range(Append(q, x)) \subseteq Range(q) \cup {x}
  BY <1>1, <1>2, <1>3 DEF Range
<1>6. Range(q) \cup {x} \subseteq Range(Append(q, x))
  BY <1>1, <1>2, <1>4 DEF Range
<1> QED BY <1>1, <1>2, <1>5, <1>6

\* ... or taken from it.
LEMMA RangeOfTail ==
    ASSUME NEW S, NEW q \in Seq(S), q # <<>>
    PROVE  /\ Head(q) \in S /\ Head(q) \in Range(q) /\ Head(q) = q[1]
           /\ Tail(q) \in Seq(S) /\ Range(Tail(q)) \subseteq Range(q)
           /\ DOMAIN q = 1..Len(q) /\ DOMAIN Tail(q) = 1..(Len(q) - 1) /\ Len(q) \in Nat \ {0}
           /\ \A i \in DOMAIN Tail(q) : Tail(q)[i] = q[i + 1]
<1>1. /\ Head(q) = q[1] /\ Head(q) \in S /\ Tail(q) \in Seq(S)
      /\ Len(Tail(q)) = Len(q) - 1 /\ \A i \in 1..Len(Tail(q)) : Tail(q)[i] = q[i + 1]
      /\ Len(q) \in Nat /\ Len(q) # 0
  BY HeadTailProperties, EmptySeq, LenProperties
<1>2. DOMAIN q = 1..Len(q) /\ DOMAIN Tail(q) = 1..(Len(q) - 1)
  BY <1>1, LenProperties
<1>3. 1 \in 1..Len(q) /\ \A i \in 1..(Len(q) - 1) : i + 1 \in 1..Len(q)
  BY <1>1
<1>4. Range(Tail(q)) \subseteq Range(q)
  BY <1>1, <1>2, <1>3 DEF Range
<1> QED BY <1>1, <1>2, <1>3, <1>4 DEF Range

-----------------------------------------------------------------------------
(* The window of received ids                                              *)

\* Those of the largest ids that are kept fill the window, if there are as many.
LEMMA ManyAreKept ==
    ASSUME NEW w \in SUBSET Nat, IsFiniteSet(w), Cardinality(w) >= IdsBufferSize
    PROVE  Cardinality(Largest(w)) >= IdsBufferSize
<1> DEFINE Full_(S) == Cardinality(S) >= IdsBufferSize => Cardinality(Largest(S)) >= IdsBufferSize
           T == {k \in 0..Cardinality(w) :
                   \A S \in SUBSET Nat : IsFiniteSet(S) /\ Cardinality(S) = k => Full_(S)}
<1>0. Cardinality(w) \in Nat
  BY FS_CardinalityType
<1>1. 0 \in T
  <2> SUFFICES ASSUME NEW S \in SUBSET Nat, IsFiniteSet(S), Cardinality(S) = 0 PROVE Full_(S)
    BY <1>0
  <2> QED BY BufferAssumption
<1>2. ASSUME NEW k \in 0..Cardinality(w), k \in T, k < Cardinality(w) PROVE k + 1 \in T
  <2> SUFFICES ASSUME NEW S \in SUBSET Nat, IsFiniteSet(S), Cardinality(S) = k + 1,
                      Cardinality(S) >= IdsBufferSize
               PROVE  Cardinality(Largest(S)) >= IdsBufferSize
    BY <1>0, <1>2
  <2>1. \A i \in S : {j \in S : j > i} \subseteq S /\ i \notin {j \in S : j > i}
    OBVIOUS
  <2>2. S # {}
    BY <1>0, FS_EmptySet
  <2>3. \E x \in S : \A y \in S : ~ (<<y, x>> \in OpToRel(<, Nat))
    BY <2>2, NatLessThanWellFounded, WFMin
  <2>4. PICK x \in S : \A y \in S : ~(y < x)
    BY <2>3 DEF OpToRel
  <2> DEFINE R == S \ {x}
  <2>5. IsFiniteSet(R) /\ Cardinality(R) = k /\ R \in SUBSET Nat
    <3>1. IsFiniteSet(R) /\ Cardinality(R) = (k + 1) - 1
      BY FS_RemoveElement, Zenon
    <3>2. k \in Nat
      BY <1>0
    <3> QED BY <3>1, <3>2
  <2>6. {j \in S : j > x} = R
    <3>1. ASSUME NEW j \in S, j # x PROVE j > x
      <4>1. j \in Nat /\ x \in Nat /\ ~(j < x)
        BY <2>4
      <4> QED BY <3>1, <4>1
    <3>2. x \in Nat /\ ~(x > x)
      OBVIOUS
    <3> QED BY <3>1, <3>2
  <2>7. CASE k >= IdsBufferSize
    <3>1. Cardinality(Largest(R)) >= IdsBufferSize
      BY <1>2, <2>5, <2>7
    <3>2. \A i \in R : {j \in S : j > i} = {j \in R : j > i}
      BY <2>4
    <3>3. x \notin Largest(S)
      BY <2>5, <2>6, <2>7, BufferAssumption DEF Largest
    <3>4. Largest(S) = Largest(R)
      BY <3>2, <3>3 DEF Largest
    <3> QED BY <3>1, <3>4
  <2>8. CASE k < IdsBufferSize
    <3>1. ASSUME NEW i \in S PROVE Cardinality({j \in S : j > i}) < IdsBufferSize
      <4>1. {j \in S : j > i} \subseteq R
        BY <2>4
      <4>2. /\ Cardinality({j \in S : j > i}) <= k
            /\ Cardinality({j \in S : j > i}) \in Nat
        BY <2>5, <4>1, FS_Subset, FS_CardinalityType
      <4> QED BY <2>8, <4>2, BufferAssumption
    <3>2. Largest(S) = S
      BY <3>1 DEF Largest
    <3> QED BY <3>2
  <2> QED BY <2>7, <2>8, BufferAssumption
<1> HIDE DEF T
<1>3. \A k \in 0..Cardinality(w) : k \in T
  BY <1>0, <1>1, <1>2, Upwards
<1> QED BY <1>0, <1>3 DEF T

\* If they are not more than the window holds all are kept.
LEMMA FewAreKept ==
    ASSUME NEW S \in SUBSET Nat, IsFiniteSet(S), Cardinality(S) <= IdsBufferSize
    PROVE  Largest(S) = S
<1>1. ASSUME NEW i \in S PROVE Cardinality({j \in S : j > i}) < IdsBufferSize
  <2> DEFINE R == S \ {i}
  <2>1. IsFiniteSet(R) /\ Cardinality(R) = Cardinality(S) - 1 /\ Cardinality(S) \in Nat
    BY FS_RemoveElement, FS_CardinalityType
  <2>2. {j \in S : j > i} \subseteq R
    OBVIOUS
  <2>3. /\ Cardinality({j \in S : j > i}) <= Cardinality(R)
        /\ Cardinality({j \in S : j > i}) \in Nat
    BY <2>1, <2>2, FS_Subset, FS_CardinalityType
  <2> QED BY <2>1, <2>3, BufferAssumption
<1> QED BY <1>1 DEF Largest

\* A id that is not taken again is not taken when others have come ...
LEMMA RegisteredStays ==
    ASSUME NEW w \in SUBSET Nat, IsFiniteSet(w), NEW id \in Nat, NEW k \in Nat,
           Registers(w, k) = "success", Registers(w, id) # "success"
    PROVE  Registers(w \cup {k}, id) # "success"
<1>1. Cardinality(w) \in Nat /\ Cardinality(w \cup {k}) \in Nat
      /\ Cardinality(w \cup {k}) >= Cardinality(w)
  <2>1. Cardinality(w \cup {k}) = IF k \in w THEN Cardinality(w) ELSE Cardinality(w) + 1
    BY FS_AddElement, Zenon
  <2>2. Cardinality(w) \in Nat
    BY FS_CardinalityType
  <2> QED BY <2>1, <2>2
<1>2. CASE id \in w
  BY <1>2 DEF Registers
<1>3. CASE id \notin w
  <2>1. Full(w) /\ \A old \in w : ~(id > old)
    BY <1>3 DEF Registers
  <2>2. Full(w \cup {k})
    BY <1>1, <2>1, BufferAssumption DEF Full
  <2>3. PICK old \in w : k > old
    BY <2>1 DEF Registers
  <2>4. ~(id > k)
    BY <2>1, <2>3
  <2> QED BY <2>1, <2>2, <2>4 DEF Registers
<1> QED BY <1>2, <1>3

\* ... nor when the window is shrunk.
LEMMA RegisteredShrinks ==
    ASSUME NEW w \in SUBSET Nat, IsFiniteSet(w)
    PROVE  /\ Largest(w) \in SUBSET Nat /\ IsFiniteSet(Largest(w))
           /\ \A id \in Nat : Registers(w, id) # "success" => Registers(Largest(w), id) # "success"
<1>1. Largest(w) \subseteq w /\ IsFiniteSet(Largest(w))
  BY FS_Subset DEF Largest
<1>2. ASSUME NEW id \in Nat, Registers(w, id) # "success"
      PROVE  Registers(Largest(w), id) # "success"
  <2>1. CASE id \in Largest(w)
    BY <2>1 DEF Registers
  <2>2. CASE id \notin Largest(w) /\ id \in w
    <3>1. Cardinality({j \in w : j > id}) >= IdsBufferSize
      <4>1. Cardinality({j \in w : j > id}) \in Nat
        BY FS_Subset, FS_CardinalityType
      <4> QED BY <2>2, <4>1, BufferAssumption DEF Largest
    <3>2. Cardinality({j \in w : j > id}) <= Cardinality(w) /\ Cardinality(w) \in Nat
          /\ Cardinality({j \in w : j > id}) \in Nat
      BY FS_Subset, FS_CardinalityType
    <3>3. Full(Largest(w))
      BY <3>1, <3>2, ManyAreKept, BufferAssumption DEF Full
    <3>4. ASSUME NEW old \in Largest(w), id > old PROVE FALSE
      <4>1. old \in w /\ {j \in w : j > id} \subseteq {j \in w : j > old}
        <5>1. old \in w
          BY <1>1
        <5>2. ASSUME NEW j \in w, j > id PROVE j > old
          <6>1. j \in Nat /\ old \in Nat
            BY <5>1
          <6> QED BY <3>4, <5>2, <6>1
        <5> QED BY <5>1, <5>2
      <4>2. IsFiniteSet({j \in w : j > old})
        BY FS_Subset
      <4>3. /\ Cardinality({j \in w : j > id}) <= Cardinality({j \in w : j > old})
            /\ Cardinality({j \in w : j > old}) \in Nat
        BY <4>1, <4>2, FS_Subset, FS_CardinalityType
      <4>4. Cardinality({j \in w : j > old}) < IdsBufferSize
        BY DEF Largest
      <4> QED BY <3>1, <3>2, <4>3, <4>4, BufferAssumption
    <3> QED BY <2>2, <3>3, <3>4 DEF Registers
  <2>3. CASE id \notin w
    <3>1. Full(w) /\ \A old \in w : ~(id > old)
      BY <1>2, <2>3 DEF Registers
    <3>2. Cardinality(w) \in Nat /\ Cardinality(w) >= IdsBufferSize
      BY <3>1, FS_CardinalityType DEF Full
    <3>3. Full(Largest(w))
      BY <3>2, ManyAreKept DEF Full
    <3> QED BY <1>1, <2>3, <3>1, <3>3 DEF Registers
  <2> QED BY <2>1, <2>2, <2>3
<1> QED BY <1>1, <1>2

-----------------------------------------------------------------------------
(* What the operators of a session keep                                    *)

\* From s to t no pair comes up that was not there, and what is not about the messages that
\* were sent is left alone.
Less(s, t) ==
    /\ t \in Sessions
    /\ AllPairs(t) \subseteq AllPairs(s)
    /\ t.toSend \subseteq s.toSend \cup Owners(AllPairs(s))
    /\ t.msgId = s.msgId /\ t.number = s.number /\ t.started = s.started
    /\ t.delayed = s.delayed /\ t.handled = s.handled /\ t.received = s.received
    /\ t.packets = s.packets

\* ... and nothing is given to the main thread.
Quietly(s, t) == Less(s, t) /\ t.haveReceived = s.haveReceived

\* Two quiet steps are one.
LEMMA QuietlyOn ==
    ASSUME NEW s, NEW t, NEW u, Quietly(s, t), Quietly(t, u)
    PROVE  Quietly(s, u)
BY DEF Quietly, Less, Owners

\* Two steps in which no pair comes up are one.
LEMMA LessOn ==
    ASSUME NEW s, NEW t, NEW u, Less(s, t), Less(t, u)
    PROVE  Less(s, u)
BY DEF Less, Owners

\* resend(), for some ids.
LEMMA ResendIdsLess ==
    ASSUME NEW s \in Sessions, NEW ids
    PROVE  Quietly(s, ResendIds(s, ids))
<1> DEFINE again == Of(s.haveSent, ids)
           t == ResendIds(s, ids)
<1>1. again \subseteq s.haveSent /\ Owners(again) \subseteq Requests
  BY DEF Of, Owners, Sessions, Pairs
<1>2. t = [s EXCEPT !.haveSent = @ \ again, !.resending = @ \cup again,
                    !.toSend = @ \cup Owners(again), !.inContainer = @ \cup Owners(again),
                    !.pingMsgId = IF @ \in ids THEN 0 ELSE @]
  BY DEF ResendIds
<1>3. Owners(again) \subseteq Owners(AllPairs(s))
  BY <1>1 DEF Owners, AllPairs
<1> HIDE DEF again, t
<1>4. t \in Sessions
  <2>1. s.haveSent \ again \in Pairs /\ s.resending \cup again \in Pairs
    BY <1>1 DEF Sessions, Pairs
  <2>2. /\ s.toSend \cup Owners(again) \in SUBSET Requests
        /\ s.inContainer \cup Owners(again) \in SUBSET Requests
    BY <1>1 DEF Sessions
  <2>3. PICK ping : ping = IF s.pingMsgId \in ids THEN 0 ELSE s.pingMsgId
    OBVIOUS
  <2>4. ping \in Nat
    BY <2>3 DEF Sessions
  <2>5. t = [s EXCEPT !.haveSent = s.haveSent \ again, !.resending = s.resending \cup again,
                      !.toSend = s.toSend \cup Owners(again),
                      !.inContainer = s.inContainer \cup Owners(again), !.pingMsgId = ping]
    BY <1>2, <2>3
  <2> QED BY <2>1, <2>2, <2>4, <2>5, ZenonT(60) DEF Sessions
<1>5. /\ t.haveSent = s.haveSent \ again /\ t.resending = s.resending \cup again
      /\ t.acked = s.acked /\ t.toSend = s.toSend \cup Owners(again)
      /\ t.msgId = s.msgId /\ t.number = s.number /\ t.started = s.started
      /\ t.delayed = s.delayed /\ t.handled = s.handled /\ t.received = s.received
      /\ t.packets = s.packets /\ t.haveReceived = s.haveReceived
  BY <1>2 DEF Sessions
<1> QED BY <1>1, <1>3, <1>4, <1>5 DEF Quietly, Less, AllPairs, t

\* resend(), of a message or of what its container holds.
LEMMA ResendLess ==
    ASSUME NEW s \in Sessions, NEW id
    PROVE  Quietly(s, Resend(s, id))
<1> DEFINE boxes == {box \in s.containers : box.id = id}
           ids == {id} \cup UNION {box.ids : box \in boxes}
           t == ResendIds(s, ids)
<1>1. Quietly(s, t)
  BY ResendIdsLess
<1>2. Resend(s, id) = [t EXCEPT !.containers = @ \ boxes, !.wantSend = TRUE]
  BY DEF Resend
<1> HIDE DEF t, boxes
<1>3. Resend(s, id) \in Sessions
  <2>1. t \in Sessions
    BY <1>1 DEF Quietly, Less
  <2>2. PICK left : left = t.containers \ boxes
    OBVIOUS
  <2>3. left \in SUBSET [id : Nat, ids : SUBSET Nat]
    BY <2>1, <2>2 DEF Sessions
  <2>4. Resend(s, id) = [t EXCEPT !.containers = left, !.wantSend = TRUE]
    BY <1>2, <2>2
  <2> QED BY <2>1, <2>3, <2>4, ZenonT(60) DEF Sessions
<1> QED BY <1>1, <1>2, <1>3, ZenonT(60) DEF Quietly, Less, Sessions, AllPairs

\* resendAll().
LEMMA ResendAllLess ==
    ASSUME NEW s \in Sessions
    PROVE  Quietly(s, ResendAll(s))
<1> DEFINE t == ResendIds(s, Ids(s.haveSent))
<1>1. Quietly(s, t)
  BY ResendIdsLess
<1>2. ResendAll(s) = [t EXCEPT !.pingMsgId = s.pingMsgId, !.wantSend = TRUE]
  BY DEF ResendAll
<1> HIDE DEF t
<1>3. ResendAll(s) \in Sessions
  BY <1>1, <1>2, ZenonT(60) DEF Quietly, Less, Sessions
<1> QED BY <1>1, <1>2, <1>3, ZenonT(60) DEF Quietly, Less, Sessions, AllPairs

\* requestsAcked(): of what is acked, the messages themselves.
LEMMA AckMessagesLess ==
    ASSUME NEW s \in Sessions, NEW ids, NEW byResponse
    PROVE  Quietly(s, AckMessages(s, ids, byResponse))
<1> DEFINE mine == ids \ ({box.id : box \in s.containers} \cup {q.id : q \in s.stateReqsSent})
           sent == {p \in Of(s.haveSent, mine) : Counts(p, byResponse)}
           again == {p \in Of(s.resending, mine \ Ids(s.haveSent)) : Counts(p, byResponse)}
           unsent == {p \in again : p[2] \in s.toSend}
           acked == TrimAcked(s.acked \cup sent \cup unsent)
           t == AckMessages(s, ids, byResponse)
<1>1. sent \subseteq s.haveSent /\ unsent \subseteq s.resending
  BY DEF Of
<1>2. acked \subseteq AllPairs(s)
  BY <1>1 DEF TrimAcked, Of, AllPairs
<1>3. NotResent(s, again) \subseteq s.toSend
  BY DEF NotResent
<1>4. t = [s EXCEPT !.containers = {box \in @ : box.id \notin ids},
                    !.stateReqsSent = {q \in @ : q.id \notin ids},
                    !.haveSent = @ \ sent, !.resending = @ \ again,
                    !.toSend = NotResent(s, again), !.acked = acked]
  BY DEF AckMessages
<1> HIDE DEF sent, again, unsent, acked, t
<1>5. AllPairs(s) \in Pairs
  BY DEF AllPairs, Sessions, Pairs
<1>6. t \in Sessions
  <2>1. s.haveSent \ sent \in Pairs /\ s.resending \ again \in Pairs /\ acked \in Pairs
    BY <1>2, <1>5 DEF Sessions, Pairs
  <2>2. NotResent(s, again) \in SUBSET Requests
    BY <1>3 DEF Sessions
  <2>3. PICK boxes : boxes = {box \in s.containers : box.id \notin ids}
    OBVIOUS
  <2>4. PICK states : states = {q \in s.stateReqsSent : q.id \notin ids}
    OBVIOUS
  <2>5. boxes \in SUBSET [id : Nat, ids : SUBSET Nat] /\ states \in SUBSET Message
    BY <2>3, <2>4 DEF Sessions
  <2>6. t = [s EXCEPT !.containers = boxes, !.stateReqsSent = states,
                      !.haveSent = s.haveSent \ sent, !.resending = s.resending \ again,
                      !.toSend = NotResent(s, again), !.acked = acked]
    BY <1>4, <2>3, <2>4
  <2> QED BY <2>1, <2>2, <2>5, <2>6, ZenonT(60) DEF Sessions
<1>7. /\ t.haveSent = s.haveSent \ sent /\ t.resending = s.resending \ again
      /\ t.acked = acked /\ t.toSend = NotResent(s, again)
      /\ t.msgId = s.msgId /\ t.number = s.number /\ t.started = s.started
      /\ t.delayed = s.delayed /\ t.handled = s.handled /\ t.received = s.received
      /\ t.packets = s.packets /\ t.haveReceived = s.haveReceived
  BY <1>4 DEF Sessions
<1> QED BY <1>2, <1>3, <1>6, <1>7 DEF Quietly, Less, AllPairs, t

\* requestsAcked(), with what the containers hold.
LEMMA RequestsAckedLess ==
    ASSUME NEW s \in Sessions, NEW ids, NEW byResponse
    PROVE  Quietly(s, RequestsAcked(s, ids, byResponse))
<1> DEFINE t == AckMessages(s, ids, byResponse)
<1>1. Quietly(s, t) /\ t \in Sessions
  BY AckMessagesLess DEF Quietly, Less
<1> HIDE DEF t
<1>2. PICK inside : inside = UNION {box.ids : box \in {b \in s.containers : b.id \in ids}}
  OBVIOUS
<1>3. Quietly(t, AckMessages(t, inside, FALSE))
  BY <1>1, AckMessagesLess
<1> QED BY <1>1, <1>2, <1>3, QuietlyOn DEF RequestsAcked, t

\* handleMsgsStates().
LEMMA HandleStatesLess ==
    ASSUME NEW s \in Sessions, NEW asked, NEW known
    PROVE  Quietly(s, HandleStates(s, asked, known))
<1> DEFINE lost == asked \ known
           t == ResendIds(s, lost)
           u == [t EXCEPT !.wantSend = @ \/ lost \cap Ids(s.haveSent) # {}]
<1>1. Quietly(s, t)
  BY ResendIdsLess
<1> HIDE DEF t
<1>2. PICK more : more = (t.wantSend \/ lost \cap Ids(s.haveSent) # {})
  OBVIOUS
<1>3. more \in BOOLEAN
  BY <1>2
<1>4. u = [t EXCEPT !.wantSend = more]
  BY <1>2
<1> HIDE DEF u
<1>5. u \in Sessions
  BY <1>1, <1>3, <1>4, ZenonT(60) DEF Quietly, Less, Sessions
<1>6. Quietly(s, u)
  BY <1>1, <1>4, <1>5, ZenonT(60) DEF Quietly, Less, Sessions, AllPairs
<1>7. Quietly(u, RequestsAcked(u, asked \cap known, FALSE))
  BY <1>5, RequestsAckedLess
<1>8. HandleStates(s, asked, known) = RequestsAcked(u, asked \cap known, FALSE)
  BY DEF HandleStates, u, t
<1> QED BY <1>6, <1>7, <1>8, QuietlyOn

\* handleReceived(), the salt of the packet.
LEMMA SaltKnownLess ==
    ASSUME NEW s \in Sessions, NEW salt \in Nat
    PROVE  Quietly(s, SaltKnown(s, salt))
<1>1. CASE s.state = "connecting"
  <2> DEFINE t == [s EXCEPT !.salt = salt, !.state = "connected"]
  <2>1. t \in Sessions
    BY DEF Sessions
  <2>2. Quietly(s, t)
    BY <2>1 DEF Quietly, Less, Sessions, AllPairs
  <2>3. Quietly(t, ResendAll(t))
    BY <2>1, ResendAllLess
  <2>4. SaltKnown(s, salt) = ResendAll(t)
    BY <1>1 DEF SaltKnown
  <2> HIDE DEF t
  <2> QED BY <2>2, <2>3, <2>4, QuietlyOn
<1>2. CASE s.state # "connecting"
  <2> DEFINE t == [s EXCEPT !.salt = salt]
  <2>1. t \in Sessions
    BY DEF Sessions
  <2>2. Quietly(s, t)
    BY <2>1 DEF Quietly, Less, Sessions, AllPairs
  <2>3. SaltKnown(s, salt) = t
    BY <1>2 DEF SaltKnown
  <2> QED BY <2>2, <2>3
<1> QED BY <1>1, <1>2

-----------------------------------------------------------------------------
(* What a session knows of the requests: a are those that were asked for,  *)
(* f those that were refused, x those that were executed.                  *)

Sound(s, a, f, x) ==
    /\ s \in Sessions /\ IsFiniteSet(s.received)
    /\ \A p \in AllPairs(s) :
          SlotOf(p[1]) = p[2] /\ p[2] \in a /\ (p[2] \in f \/ p[1] = s.msgId[p[2]])
    /\ \A r \in Requests : s.msgId[r] # 0 => SlotOf(s.msgId[r]) = r
    /\ s.toSend \cup s.delayed \subseteq a
    /\ s.delayed \subseteq f
    /\ \A m \in Range(s.haveReceived) :
          /\ m.kind = "answer" => m.about \in x
          /\ m.kind = "error" /\ m.about \in Requests => m.about \in f

\* A message of the server tells of what was executed and refused.
Told(m, f, x) ==
    /\ m \in ServerMessage
    /\ m.kind = "answer" => SlotOf(m.about) \in x
    /\ m.kind = "fatal" /\ SlotOf(m.about) \in Requests => SlotOf(m.about) \in f

\* A message m gives a response r to the main thread.
Gives(m, r, f, x) ==
    /\ r \in Response
    /\ r.kind = "answer" => r.about \in x
    /\ r.kind = "error" => m.kind = "fatal" /\ (r.about \in Requests => r.about \in f)
    /\ r.kind = "update" => m.kind \in {"update", "session"} /\ r.about = m.id

Given(s, t, m, f, x) ==
    \/ t.haveReceived = s.haveReceived
    \/ \E r : Gives(m, r, f, x) /\ t.haveReceived = Append(s.haveReceived, r)

\* A session stays sound when no pair comes up and what is received is sound.
LEMMA SoundOn ==
    ASSUME NEW s, NEW t, NEW a, NEW f, NEW x, Sound(s, a, f, x), Less(s, t),
           \A m \in Range(t.haveReceived) :
               m \notin Range(s.haveReceived) =>
                  /\ m.kind = "answer" => m.about \in x
                  /\ m.kind = "error" /\ m.about \in Requests => m.about \in f
    PROVE  Sound(t, a, f, x)
<1>1. Owners(AllPairs(s)) \subseteq a
  BY DEF Sound, Owners
<1> QED BY <1>1 DEF Sound, Less

\* A quiet step leaves a sound session sound.
LEMMA SoundQuietly ==
    ASSUME NEW s, NEW t, NEW a, NEW f, NEW x, Sound(s, a, f, x), Quietly(s, t)
    PROVE  Sound(t, a, f, x)
BY SoundOn DEF Quietly

\* wasSent() knows a message by its slot.
LEMMA WasSentIs ==
    ASSUME NEW s, NEW a, NEW f, NEW x, Sound(s, a, f, x), NEW id
    PROVE  \/ WasSent(s, id) \in {0, Special}
           \/ (WasSent(s, id) = SlotOf(id) /\ SlotOf(id) \in a)
<1>1. ASSUME NEW pairs, pairs \subseteq AllPairs(s), id \in Ids(pairs)
      PROVE  Owner(pairs, id) = SlotOf(id) /\ SlotOf(id) \in a
  <2>1. \E p \in pairs : p[1] = id
    BY <1>1 DEF Ids
  <2>2. PICK p \in pairs : p[1] = id /\ Owner(pairs, id) = p[2]
    BY <2>1 DEF Owner
  <2> QED BY <1>1, <2>2 DEF Sound
<1>2. s.resending \subseteq AllPairs(s) /\ s.acked \subseteq AllPairs(s) /\ s.haveSent \subseteq AllPairs(s)
  BY DEF AllPairs
<1> QED BY <1>1, <1>2 DEF WasSent

\* A response is put into haveReceived.
LEMMA ReceiveGives ==
    ASSUME NEW s, NEW a, NEW f, NEW x, Sound(s, a, f, x), NEW m, NEW r, Gives(m, r, f, x)
    PROVE  /\ Less(s, Receive(s, r)) /\ Given(s, Receive(s, r), m, f, x)
           /\ Sound(Receive(s, r), a, f, x)
<1> DEFINE t == Receive(s, r)
<1>1. s \in Sessions /\ s.haveReceived \in Seq(Response) /\ r \in Response
  BY DEF Sound, Sessions, Gives
<1>2. PICK q : q = Append(s.haveReceived, r)
  OBVIOUS
<1>3. q \in Seq(Response) /\ Range(q) = Range(s.haveReceived) \cup {r}
  BY <1>1, <1>2, RangeOfAppend
<1>4. t = [s EXCEPT !.haveReceived = q]
  BY <1>2 DEF Receive
<1> HIDE DEF t
<1>5. t \in Sessions
  BY <1>1, <1>3, <1>4, ZenonT(60) DEF Sessions
<1>6. Less(s, t) /\ t.haveReceived = q
  BY <1>1, <1>4, <1>5 DEF Less, AllPairs, Sessions
<1>7. Sound(t, a, f, x)
  BY <1>3, <1>6, SoundOn DEF Gives
<1> QED BY <1>2, <1>6, <1>7 DEF Given, t

\* What is said of one message that a session handles.
Handles(s, t, m, a, f, x) == Less(s, t) /\ Given(s, t, m, f, x) /\ Sound(t, a, f, x)

\* A message for which nothing is received is handled.
LEMMA QuietlyHandles ==
    ASSUME NEW s, NEW t, NEW m, NEW a, NEW f, NEW x, Sound(s, a, f, x), Quietly(s, t)
    PROVE  Handles(s, t, m, a, f, x)
BY SoundQuietly DEF Quietly, Handles, Given

\* A message that changes nothing is handled.
LEMMA NothingHandles ==
    ASSUME NEW s, NEW m, NEW a, NEW f, NEW x, Sound(s, a, f, x)
    PROVE  Handles(s, s, m, a, f, x)
BY DEF Handles, Given, Less, Sound

\* A message for which, after a quiet step, a response is received is handled.
LEMMA ThenReceives ==
    ASSUME NEW s, NEW t, NEW m, NEW a, NEW f, NEW x, NEW r,
           Sound(s, a, f, x), Quietly(s, t), Gives(m, r, f, x)
    PROVE  Handles(s, Receive(t, r), m, a, f, x)
<1>1. Sound(t, a, f, x)
  BY SoundQuietly
<1>2. Less(t, Receive(t, r)) /\ Given(t, Receive(t, r), m, f, x) /\ Sound(Receive(t, r), a, f, x)
  BY <1>1, ReceiveGives
<1>3. Less(s, Receive(t, r))
  BY <1>2, LessOn DEF Quietly
<1> QED BY <1>2, <1>3 DEF Handles, Given, Quietly

\* handleOneReceived(), each kind of message.
LEMMA HandledHandles ==
    ASSUME NEW s, NEW m, NEW a, NEW f, NEW x, Sound(s, a, f, x), Told(m, f, x), a \subseteq Requests
    PROVE  Handles(s, Handled(s, m), m, a, f, x)
<1>0. s \in Sessions /\ m \in ServerMessage /\ 0 \notin Requests /\ Special \notin Requests
      /\ m.id \in Nat /\ m.about \in Nat
  BY DEF Sound, Told, ServerMessage, Requests, Special
<1>1. CASE m.kind \in {"resend", "reset", "fatal"}
  <2>1. Handled(s, m) = BadMessage(s, m)
    BY <1>1 DEF Handled
  <2>2. CASE WasSent(s, m.about) = 0 \/ m.kind = "reset"
    <3>1. BadMessage(s, m) = s
      BY <2>2 DEF BadMessage
    <3> QED BY <2>1, <3>1, NothingHandles
  <2>3. CASE WasSent(s, m.about) # 0 /\ m.kind = "resend"
    <3>1. BadMessage(s, m) = Resend(s, m.about)
      BY <2>3 DEF BadMessage
    <3> QED BY <1>0, <2>1, <3>1, ResendLess, QuietlyHandles
  <2>4. CASE WasSent(s, m.about) # 0 /\ m.kind = "fatal"
    <3> DEFINE r == [kind |-> "error", about |-> WasSent(s, m.about)]
    <3>1. BadMessage(s, m) = Receive(s, r)
      BY <2>4 DEF BadMessage
    <3>2. \/ WasSent(s, m.about) = Special
          \/ (WasSent(s, m.about) = SlotOf(m.about) /\ SlotOf(m.about) \in a)
      BY <2>4, WasSentIs
    <3>3. WasSent(s, m.about) \in Nat \cup {Special}
      <4>1. \A q \in a : q \in Nat
        BY DEF Requests
      <4> QED BY <3>2, <4>1
    <3>4. r \in Response
      BY <3>3 DEF Response
    <3>5. Gives(m, r, f, x)
      BY <1>0, <2>4, <3>2, <3>4 DEF Gives, Told
    <3> HIDE DEF r
    <3> QED BY <2>1, <3>1, <3>5, ReceiveGives DEF Handles
  <2> QED BY <1>1, <2>2, <2>3, <2>4
<1>2. CASE m.kind = "badSalt"
  <2>1. CASE WasSent(s, m.about) = 0
    <3>1. Handled(s, m) = s
      BY <1>2, <2>1 DEF Handled
    <3> QED BY <3>1, NothingHandles
  <2>2. CASE WasSent(s, m.about) # 0
    <3> DEFINE t == SaltKnown(s, m.salt)
    <3>1. Handled(s, m) = Resend(t, m.about)
      BY <1>2, <2>2 DEF Handled
    <3>2. Quietly(s, t)
      BY <1>0, SaltKnownLess DEF ServerMessage
    <3> HIDE DEF t
    <3>3. Quietly(t, Resend(t, m.about))
      BY <3>2, ResendLess DEF Quietly, Less
    <3>4. Quietly(s, Resend(t, m.about))
      BY <3>2, <3>3, QuietlyOn
    <3> QED BY <3>1, <3>4, QuietlyHandles
  <2> QED BY <2>1, <2>2
<1>3. CASE m.kind = "accepted"
  <2>1. Handled(s, m) = RequestsAcked(s, {m.about}, FALSE)
    BY <1>3 DEF Handled
  <2> QED BY <1>0, <2>1, RequestsAckedLess, QuietlyHandles
<1>4. CASE m.kind = "states"
  <2> DEFINE t == RequestsAcked(s, {m.about}, TRUE)
             asked == UNION {q.ids : q \in {p \in s.stateReqsSent : p.id = m.about}}
  <2>1. Handled(s, m) = HandleStates(t, asked, m.ids)
    BY <1>4 DEF Handled
  <2>2. Quietly(s, t)
    BY <1>0, RequestsAckedLess
  <2> HIDE DEF t, asked
  <2>3. Quietly(t, HandleStates(t, asked, m.ids))
    BY <2>2, HandleStatesLess DEF Quietly, Less
  <2>4. Quietly(s, Handled(s, m))
    BY <2>1, <2>2, <2>3, QuietlyOn
  <2> QED BY <2>4, QuietlyHandles
<1>5. CASE m.kind = "detailed"
  <2> DEFINE t == RequestsAcked(s, {m.about}, FALSE)
             u == [t EXCEPT !.acks = @ \cup (m.ids \cap s.received),
                            !.resendReq = @ \cup (m.ids \ s.received)]
  <2>1. Handled(s, m) = u
    BY <1>5 DEF Handled
  <2>2. Quietly(s, t)
    BY <1>0, RequestsAckedLess
  <2> HIDE DEF t
  <2>3. PICK acks, wanted : acks = t.acks \cup (m.ids \cap s.received)
                            /\ wanted = t.resendReq \cup (m.ids \ s.received)
    OBVIOUS
  <2>4. t \in Sessions
    BY <2>2 DEF Quietly, Less
  <2>5. acks \in SUBSET Nat /\ wanted \in SUBSET Nat
    <3>1. m.ids \in SUBSET Nat
      BY <1>0 DEF ServerMessage
    <3> QED BY <2>3, <2>4, <3>1 DEF Sessions
  <2>6. u = [t EXCEPT !.acks = acks, !.resendReq = wanted]
    BY <2>3
  <2> HIDE DEF u
  <2>7. u \in Sessions
    BY <2>4, <2>5, <2>6 DEF Sessions
  <2>8. Quietly(t, u)
    BY <2>4, <2>6, <2>7, ZenonT(60) DEF Quietly, Less, Sessions, AllPairs
  <2> QED BY <2>1, <2>2, <2>8, QuietlyOn, QuietlyHandles
<1>6. CASE m.kind = "answer"
  <2> DEFINE t == RequestsAcked(s, {m.about}, TRUE)
             r == [kind |-> "answer", about |-> WasSent(t, m.about)]
  <2>1. Quietly(s, t)
    BY <1>0, RequestsAckedLess
  <2>2. Sound(t, a, f, x)
    BY <2>1, SoundQuietly
  <2>3. Handled(s, m) = IF WasSent(t, m.about) \in {0, Special} THEN t ELSE Receive(t, r)
    BY <1>6 DEF Handled
  <2> HIDE DEF t
  <2>4. CASE WasSent(t, m.about) \in {0, Special}
    BY <2>1, <2>3, <2>4, QuietlyHandles
  <2>5. CASE WasSent(t, m.about) \notin {0, Special}
    <3>1. WasSent(t, m.about) = SlotOf(m.about) /\ SlotOf(m.about) \in a
      BY <2>2, <2>5, WasSentIs
    <3>2. r \in Response
      <4>1. \A q \in a : q \in Nat
        BY DEF Requests
      <4>2. WasSent(t, m.about) \in Nat
        BY <3>1, <4>1
      <4> QED BY <4>2 DEF Response
    <3>3. Gives(m, r, f, x)
      BY <1>6, <3>1, <3>2 DEF Gives, Told
    <3> HIDE DEF r
    <3> QED BY <2>1, <2>3, <2>5, <3>3, ThenReceives
  <2> QED BY <2>4, <2>5
<1>7. CASE m.kind = "session"
  <2> DEFINE before == {id \in Ids(s.haveSent) : id < m.about}
             t == [s EXCEPT !.wantSend = @ \/ before # {}]
             u == ResendIds(t, before)
             r == [kind |-> "update", about |-> m.id]
  <2>1. Handled(s, m) = Receive(u, r)
    BY <1>7 DEF Handled
  <2>2. PICK more : more = (s.wantSend \/ before # {})
    OBVIOUS
  <2>3. more \in BOOLEAN
    BY <2>2
  <2>4. t = [s EXCEPT !.wantSend = more]
    BY <2>2
  <2> HIDE DEF t, before
  <2>5. t \in Sessions
    BY <1>0, <2>3, <2>4, ZenonT(60) DEF Sessions
  <2>6. Quietly(s, t)
    BY <1>0, <2>4, <2>5 DEF Quietly, Less, Sessions, AllPairs
  <2>7. Quietly(s, u)
    BY <2>5, <2>6, ResendIdsLess, QuietlyOn
  <2>8. Gives(m, r, f, x)
    BY <1>0, <1>7 DEF Gives, Response
  <2> HIDE DEF r, u
  <2> QED BY <2>1, <2>7, <2>8, ThenReceives
<1>8. CASE m.kind = "update"
  <2> DEFINE r == [kind |-> "update", about |-> m.id]
  <2>1. Handled(s, m) = Receive(s, r)
    BY <1>8 DEF Handled
  <2>2. Gives(m, r, f, x)
    BY <1>0, <1>8 DEF Gives, Response
  <2> HIDE DEF r
  <2> QED BY <2>1, <2>2, ReceiveGives DEF Handles
<1>9. CASE m.kind = "pong"
  <2>1. Handled(s, m) = RequestsAcked(s, {m.about}, TRUE)
    BY <1>9 DEF Handled
  <2> QED BY <1>0, <2>1, RequestsAckedLess, QuietlyHandles
<1> QED
  <2>1. m.kind \in {"answer", "update", "session", "pong", "states", "badSalt", "resend", "reset",
                    "fatal", "detailed", "accepted"}
    BY <1>0 DEF ServerMessage
  <2> QED BY <2>1, <1>1, <1>2, <1>3, <1>4, <1>5, <1>6, <1>7, <1>8, <1>9

-----------------------------------------------------------------------------
(* One message after the other                                             *)

\* The updates a session has taken: those of the main thread, and those it will get.
TakenBy(s) == s.handled \cup {m.about : m \in {k \in Range(s.haveReceived) : k.kind = "update"}}

\* UpdateOnce of a session.
Apart(s) ==
    LET queue == s.haveReceived
        updates == {i \in DOMAIN queue : queue[i].kind = "update"}
    IN  \A i \in updates : /\ queue[i].about \notin s.handled
                           /\ \A j \in updates : queue[j].about = queue[i].about => j = i

\* The updates that were taken are not taken again when they come once more with an id of L.
Once(s, L, last) ==
    /\ \A id \in TakenBy(s) : id <= last
    /\ \A id \in L : id \in TakenBy(s) => Registers(s.received, id) # "success"
    /\ Apart(s)

\* Less, but for the ids that were received.
Stays(s, t) ==
    /\ t \in Sessions
    /\ AllPairs(t) \subseteq AllPairs(s)
    /\ t.toSend \subseteq s.toSend \cup Owners(AllPairs(s))
    /\ t.msgId = s.msgId /\ t.number = s.number /\ t.started = s.started
    /\ t.delayed = s.delayed /\ t.handled = s.handled /\ t.packets = s.packets

\* What stays through two steps stays through both.
LEMMA StaysOn ==
    ASSUME NEW s, NEW t, NEW u, Stays(s, t), Stays(t, u)
    PROVE  Stays(s, u)
BY DEF Stays, Owners

\* It stays when no pair comes up.
LEMMA LessStays ==
    ASSUME NEW s, NEW t, Less(s, t)
    PROVE  Stays(s, t)
BY DEF Stays, Less

\* A response that is added is no update, or one that was not there.
LEMMA GivenApart ==
    ASSUME NEW s \in Sessions, NEW t, NEW r \in Response, Apart(s),
           t.haveReceived = Append(s.haveReceived, r), t.handled = s.handled,
           r.kind = "update" => r.about \notin TakenBy(s)
    PROVE  /\ Apart(t)
           /\ TakenBy(t) = IF r.kind = "update" THEN TakenBy(s) \cup {r.about} ELSE TakenBy(s)
<1> DEFINE q == s.haveReceived
           n == Len(s.haveReceived) + 1
<1>1. q \in Seq(Response)
  BY DEF Sessions
<1>2. /\ Range(t.haveReceived) = Range(q) \cup {r}
      /\ DOMAIN t.haveReceived = 1..n /\ DOMAIN q = 1..Len(q) /\ Len(q) \in Nat
      /\ t.haveReceived[n] = r
      /\ \A i \in DOMAIN q : t.haveReceived[i] = q[i]
  BY <1>1, RangeOfAppend
<1>3. \A i \in 1..n : i \in DOMAIN q \/ i = n
  BY <1>2
<1>4. \A i \in DOMAIN q : q[i] \in Range(q)
  BY DEF Range
<1> HIDE DEF q, n
<1>5. TakenBy(t) = IF r.kind = "update" THEN TakenBy(s) \cup {r.about} ELSE TakenBy(s)
  BY <1>2 DEF TakenBy, q
<1>6. \A i \in DOMAIN q : q[i].kind = "update" => q[i].about \in TakenBy(s)
  BY <1>4 DEF TakenBy, q
<1>7. Apart(t)
  <2> SUFFICES ASSUME NEW i \in 1..n, t.haveReceived[i].kind = "update"
               PROVE  /\ t.haveReceived[i].about \notin t.handled
                      /\ \A j \in 1..n : t.haveReceived[j].kind = "update"
                            /\ t.haveReceived[j].about = t.haveReceived[i].about => j = i
    BY <1>2 DEF Apart
  <2>1. CASE i = n
    <3>1. r.kind = "update" /\ r.about \notin TakenBy(s) /\ t.haveReceived[i] = r
      BY <1>2, <2>1
    <3>2. r.about \notin t.handled
      BY <3>1 DEF TakenBy
    <3>3. ASSUME NEW j \in 1..n, t.haveReceived[j].kind = "update", j # n
          PROVE  t.haveReceived[j].about # r.about
      BY <1>2, <1>3, <1>6, <3>1, <3>3
    <3> QED BY <2>1, <3>1, <3>2, <3>3
  <2>2. CASE i \in DOMAIN q
    <3>1. t.haveReceived[i] = q[i] /\ q[i].kind = "update" /\ q[i].about \in TakenBy(s)
      BY <1>2, <1>6, <2>2
    <3>2. q[i].about \notin s.handled
          /\ \A j \in DOMAIN q : q[j].kind = "update" /\ q[j].about = q[i].about => j = i
      BY <2>2, <3>1 DEF Apart, q
    <3>3. ASSUME NEW j \in 1..n, t.haveReceived[j].kind = "update",
                 t.haveReceived[j].about = q[i].about
          PROVE  j = i
      <4>1. CASE j = n
        BY <1>2, <3>1, <3>3, <4>1
      <4>2. CASE j \in DOMAIN q
        BY <1>2, <3>2, <3>3, <4>2
      <4> QED BY <1>3, <4>1, <4>2
    <3> QED BY <3>1, <3>2, <3>3
  <2> QED BY <1>3, <2>1, <2>2
<1> QED BY <1>5, <1>7

\* What is said of a batch that was handled up to some message.
Fine(b, s, L, last, a, f, x) == Sound(b.s, a, f, x) /\ Once(b.s, L, last) /\ Stays(s, b.s)

\* A message of a container.
LEMMA NextIsFine ==
    ASSUME NEW b, NEW s, NEW L \in SUBSET Nat, NEW last \in Nat, NEW a, NEW f, NEW x, NEW m,
           a \subseteq Requests, Fine(b, s, L, last, a, f, x), Told(m, f, x), m.id <= last,
           m.kind \in {"update", "session"} => m.id \in L
    PROVE  Fine(HandleNext(b, m), s, L, last, a, f, x)
<1> DEFINE acks == IF Stored(m) THEN b.s.acks \cup {m.id} ELSE b.s.acks
           t == [b.s EXCEPT !.acks = acks]
           seen == [t EXCEPT !.received = @ \cup {m.id}]
           registered == Registers(t.received, m.id)
           out == Outcome(seen, m)
<1>0. b.s \in Sessions /\ m.id \in Nat /\ b.s.acks \in SUBSET Nat /\ IsFiniteSet(b.s.received)
      /\ b.s.received \in SUBSET Nat
  BY DEF Fine, Sound, Sessions, Told, ServerMessage
<1>1. acks \in SUBSET Nat
  BY <1>0
<1>2. HandleNext(b, m) =
        CASE b.outcome # "success" -> b
          [] OTHER -> CASE registered = "tooOld" -> [s |-> t, outcome |-> "reset"]
                        [] registered = "duplicate" -> [s |-> t, outcome |-> "success"]
                        [] OTHER -> [s |-> IF out = "ignored" THEN seen ELSE Handled(seen, m),
                                     outcome |-> out]
  BY DEF HandleNext
<1> HIDE DEF acks
<1>3. t \in Sessions
  BY <1>0, <1>1 DEF Sessions
<1>4. Quietly(b.s, t)
  BY <1>0, <1>3 DEF Quietly, Less, Sessions, AllPairs
<1>5. Sound(t, a, f, x)
  BY <1>4, SoundQuietly DEF Fine
<1>6. Once(t, L, last) /\ Stays(s, t)
  <2>1. Stays(s, t)
    BY <1>4, LessStays, StaysOn DEF Fine, Quietly
  <2>2. Once(t, L, last)
    BY <1>4 DEF Fine, Once, Quietly, Less, TakenBy, Apart
  <2> QED BY <2>1, <2>2
<1>7. registered \in {"success", "duplicate", "tooOld"}
  BY DEF Registers
<1>8. ASSUME registered = "success"
      PROVE  /\ seen \in Sessions /\ Sound(seen, a, f, x) /\ Once(seen, L, last)
             /\ Stays(s, seen) /\ Stays(seen, seen)
  <2>1. PICK w : w = t.received \cup {m.id}
    OBVIOUS
  <2>2. t.received = b.s.received /\ w \in SUBSET Nat /\ IsFiniteSet(w)
    BY <1>0, <1>4, <2>1, FS_AddElement DEF Quietly, Less
  <2>3. seen = [t EXCEPT !.received = w]
    BY <2>1
  <2> HIDE DEF t
  <2>4. seen \in Sessions
    BY <1>3, <2>2, <2>3 DEF Sessions
  <2>5. Stays(t, seen) /\ seen.haveReceived = t.haveReceived /\ seen.received = w
    BY <1>3, <2>3, <2>4 DEF Stays, AllPairs, Sessions
  <2> HIDE DEF seen
  <2>6. Sound(seen, a, f, x)
    <3>1. Owners(AllPairs(t)) \subseteq a
      BY <1>5 DEF Sound, Owners
    <3> QED BY <1>5, <2>2, <2>4, <2>5, <3>1 DEF Sound, Stays
  <2>7. TakenBy(seen) = TakenBy(t) /\ Apart(seen)
    BY <1>6, <2>5 DEF Stays, TakenBy, Apart, Once
  <2>8. ASSUME NEW id \in L, id \in TakenBy(seen) PROVE Registers(w, id) # "success"
    <3>1. Registers(t.received, id) # "success" /\ id \in Nat
      BY <1>6, <2>7, <2>8 DEF Once
    <3> QED BY <1>0, <1>8, <2>1, <2>2, <3>1, RegisteredStays
  <2>9. Stays(s, seen) /\ Stays(seen, seen)
    BY <1>6, <2>4, <2>5, StaysOn DEF Stays
  <2> QED BY <1>6, <2>4, <2>5, <2>6, <2>7, <2>8, <2>9 DEF Once
<1>9. ASSUME registered = "success"
      PROVE  Sound(Handled(seen, m), a, f, x) /\ Once(Handled(seen, m), L, last)
             /\ Stays(s, Handled(seen, m))
  <2>0. seen.received = t.received \cup {m.id} /\ t.received \in SUBSET Nat /\ IsFiniteSet(t.received)
        /\ seen.handled = t.handled /\ seen.haveReceived = t.haveReceived
    BY <1>3, <1>5 DEF Sessions, Sound
  <2> HIDE DEF seen, t
  <2>1. Handles(seen, Handled(seen, m), m, a, f, x)
    BY <1>8, <1>9, HandledHandles
  <2>2. PICK u : u = Handled(seen, m)
    OBVIOUS
  <2>3. Less(seen, u) /\ Given(seen, u, m, f, x) /\ Sound(u, a, f, x)
    BY <2>1, <2>2 DEF Handles
  <2>4. Stays(s, u)
    BY <1>8, <1>9, <2>3, LessStays, StaysOn
  <2>5. CASE u.haveReceived = seen.haveReceived
    <3>1. u.handled = seen.handled /\ u.received = seen.received
      BY <2>3 DEF Less
    <3>2. TakenBy(u) = TakenBy(seen) /\ (Apart(seen) => Apart(u))
      BY <2>5, <3>1 DEF TakenBy, Apart
    <3> QED BY <1>8, <1>9, <2>2, <2>3, <2>4, <3>1, <3>2 DEF Once
  <2>6. ASSUME NEW r, Gives(m, r, f, x), u.haveReceived = Append(seen.haveReceived, r)
        PROVE  Once(u, L, last)
    <3>1. ASSUME r.kind = "update" PROVE r.about \notin TakenBy(seen)
      <4>1. r.about = m.id /\ m.id \in L
        BY <2>6, <3>1 DEF Gives
      <4>2. m.id \notin TakenBy(t)
        BY <1>6, <1>9, <4>1 DEF Once
      <4> QED BY <2>0, <4>1, <4>2 DEF TakenBy
    <3>2. u.handled = seen.handled /\ u.received = seen.received
      BY <2>3 DEF Less
    <3>3. /\ Apart(u)
          /\ TakenBy(u) = IF r.kind = "update" THEN TakenBy(seen) \cup {r.about} ELSE TakenBy(seen)
      <4>1. r \in Response /\ Apart(seen) /\ seen \in Sessions
        BY <1>8, <1>9, <2>6 DEF Gives, Once
      <4> QED BY <2>6, <3>1, <3>2, <4>1, GivenApart
    <3>4. r.kind = "update" => r.about = m.id
      BY <2>6 DEF Gives
    <3>5. Registers(u.received, m.id) # "success"
      BY <2>0, <3>2 DEF Registers
    <3> QED BY <1>8, <1>9, <3>2, <3>3, <3>4, <3>5 DEF Once
  <2> QED BY <2>2, <2>3, <2>4, <2>5, <2>6 DEF Given
<1>10. CASE b.outcome # "success"
  <2>1. HandleNext(b, m) = b
    BY <1>2, <1>10
  <2> QED BY <2>1
<1>11. CASE b.outcome = "success" /\ registered # "success"
  <2>1. HandleNext(b, m).s = t
    BY <1>2, <1>7, <1>11
  <2> HIDE DEF t
  <2> QED BY <1>5, <1>6, <2>1 DEF Fine
<1>12. CASE b.outcome = "success" /\ registered = "success"
  <2>1. HandleNext(b, m).s \in {seen, Handled(seen, m)}
    BY <1>2, <1>12
  <2> HIDE DEF t, seen
  <2> QED BY <1>8, <1>9, <1>12, <2>1 DEF Fine
<1> QED BY <1>10, <1>11, <1>12

\* handledBatch() is computed message by message.
LEMMA BatchRuns ==
    ASSUME NEW s, NEW batch, Len(batch) \in Nat
    PROVE  LET start == IF batch[1].salt = s.salt THEN s ELSE SaltKnown(s, batch[1].salt)
           IN  \E g : /\ g[0] = [s |-> start, outcome |-> "success"]
                      /\ g[Len(batch)] = HandledBatch(s, batch)
                      /\ \A i \in 1..Len(batch) : g[i] = HandleNext(g[i - 1], batch[i])
<1> DEFINE start == IF batch[1].salt = s.salt THEN s ELSE SaltKnown(s, batch[1].salt)
           begin == [s |-> start, outcome |-> "success"]
           n == Len(batch)
           Runs(g, k) == g = [i \in 0..k |-> IF i = 0 THEN begin ELSE HandleNext(g[i - 1], batch[i])]
           T == {k \in 0..n : \E g : Runs(g, k)}
<1>0. HandledBatch(s, batch) = (CHOOSE g : Runs(g, n))[n]
  BY DEF HandledBatch
<1> HIDE DEF begin
<1>1. 0 \in T
  <2>1. Runs([i \in 0..0 |-> begin], 0)
    OBVIOUS
  <2> HIDE DEF Runs
  <2> QED BY <2>1
<1>2. ASSUME NEW k \in 0..n, k \in T, k < n PROVE k + 1 \in T
  <2>1. PICK g : Runs(g, k)
    BY <1>2
  <2> DEFINE h == [i \in 0..(k + 1) |-> IF i <= k THEN g[i] ELSE HandleNext(g[k], batch[k + 1])]
  <2>2. \A i \in 0..k : h[i] = g[i]
    OBVIOUS
  <2>3. \A i \in 0..(k + 1) : h[i] = IF i = 0 THEN begin ELSE HandleNext(h[i - 1], batch[i])
    <3> TAKE i \in 0..(k + 1)
    <3>1. CASE i <= k
      <4>1. g[i] = IF i = 0 THEN begin ELSE HandleNext(g[i - 1], batch[i])
        BY <2>1, <3>1
      <4> HIDE DEF h
      <4> QED BY <2>2, <3>1, <4>1
    <3>2. CASE i = k + 1
      <4>1. h[i] = HandleNext(g[k], batch[k + 1]) /\ i # 0 /\ i - 1 = k /\ k \in 0..k
        BY <3>2
      <4> HIDE DEF h
      <4> QED BY <2>2, <3>2, <4>1
    <3> QED BY <3>1, <3>2
  <2>4. Runs(h, k + 1)
    <3>1. h = [i \in 0..(k + 1) |-> h[i]]
      OBVIOUS
    <3> HIDE DEF h
    <3> QED BY <2>3, <3>1
  <2> HIDE DEF Runs, h
  <2> QED BY <1>2, <2>4
<1>3. n \in T
  <2> HIDE DEF T
  <2>1. \A k \in 0..n : k \in T /\ k < n => k + 1 \in T
    BY <1>2
  <2>2. \A k \in 0..n : k \in T
    BY <1>1, <2>1, Upwards
  <2> QED BY <2>2
<1> DEFINE g == CHOOSE g : Runs(g, n)
<1>4. Runs(g, n)
  BY <1>3 DEF T
<1>5. HandledBatch(s, batch) = g[n]
  BY <1>0
<1> HIDE DEF g
<1>6. g[0] = begin /\ \A i \in 1..n : g[i] = HandleNext(g[i - 1], batch[i])
  BY <1>4
<1> QED BY <1>5, <1>6 DEF begin

\* handleReceived(): a packet of messages that tell the truth.
LEMMA BatchIsFine ==
    ASSUME NEW s, NEW L \in SUBSET Nat, NEW last \in Nat, NEW a, NEW f, NEW x,
           NEW batch, Len(batch) \in Nat \ {0}, a \subseteq Requests,
           Sound(s, a, f, x), Once(s, L, last),
           \A i \in 1..Len(batch) :
              /\ Told(batch[i], f, x) /\ batch[i].id <= last
              /\ batch[i].kind \in {"update", "session"} => batch[i].id \in L
    PROVE  Fine(HandledBatch(s, batch), s, L, last, a, f, x)
<1> DEFINE start == IF batch[1].salt = s.salt THEN s ELSE SaltKnown(s, batch[1].salt)
           n == Len(batch)
<1>1. PICK g : /\ g[0] = [s |-> start, outcome |-> "success"]
               /\ g[n] = HandledBatch(s, batch)
               /\ \A i \in 1..n : g[i] = HandleNext(g[i - 1], batch[i])
  BY BatchRuns
<1>2. Quietly(s, start)
  <2>1. s \in Sessions /\ batch[1].salt \in Nat
    BY DEF Sound, Told, ServerMessage
  <2>2. Quietly(s, SaltKnown(s, batch[1].salt))
    BY <2>1, SaltKnownLess
  <2>3. Quietly(s, s)
    BY <2>1 DEF Quietly, Less
  <2> QED BY <2>2, <2>3
<1> HIDE DEF start
<1> DEFINE T == {i \in 0..n : Fine(g[i], s, L, last, a, f, x)}
<1>3. 0 \in T
  <2>1. Sound(start, a, f, x) /\ Stays(s, start)
    BY <1>2, SoundQuietly, LessStays DEF Quietly
  <2>2. Once(start, L, last)
    BY <1>2 DEF Once, Quietly, Less, TakenBy, Apart
  <2> QED BY <1>1, <2>1, <2>2 DEF Fine
<1>4. ASSUME NEW i \in 0..n, i \in T, i < n PROVE i + 1 \in T
  <2>1. i + 1 \in 1..n /\ (i + 1) - 1 = i
    BY <1>4
  <2>2. g[i + 1] = HandleNext(g[i], batch[i + 1])
    BY <1>1, <2>1
  <2>3. Fine(g[i], s, L, last, a, f, x)
    BY <1>4
  <2>4. Fine(HandleNext(g[i], batch[i + 1]), s, L, last, a, f, x)
    BY <2>1, <2>3, NextIsFine
  <2> QED BY <2>1, <2>2, <2>4
<1> HIDE DEF T
<1>5. \A i \in 0..n : i \in T
  BY <1>3, <1>4, Upwards
<1> QED BY <1>1, <1>5 DEF T

-----------------------------------------------------------------------------
(* The two ends of the session                                             *)

Current(id, r, s, f) == r \in f \/ id = s.msgId[r]

\* A packet on its way to the server.
PacketFine(p, s, a, f) ==
    /\ p.session = s.number
    /\ p.messages # {} /\ IsFiniteSet(p.messages)
    /\ \A m \in p.messages : m.kind = "request" =>
          /\ m.ids = {SlotOf(m.id)} /\ SlotOf(m.id) \in a
          /\ Current(m.id, SlotOf(m.id), s, f) /\ s.started
    /\ SlotOf(p.id) \in Requests =>
          \E m \in p.messages : m.kind = "request" /\ m.ids = {SlotOf(p.id)}

\* The updates that the server, with v, may send, or has sent with d.
LiveOf(s, v, d) ==
    {m.id : m \in {k \in Range(d) \cup (IF v.session = s.number THEN v.stored ELSE {}) :
                      k.kind \in {"update", "session"}}}

ServerFine(v, s, a) ==
    /\ \A p \in v.ran : SlotOf(p[1]) = p[2] /\ p[2] \in a
    /\ v.executed \subseteq a
    /\ \A id \in v.pending : SlotOf(id) \in v.executed
    /\ v.session <= s.number
    /\ v.heard => v.session = s.number
    /\ v.session = s.number =>
          \A p \in v.ran : Current(p[1], p[2], s, v.refused) /\ s.started
    /\ \A p, q \in v.ran : p[2] = q[2] => p = q \/ p[2] \in v.refused
    /\ \A m \in v.stored : Told(m, v.refused, v.executed) /\ m.id <= v.last

DownFine(d, v) ==
    \A m \in Range(d) :
        /\ Told(m, v.refused, v.executed) /\ m.id <= v.last
        /\ Stored(m) => v.heard

\* The client's end s and the server's end v, with d on the way to the client.
Both(s, v, d, a) ==
    /\ v \in Servers /\ d \in Seq(ServerMessage)
    /\ Sound(s, a, v.refused, v.executed)
    /\ Once(s, LiveOf(s, v, d), v.last)
    /\ ServerFine(v, s, a) /\ DownFine(d, v)

Holds ==
    /\ callback \in [Requests -> {"none", "waiting", "called", "cancelled"}]
    /\ events \in 0..MaxEvents
    /\ Both(session, server, down, Asked)
    /\ up \in Seq(Packet)
    /\ \A p \in Range(up) : PacketFine(p, session, Asked, server.refused)

\* The invariant, said of the two ends.
LEMMA InvariantIs == SessionInvariant <=> Holds
<1>1. SessionInvariant => Holds
  <2> SUFFICES ASSUME SessionInvariant PROVE Holds
    OBVIOUS
  <2> USE DEF SessionInvariant
  <2>1. Sound(session, Asked, server.refused, server.executed)
    BY DEF Sound, TypeOK, IdsTell, OnlyRefused, OneId
  <2>2. \A m \in OnTheWay : Told(m, server.refused, server.executed) /\ m.id <= server.last
    <3>1. \A m \in OnTheWay : m \in ServerMessage
      <4>1. down \in Seq(ServerMessage) /\ server.stored \subseteq ServerMessage
        BY DEF TypeOK, Servers
      <4>2. Range(down) \subseteq ServerMessage
        BY <4>1, LenProperties DEF Range
      <4> QED BY <4>1, <4>2 DEF OnTheWay
    <3> QED BY <3>1 DEF IdsTell, OnlyRefused, UpdatesRegistered, Told
  <2>3. DownFine(down, server)
    BY <2>2 DEF DownFine, OnTheWay, SessionsAgree
  <2>4. ServerFine(server, session, Asked)
    BY <2>2 DEF ServerFine, OnTheWay, IdsTell, SessionsAgree, OneId, RunsOnce, Current
  <2>5. Once(session, LiveOf(session, server, down), server.last)
    <3>1. TakenBy(session) = TakenUpdates
      BY DEF TakenBy, TakenUpdates
    <3>2. \A id \in LiveOf(session, server, down) :
             id \in TakenUpdates => Registers(session.received, id) # "success"
      BY DEF UpdatesRegistered, LiveOf
    <3>3. Apart(session)
      BY DEF Apart, UpdateOnce
    <3> QED BY <3>1, <3>2, <3>3 DEF Once, UpdatesRegistered
  <2>6. \A p \in Range(up) : PacketFine(p, session, Asked, server.refused)
    BY DEF PacketFine, PacketsTell, OneId, Current
  <2> QED BY <2>1, <2>3, <2>4, <2>5, <2>6 DEF Holds, Both, TypeOK
<1>2. Holds => SessionInvariant
  <2> SUFFICES ASSUME Holds PROVE SessionInvariant
    OBVIOUS
  <2>1. TypeOK
    BY DEF Holds, Both, Sound, TypeOK
  <2>2. \A m \in OnTheWay : Told(m, server.refused, server.executed) /\ m.id <= server.last
    BY DEF Holds, Both, ServerFine, DownFine, OnTheWay
  <2>3. IdsTell
    BY <2>2 DEF Holds, Both, Sound, ServerFine, IdsTell, Told
  <2>4. PacketsTell
    BY DEF Holds, PacketFine, PacketsTell
  <2>5. SessionsAgree
    BY DEF Holds, Both, ServerFine, DownFine, SessionsAgree
  <2>6. OnlyRefused
    BY <2>2 DEF Holds, Both, Sound, Told, OnlyRefused
  <2>7. OneId
    BY DEF Holds, Both, Sound, ServerFine, PacketFine, Current, OneId
  <2>8. UpdatesRegistered /\ UpdateOnce
    <3>1. TakenBy(session) = TakenUpdates
      BY DEF TakenBy, TakenUpdates
    <3>2. Once(session, LiveOf(session, server, down), server.last)
      BY DEF Holds, Both
    <3>3. UpdateOnce
      BY <3>2 DEF Once, Apart, UpdateOnce
    <3>4. UpdatesRegistered
      BY <2>2, <3>1, <3>2 DEF Once, LiveOf, UpdatesRegistered
    <3> QED BY <3>3, <3>4
  <2>9. RunsOnce
    BY DEF Holds, Both, ServerFine, RunsOnce
  <2> QED BY <2>1, <2>3, <2>4, <2>5, <2>6, <2>7, <2>8, <2>9 DEF SessionInvariant
<1> QED BY <1>1, <1>2

\* A session stays sound when more was asked for, refused and executed.
LEMMA SoundGrows ==
    ASSUME NEW s, NEW a, NEW f, NEW x, NEW b, NEW g, NEW y,
           Sound(s, a, f, x), a \subseteq b, f \subseteq g, x \subseteq y
    PROVE  Sound(s, b, g, y)
BY DEF Sound

\* A message stays true when more was refused and executed.
LEMMA ToldGrows ==
    ASSUME NEW m, NEW f, NEW x, NEW g, NEW y, Told(m, f, x), f \subseteq g, x \subseteq y
    PROVE  Told(m, g, y)
BY DEF Told

\* A packet stays fine when more was asked for and refused.
LEMMA PacketGrows ==
    ASSUME NEW p, NEW s, NEW t, NEW a, NEW b, NEW f, NEW g, PacketFine(p, s, a, f),
           a \subseteq b, f \subseteq g, t.number = s.number, s.started => t.started,
           \A m \in p.messages : m.kind = "request" =>
               Current(m.id, SlotOf(m.id), t, g)
    PROVE  PacketFine(p, t, b, g)
BY DEF PacketFine

\* Updates still come once when those that may come are the same or newer than all.
LEMMA OnceMore ==
    ASSUME NEW s, NEW L, NEW M \in SUBSET Nat, NEW last \in Nat, NEW more \in Nat, Once(s, L, last),
           s \in Sessions, last <= more, \A id \in M : id \in L \/ id > last
    PROVE  Once(s, M, more)
<1>1. \A id \in TakenBy(s) : id \in Int
  <2>1. s.handled \subseteq Nat /\ s.haveReceived \in Seq(Response)
    BY DEF Sessions
  <2>2. \A k \in Range(s.haveReceived) : k.about \in Int
    <3>1. Range(s.haveReceived) \subseteq Response
      BY <2>1, LenProperties DEF Range
    <3> QED BY <3>1 DEF Response, Special
  <2> QED BY <2>1, <2>2 DEF TakenBy
<1>2. \A id \in TakenBy(s) : id <= more
  BY <1>1 DEF Once
<1>3. ASSUME NEW id \in M, id \in TakenBy(s) PROVE Registers(s.received, id) # "success"
  <2>1. id <= last /\ id \in Nat
    BY <1>3 DEF Once
  <2>2. id \in L
    BY <2>1
  <2> QED BY <1>3, <2>2 DEF Once
<1> QED BY <1>2, <1>3 DEF Once

-----------------------------------------------------------------------------
(* The server's end                                                        *)

Ends == [v : Servers, d : Seq(ServerMessage)]

\* The updates that may come are known by their ids.
LEMMA LiveIs ==
    ASSUME NEW s, NEW v \in Servers, NEW d \in Seq(ServerMessage)
    PROVE  LiveOf(s, v, d) \in SUBSET Nat
<1>1. Range(d) \subseteq ServerMessage /\ v.stored \subseteq ServerMessage
  BY LenProperties DEF Range, Servers
<1>2. \A m \in ServerMessage : m.id \in Nat
  BY DEF ServerMessage
<1> QED BY <1>1, <1>2 DEF LiveOf

\* The server changes while nothing is said.
LEMMA ServerChanges ==
    ASSUME NEW s, NEW v, NEW w \in Servers, NEW d, NEW c, NEW a, Both(s, v, d, a),
           c \in Seq(ServerMessage), Range(c) \subseteq Range(d) \cup v.stored,
           \A m \in Range(c) : Stored(m) => w.heard /\ (m \in Range(d) \/ v.session = s.number),
           v.refused \subseteq w.refused, v.executed \subseteq w.executed, w.last = v.last,
           \/ w.session = v.session /\ w.stored \subseteq v.stored
           \/ w.stored = {},
           ServerFine(w, s, a)
    PROVE  Both(s, w, c, a)
<1>1. Sound(s, a, w.refused, w.executed)
  BY SoundGrows DEF Both
<1>2. DownFine(c, w)
  BY ToldGrows DEF Both, DownFine, ServerFine
<1>3. LiveOf(s, w, c) \subseteq LiveOf(s, v, d)
  BY DEF LiveOf, Stored
<1>4. Once(s, LiveOf(s, w, c), w.last)
  BY <1>3 DEF Both, Once
<1> QED BY <1>1, <1>2, <1>4 DEF Both

\* The server says something.
SaysOn(s, e, g, a) ==
    /\ g \in Ends /\ Both(s, g.v, g.d, a)
    /\ g.v.session = e.v.session /\ g.v.heard = e.v.heard /\ g.v.ran = e.v.ran
    /\ g.v.executed = e.v.executed /\ g.v.refused = e.v.refused
    /\ g.v.pending = e.v.pending /\ g.v.salt = e.v.salt

\* The server says something: its message is new and true, and the updates still come once.
LEMMA SaidFine ==
    ASSUME NEW s, NEW e \in Ends, NEW a, Both(s, e.v, e.d, a),
           NEW kind \in {"answer", "update", "session", "pong", "states", "badSalt", "resend",
                         "reset", "fatal", "detailed", "accepted"},
           NEW about \in Nat, NEW ids \in SUBSET Nat,
           kind \in {"answer", "update", "session"} => e.v.heard,
           kind = "answer" => SlotOf(about) \in e.v.executed,
           kind = "fatal" /\ SlotOf(about) \in Requests => SlotOf(about) \in e.v.refused
    PROVE  SaysOn(s, e, Said(e, kind, about, ids), a)
<1> DEFINE m == [id |-> e.v.last + 1, salt |-> e.v.salt, kind |-> kind, about |-> about, ids |-> ids]
           stored == IF Stored(m) THEN e.v.stored \cup {m} ELSE e.v.stored
           sent == e.v.sent \cup {m.id}
           w == [e.v EXCEPT !.last = m.id, !.sent = sent, !.stored = stored]
           c == Append(e.d, m)
<1>0. e.v \in Servers /\ e.d \in Seq(ServerMessage)
  BY DEF Ends
<1>1. Said(e, kind, about, ids) = [v |-> w, d |-> c]
  BY DEF Said
<1>2. e.v.last \in Nat /\ e.v.salt \in Nat /\ e.v.stored \in SUBSET ServerMessage
      /\ e.v.sent \in SUBSET Nat
  BY <1>0 DEF Servers
<1>3. m \in ServerMessage /\ m.id = e.v.last + 1 /\ m.kind = kind /\ m.about = about
  BY <1>2 DEF ServerMessage
<1>4. Stored(m) <=> kind \in {"answer", "update", "session"}
  BY DEF Stored
<1> HIDE DEF m
<1>5. stored \in SUBSET ServerMessage /\ sent \in SUBSET Nat /\ m.id \in Nat
      /\ stored \subseteq e.v.stored \cup {m}
  BY <1>2, <1>3
<1>6. Stored(m) => e.v.heard
  BY <1>4
<1> HIDE DEF stored, sent
<1>7. /\ w \in Servers /\ w.last = e.v.last + 1 /\ w.stored = stored
      /\ w.session = e.v.session /\ w.heard = e.v.heard /\ w.ran = e.v.ran
      /\ w.executed = e.v.executed /\ w.refused = e.v.refused
      /\ w.pending = e.v.pending /\ w.salt = e.v.salt
  BY <1>0, <1>3, <1>5 DEF Servers
<1> HIDE DEF w
<1>8. c \in Seq(ServerMessage) /\ Range(c) = Range(e.d) \cup {m}
  BY <1>0, <1>3, RangeOfAppend
<1> HIDE DEF c
<1>9. Told(m, w.refused, w.executed) /\ m.id <= w.last
  BY <1>2, <1>3, <1>7 DEF Told
<1>10. ASSUME NEW k, Told(k, e.v.refused, e.v.executed), k.id <= e.v.last
       PROVE  Told(k, w.refused, w.executed) /\ k.id <= w.last
  <2>1. k.id \in Nat
    BY <1>10 DEF Told, ServerMessage
  <2> QED BY <1>2, <1>7, <1>10, <2>1
<1>11. ServerFine(w, s, a)
  <2>1. \A k \in w.stored : Told(k, w.refused, w.executed) /\ k.id <= w.last
    BY <1>5, <1>7, <1>9, <1>10 DEF Both, ServerFine
  <2> QED BY <1>7, <2>1 DEF Both, ServerFine
<1>12. DownFine(c, w)
  BY <1>6, <1>7, <1>8, <1>9, <1>10 DEF Both, DownFine
<1>13. Once(s, LiveOf(s, w, c), w.last)
  <2>1. \A id \in LiveOf(s, w, c) : id \in LiveOf(s, e.v, e.d) \/ id = m.id
    BY <1>5, <1>7, <1>8 DEF LiveOf
  <2>2. m.id > e.v.last /\ e.v.last <= w.last /\ w.last \in Nat
    BY <1>2, <1>3, <1>7
  <2>3. LiveOf(s, w, c) \in SUBSET Nat
    BY <1>7, <1>8, LiveIs
  <2>4. s \in Sessions /\ Once(s, LiveOf(s, e.v, e.d), e.v.last)
    BY DEF Both, Sound
  <2> QED BY <1>2, <2>1, <2>2, <2>3, <2>4, OnceMore
<1>14. Both(s, w, c, a)
  BY <1>7, <1>8, <1>11, <1>12, <1>13 DEF Both
<1>15. PICK g : g = [v |-> w, d |-> c]
  OBVIOUS
<1>16. g \in Ends /\ g.v = w /\ g.d = c
  BY <1>7, <1>8, <1>15 DEF Ends
<1> QED BY <1>1, <1>7, <1>14, <1>15, <1>16 DEF SaysOn

\* A message of a packet is taken.
TakesOn(s, e, g, a) ==
    /\ g \in Ends /\ Both(s, g.v, g.d, a)
    /\ g.v.session = e.v.session /\ g.v.heard = e.v.heard
    /\ g.v.refused = e.v.refused /\ e.v.executed \subseteq g.v.executed

\* The server changes while it takes a message, and says nothing.
LEMMA TakesTo ==
    ASSUME NEW s, NEW e \in Ends, NEW a, NEW w \in Servers, Both(s, w, e.d, a),
           w.session = e.v.session, w.heard = e.v.heard, w.refused = e.v.refused,
           e.v.executed \subseteq w.executed
    PROVE  TakesOn(s, e, [v |-> w, d |-> e.d], a)
<1>1. e.d \in Seq(ServerMessage)
  BY DEF Ends
<1>2. PICK g : g = [v |-> w, d |-> e.d]
  OBVIOUS
<1>3. g \in Ends /\ g.v = w /\ g.d = e.d
  BY <1>1, <1>2 DEF Ends
<1> QED BY <1>2, <1>3 DEF TakesOn

\* The server answers a message at once.
LEMMA SaidTakes ==
    ASSUME NEW s, NEW e \in Ends, NEW a, Both(s, e.v, e.d, a), NEW kind \in {"pong", "states"},
           NEW about \in Nat, NEW ids \in SUBSET Nat
    PROVE  TakesOn(s, e, Said(e, kind, about, ids), a)
<1>1. PICK g : g = Said(e, kind, about, ids)
  OBVIOUS
<1>2. kind \in {"answer", "update", "session", "pong", "states", "badSalt", "resend",
                "reset", "fatal", "detailed", "accepted"}
      /\ kind \notin {"answer", "update", "session", "fatal"}
  OBVIOUS
<1>3. SaysOn(s, e, g, a)
  BY <1>1, <1>2, SaidFine
<1> QED BY <1>1, <1>3 DEF SaysOn, TakesOn

\* The server takes a message of a packet.
LEMMA TakeFine ==
    ASSUME NEW s, NEW e \in Ends, NEW a \in SUBSET Requests, Both(s, e.v, e.d, a), NEW m \in Message,
           e.v.heard, e.v.session = s.number,
           m.kind = "request" =>
              /\ m.ids = {SlotOf(m.id)} /\ SlotOf(m.id) \in a
              /\ Current(m.id, SlotOf(m.id), s, e.v.refused) /\ s.started
    PROVE  TakesOn(s, e, Take(e, m), a)
<1>0. e.v \in Servers /\ e.d \in Seq(ServerMessage) /\ m.id \in Nat /\ m.ids \in SUBSET Nat
  BY DEF Ends, Message
<1> DEFINE v == e.v
<1>1. CASE m.kind = "request" /\ m.id \in Ids(e.v.ran)
  <2>1. Take(e, m) = e
    BY <1>1 DEF Take
  <2> QED BY <2>1 DEF TakesOn
<1>2. CASE m.kind = "request" /\ m.id \notin Ids(e.v.ran)
  <2> DEFINE r == SlotOf(m.id)
             ran == e.v.ran \cup {<<m.id, r>>}
             executed == e.v.executed \cup {r}
             pending == e.v.pending \cup {m.id}
             w == [e.v EXCEPT !.ran = ran, !.executed = executed, !.pending = pending]
  <2>1. Take(e, m) = [v |-> w, d |-> e.d]
    <3>1. Take(e, m) = [e EXCEPT !.v.ran = @ \cup {<<m.id, q>> : q \in m.ids},
                                 !.v.executed = @ \cup m.ids, !.v.pending = @ \cup {m.id}]
      BY <1>2 DEF Take
    <3>2. {<<m.id, q>> : q \in m.ids} = {<<m.id, r>>}
      BY <1>2
    <3> QED BY <1>2, <3>1, <3>2 DEF Ends, Servers
  <2>2. r \in a /\ r \in Requests /\ m.ids = {r} /\ Current(m.id, r, s, e.v.refused) /\ s.started
    BY <1>2
  <2> HIDE DEF r
  <2>3. ran \in Pairs /\ executed \in SUBSET Requests /\ pending \in SUBSET Nat
    BY <1>0, <2>2 DEF Servers, Pairs
  <2>3a. r = SlotOf(m.id)
    BY DEF r
  <2> HIDE DEF ran, executed, pending
  <2>4. /\ w \in Servers /\ w.ran = ran /\ w.executed = executed /\ w.pending = pending
        /\ w.session = v.session /\ w.heard = v.heard /\ w.refused = v.refused
        /\ w.stored = v.stored /\ w.last = v.last /\ v.executed \subseteq executed
    BY <1>0, <2>3 DEF Servers, executed
  <2> HIDE DEF w
  <2>5. ServerFine(w, s, a)
    <3>0. ServerFine(v, s, a)
      BY DEF Both
    <3>1. \A p \in w.ran : SlotOf(p[1]) = p[2] /\ p[2] \in a
                           /\ Current(p[1], p[2], s, w.refused) /\ s.started
      BY <2>2, <2>3a, <2>4, <3>0 DEF ServerFine, ran
    <3>2. w.executed \subseteq a /\ \A id \in w.pending : SlotOf(id) \in w.executed
      BY <2>2, <2>3a, <2>4, <3>0 DEF ServerFine, executed, pending
    <3>3. \A p, q \in w.ran : p[2] = q[2] => p = q \/ p[2] \in w.refused
      <4> SUFFICES ASSUME NEW p \in w.ran, NEW q \in w.ran, p[2] = q[2], p[2] \notin w.refused
                   PROVE  p = q
        OBVIOUS
      <4>1. p[1] = q[1]
        BY <3>1 DEF Current
      <4>2. p \in Nat \X Requests /\ q \in Nat \X Requests
        BY <2>3, <2>4 DEF Pairs
      <4> QED BY <4>1, <4>2
    <3>4. \A k \in w.stored : Told(k, w.refused, w.executed) /\ k.id <= w.last
      BY <2>4, <3>0, ToldGrows DEF ServerFine, executed
    <3> QED BY <2>4, <3>0, <3>1, <3>2, <3>3, <3>4 DEF ServerFine
  <2>6. Both(s, w, e.d, a)
    <3>1. v.executed \subseteq w.executed
      BY <2>4 DEF executed
    <3>2. \A k \in Range(e.d) : Stored(k) => w.heard
      BY <2>4
    <3> QED BY <1>0, <2>4, <2>5, <3>1, <3>2, ServerChanges
  <2> QED BY <2>1, <2>4, <2>6, TakesTo
<1>3. CASE m.kind = "ping"
  <2>1. Take(e, m) = Said(e, "pong", m.id, {})
    BY <1>3 DEF Take
  <2> QED BY <1>0, <2>1, SaidTakes
<1>4. CASE m.kind = "ack"
  <2> DEFINE stored == {k \in e.v.stored : k.id \notin m.ids}
             w == [e.v EXCEPT !.stored = stored]
  <2>1. Take(e, m) = [v |-> w, d |-> e.d]
    BY <1>4 DEF Take, Ends, Servers
  <2>2. stored \subseteq e.v.stored
    OBVIOUS
  <2> HIDE DEF stored
  <2>3. /\ w \in Servers /\ w.ran = v.ran /\ w.executed = v.executed /\ w.pending = v.pending
        /\ w.session = v.session /\ w.heard = v.heard /\ w.refused = v.refused
        /\ w.stored = stored /\ w.last = v.last
    BY <1>0, <2>2 DEF Servers
  <2> HIDE DEF w
  <2>4. ServerFine(w, s, a)
    BY <2>2, <2>3 DEF Both, ServerFine
  <2>5. Both(s, w, e.d, a)
    BY <1>0, <2>2, <2>3, <2>4, ServerChanges
  <2> QED BY <2>1, <2>3, <2>5, TakesTo
<1>5. CASE m.kind = "resend"
  <2> DEFINE sent == e.v.sent \ m.ids
             w == [e.v EXCEPT !.sent = sent]
  <2>1. Take(e, m) = [v |-> w, d |-> e.d]
    BY <1>5 DEF Take, Ends, Servers
  <2>2. sent \in SUBSET Nat
    BY <1>0 DEF Servers
  <2> HIDE DEF sent
  <2>3. /\ w \in Servers /\ w.ran = v.ran /\ w.executed = v.executed /\ w.pending = v.pending
        /\ w.session = v.session /\ w.heard = v.heard /\ w.refused = v.refused
        /\ w.stored = v.stored /\ w.last = v.last
    BY <1>0, <2>2 DEF Servers
  <2> HIDE DEF w
  <2>4. ServerFine(w, s, a)
    BY <2>3 DEF Both, ServerFine
  <2>5. Both(s, w, e.d, a)
    BY <1>0, <2>3, <2>4, ServerChanges
  <2> QED BY <2>1, <2>3, <2>5, TakesTo
<1>6. CASE m.kind = "state"
  <2>1. Take(e, m) = Said(e, "states", m.id, m.ids \cap Ids(e.v.ran))
    BY <1>6 DEF Take
  <2>2. m.ids \cap Ids(e.v.ran) \in SUBSET Nat
    BY <1>0
  <2> QED BY <1>0, <2>1, <2>2, SaidTakes
<1> QED BY <1>1, <1>2, <1>3, <1>4, <1>5, <1>6 DEF Message

\* The messages of a packet are taken one after the other.
TakesTurns(g, e, S) ==
    /\ g[0] = [t |-> e, left |-> S]
    /\ g[Cardinality(S)].t = TakeAll(e, S)
    /\ \A i \in 1..Cardinality(S) :
          g[i] = [t |-> Take(g[i - 1].t, First(g[i - 1].left)),
                  left |-> g[i - 1].left \ {First(g[i - 1].left)}]

\* TakeAll() is computed message by message.
LEMMA TakesRun ==
    ASSUME NEW e, NEW S, Cardinality(S) \in Nat
    PROVE  \E g : TakesTurns(g, e, S)
<1> DEFINE begin == [t |-> e, left |-> S]
           n == Cardinality(S)
           Step(b) == [t |-> Take(b.t, First(b.left)), left |-> b.left \ {First(b.left)}]
           Runs(g, k) == g = [i \in 0..k |-> IF i = 0 THEN begin ELSE Step(g[i - 1])]
           T == {k \in 0..n : \E g : Runs(g, k)}
<1>0. TakeAll(e, S) = (CHOOSE g : Runs(g, n))[n].t
  BY DEF TakeAll
<1> HIDE DEF begin, Step
<1>1. 0 \in T
  <2>1. Runs([i \in 0..0 |-> begin], 0)
    OBVIOUS
  <2> HIDE DEF Runs
  <2> QED BY <2>1
<1>2. ASSUME NEW k \in 0..n, k \in T, k < n PROVE k + 1 \in T
  <2>1. PICK g : Runs(g, k)
    BY <1>2
  <2> DEFINE h == [i \in 0..(k + 1) |-> IF i <= k THEN g[i] ELSE Step(g[k])]
  <2>2. \A i \in 0..k : h[i] = g[i]
    OBVIOUS
  <2>3. \A i \in 0..(k + 1) : h[i] = IF i = 0 THEN begin ELSE Step(h[i - 1])
    <3> TAKE i \in 0..(k + 1)
    <3>1. CASE i <= k
      <4>1. g[i] = IF i = 0 THEN begin ELSE Step(g[i - 1])
        BY <2>1, <3>1
      <4> HIDE DEF h
      <4> QED BY <2>2, <3>1, <4>1
    <3>2. CASE i = k + 1
      <4>1. h[i] = Step(g[k]) /\ i # 0 /\ i - 1 = k /\ k \in 0..k
        BY <3>2
      <4> HIDE DEF h
      <4> QED BY <2>2, <3>2, <4>1
    <3> QED BY <3>1, <3>2
  <2>4. Runs(h, k + 1)
    <3>1. h = [i \in 0..(k + 1) |-> h[i]]
      OBVIOUS
    <3> HIDE DEF h
    <3> QED BY <2>3, <3>1
  <2> HIDE DEF Runs, h
  <2> QED BY <1>2, <2>4
<1>3. n \in T
  <2> HIDE DEF T
  <2>1. \A k \in 0..n : k \in T /\ k < n => k + 1 \in T
    BY <1>2
  <2>2. \A k \in 0..n : k \in T
    BY <1>1, <2>1, Upwards
  <2> QED BY <2>2
<1> DEFINE g == CHOOSE g : Runs(g, n)
<1>4. Runs(g, n)
  BY <1>3 DEF T
<1>5. TakeAll(e, S) = g[n].t
  BY <1>0
<1> HIDE DEF g
<1>6. g[0] = begin /\ \A i \in 1..n : g[i] = Step(g[i - 1])
  BY <1>4
<1> QED BY <1>5, <1>6 DEF begin, Step, TakesTurns

\* The server takes all messages of a packet, h are its ends from one message to the next.
TakesEach(h, s, e, a, S) ==
    /\ h[0] = e /\ h[Cardinality(S)] = TakeAll(e, S)
    /\ \A i \in 0..Cardinality(S) : TakesOn(s, e, h[i], a)
    /\ \A i \in 1..Cardinality(S) : \E m \in S : h[i] = Take(h[i - 1], m)

\* The messages that are taken are those of the packet.
LEMMA TakeAllTakesEach ==
    ASSUME NEW s, NEW e \in Ends, NEW a \in SUBSET Requests, Both(s, e.v, e.d, a),
           e.v.heard, e.v.session = s.number,
           NEW p \in Packet, PacketFine(p, s, a, e.v.refused)
    PROVE  Cardinality(p.messages) \in Nat /\ \E h : TakesEach(h, s, e, a, p.messages)
<1> DEFINE n == Cardinality(p.messages)
<1>0. n \in Nat /\ IsFiniteSet(p.messages) /\ p.messages \in SUBSET Message
  BY FS_CardinalityType DEF PacketFine, Packet
<1>1. PICK g : /\ g[0] = [t |-> e, left |-> p.messages]
               /\ g[n].t = TakeAll(e, p.messages)
               /\ \A i \in 1..n : g[i] = [t |-> Take(g[i - 1].t, First(g[i - 1].left)),
                                          left |-> g[i - 1].left \ {First(g[i - 1].left)}]
  <2>1. \E g : TakesTurns(g, e, p.messages)
    BY <1>0, TakesRun
  <2> QED BY <2>1 DEF TakesTurns
<1> DEFINE T == {i \in 0..n : /\ TakesOn(s, e, g[i].t, a)
                              /\ g[i].left \subseteq p.messages /\ IsFiniteSet(g[i].left)
                              /\ Cardinality(g[i].left) = n - i
                              /\ i > 0 => \E m \in p.messages : g[i].t = Take(g[i - 1].t, m)}
<1>2. 0 \in T
  <2>1. TakesOn(s, e, e, a)
    BY DEF TakesOn
  <2> QED BY <1>0, <1>1, <2>1
<1>3. ASSUME NEW i \in 0..n, i \in T, i < n PROVE i + 1 \in T
  <2>1. i + 1 \in 1..n /\ (i + 1) - 1 = i
    BY <1>0, <1>3
  <2>2. PICK b : b = g[i]
    OBVIOUS
  <2>3. g[i + 1] = [t |-> Take(b.t, First(b.left)), left |-> b.left \ {First(b.left)}]
    BY <1>1, <2>1, <2>2
  <2>4. /\ TakesOn(s, e, b.t, a)
        /\ b.left \subseteq p.messages /\ IsFiniteSet(b.left)
        /\ Cardinality(b.left) = n - i
    BY <1>3, <2>2
  <2>5. b.left # {}
    BY <1>0, <1>3, <2>4, FS_EmptySet
  <2>6. \A m \in b.left : m.id \in Nat
    BY <1>0, <2>4 DEF Message
  <2>7. PICK m : m = First(b.left)
    OBVIOUS
  <2>8. m \in b.left /\ m \in Message
    BY <1>0, <2>4, <2>5, <2>6, <2>7, FirstIs
  <2>9. TakesOn(s, b.t, Take(b.t, m), a)
    <3>1. b.t \in Ends /\ Both(s, b.t.v, b.t.d, a) /\ b.t.v.heard /\ b.t.v.session = s.number
          /\ b.t.v.refused = e.v.refused
      BY <2>4 DEF TakesOn
    <3>2. m.kind = "request" =>
              /\ m.ids = {SlotOf(m.id)} /\ SlotOf(m.id) \in a
              /\ Current(m.id, SlotOf(m.id), s, b.t.v.refused) /\ s.started
      BY <2>4, <2>8, <3>1 DEF PacketFine
    <3> QED BY <2>8, <3>1, <3>2, TakeFine
  <2>10. TakesOn(s, e, Take(b.t, m), a)
    BY <2>4, <2>9 DEF TakesOn
  <2>11. IsFiniteSet(b.left \ {m}) /\ Cardinality(b.left \ {m}) = n - (i + 1)
    <3>0. m \in b.left /\ IsFiniteSet(b.left)
      BY <2>4, <2>8
    <3>1. IsFiniteSet(b.left \ {m}) /\ Cardinality(b.left \ {m}) = Cardinality(b.left) - 1
      <4>1. Cardinality(b.left \ {m})
              = IF m \in b.left THEN Cardinality(b.left) - 1 ELSE Cardinality(b.left)
        BY <3>0, FS_RemoveElement, Zenon
      <4>2. IsFiniteSet(b.left \ {m})
        BY <3>0, FS_RemoveElement, Zenon
      <4> QED BY <3>0, <4>1, <4>2
    <3> HIDE DEF n
    <3> QED BY <1>0, <2>4, <3>1
  <2>12. g[i + 1].t = Take(b.t, m) /\ g[i + 1].left = b.left \ {m}
    BY <2>3, <2>7
  <2>13. i + 1 \in 0..n
    BY <1>0, <2>1
  <2>14. b.left \ {m} \subseteq p.messages
    BY <2>4
  <2>15. \E k \in p.messages : g[i + 1].t = Take(g[(i + 1) - 1].t, k)
    BY <2>1, <2>2, <2>4, <2>8, <2>12
  <2> HIDE DEF n
  <2> QED BY <2>10, <2>11, <2>12, <2>13, <2>14, <2>15
<1> HIDE DEF T
<1>4. \A i \in 0..n : i \in T
  BY <1>0, <1>2, <1>3, Upwards
<1>5. PICK h : h = [i \in 0..n |-> g[i].t]
  OBVIOUS
<1>6. \A i \in 0..n : h[i] = g[i].t /\ TakesOn(s, e, h[i], a)
  BY <1>4, <1>5 DEF T
<1>7. \A i \in 1..n : \E m \in p.messages : h[i] = Take(h[i - 1], m)
  <2> TAKE i \in 1..n
  <2>1. i \in 0..n /\ i > 0 /\ i - 1 \in 0..n
    BY <1>0
  <2> HIDE DEF n
  <2> QED BY <1>4, <1>6, <2>1 DEF T
<1>8. h[0] = e /\ h[n] = TakeAll(e, p.messages)
  <2>1. 0 \in 0..n /\ n \in 0..n
    BY <1>0
  <2>2. h[0] = g[0].t /\ h[n] = g[n].t
    BY <1>6, <2>1
  <2> QED BY <1>1, <2>2
<1>9. TakesEach(h, s, e, a, p.messages)
  BY <1>6, <1>7, <1>8 DEF TakesEach
<1> QED BY <1>0, <1>9

\* The server takes a packet.
LEMMA TakeAllFine ==
    ASSUME NEW s, NEW e \in Ends, NEW a \in SUBSET Requests, Both(s, e.v, e.d, a),
           e.v.heard, e.v.session = s.number,
           NEW p \in Packet, PacketFine(p, s, a, e.v.refused)
    PROVE  TakesOn(s, e, TakeAll(e, p.messages), a)
<1>1. PICK h : TakesEach(h, s, e, a, p.messages)
  BY TakeAllTakesEach
<1>2. Cardinality(p.messages) \in 0..Cardinality(p.messages)
  BY TakeAllTakesEach
<1> QED BY <1>1, <1>2 DEF TakesEach

-----------------------------------------------------------------------------
(* Sending                                                                 *)

\* The requests of q get ids; an id changes only if there was none, or by force.
Prepares(s, t, q, force) ==
    /\ \A r \in Requests : t.msgId[r] # s.msgId[r] => s.msgId[r] = 0 \/ force
    /\ \A r \in Requests : s.msgId[r] # 0 => t.msgId[r] # 0
    /\ \A r \in q : t.msgId[r] # 0
    /\ t.number = s.number /\ t.started = s.started /\ t.received = s.received
    /\ t.haveReceived = s.haveReceived /\ t.handled = s.handled

\* Requests that are prepared one after the other are prepared.
LEMMA PreparesOn ==
    ASSUME NEW s, NEW t, NEW u, NEW q \in SUBSET Requests, NEW o \in SUBSET Requests, NEW force,
           Prepares(s, t, q, force), Prepares(t, u, o, force)
    PROVE  Prepares(s, u, q \cup o, force)
BY DEF Prepares

\* prepareToSend(), and the request goes to haveSent.
LEMMA PreparedSound ==
    ASSUME NEW s, NEW a \in SUBSET Requests, NEW f, NEW x, Sound(s, a, f, x),
           NEW r \in a, NEW n \in Nat, NEW force
    PROVE  /\ Sound(Prepared(s, r, n, force), a, f, x)
           /\ Prepares(s, Prepared(s, r, n, force), {r}, force)
<1> DEFINE old == s.msgId[r]
           id == IdToSend(s, r, n, force)
           found == [s EXCEPT !.resending = {p \in @ : p[1] # old}]
           moved == IF old = 0 THEN found ELSE Replaced(found, old, id)
           t == Prepared(s, r, n, force)
<1>0. s \in Sessions /\ r \in Requests /\ r # 0 /\ old \in Nat
  <2>1. s \in Sessions /\ r \in Requests
    BY DEF Sound
  <2>2. old \in Nat
    BY <2>1 DEF Sessions
  <2> QED BY <2>1, <2>2 DEF Requests
<1>1. id \in Nat /\ SlotOf(id) = r /\ id # 0 /\ (id # old => old = 0 \/ force)
  <2>1. r \in 0..(NumRequests + 4)
    BY <1>0, SessionAssumption DEF Requests
  <2>2. MsgId(n, r) \in Nat /\ SlotOf(MsgId(n, r)) = r
    BY <2>1, SlotOfMsgId
  <2>3. old # 0 => SlotOf(old) = r
    BY <1>0 DEF Sound
  <2>4. (id = old /\ old # 0) \/ (id = MsgId(n, r) /\ (old = 0 \/ force))
    BY DEF IdToSend
  <2> HIDE DEF old, id
  <2> QED BY <1>0, <2>2, <2>3, <2>4, SlotOfZero
<1>2. t = [moved EXCEPT !.msgId[r] = id, !.haveSent = @ \cup {<<id, r>>}, !.toSend = @ \ {r}]
  BY DEF Prepared
<1>3. PICK again : again = {p \in s.resending : p[1] # old}
  OBVIOUS
<1>4. again \subseteq s.resending /\ again \in Pairs
  BY <1>0, <1>3 DEF Sessions, Pairs
<1>5. found = [s EXCEPT !.resending = again]
  BY <1>3
<1>6. found \in Sessions
  BY <1>0, <1>4, <1>5, ZenonT(60) DEF Sessions
<1>old. old = s.msgId[r]
  OBVIOUS
<1> HIDE DEF old, id, t
\* The pairs of moved.
<1>7. /\ moved \in Sessions
      /\ moved.msgId = s.msgId /\ moved.number = s.number /\ moved.started = s.started
      /\ moved.received = s.received /\ moved.haveReceived = s.haveReceived
      /\ moved.handled = s.handled /\ moved.delayed = s.delayed /\ moved.toSend = s.toSend
      /\ \A p \in AllPairs(moved) : \/ p \in AllPairs(s) /\ (p[1] = old => old = id \/ old = 0)
                                    \/ p[1] = id /\ old # 0 /\ \E o \in AllPairs(s) : o[1] = old /\ p[2] = o[2]
  <2>1. found.acked = s.acked /\ found.haveSent = s.haveSent /\ found.resending = again
        /\ found.containers = s.containers
        /\ found.msgId = s.msgId /\ found.number = s.number /\ found.started = s.started
        /\ found.received = s.received /\ found.haveReceived = s.haveReceived
        /\ found.handled = s.handled /\ found.delayed = s.delayed /\ found.toSend = s.toSend
    BY <1>0, <1>5 DEF Sessions
  <2> HIDE DEF found
  <2>2. CASE old = 0 \/ old = id
    <3>1. moved = found
      BY <2>2 DEF Replaced
    <3>2. AllPairs(found) \subseteq AllPairs(s)
      BY <1>4, <2>1 DEF AllPairs
    <3> QED BY <1>6, <2>1, <2>2, <3>1, <3>2
  <2>3. CASE old # 0 /\ old # id
    <3>1. PICK boxes : boxes = {[box EXCEPT !.ids = {IF i = old THEN id ELSE i : i \in @}]
                                : box \in s.containers}
      OBVIOUS
    <3>2. boxes \in SUBSET [id : Nat, ids : SUBSET Nat]
      <4>1. ASSUME NEW box \in s.containers
            PROVE  [box EXCEPT !.ids = {IF i = old THEN id ELSE i : i \in @}] \in [id : Nat, ids : SUBSET Nat]
        <5>1. box \in [id : Nat, ids : SUBSET Nat]
          BY <1>0 DEF Sessions
        <5>2. {IF i = old THEN id ELSE i : i \in box.ids} \in SUBSET Nat
          BY <1>1, <5>1
        <5> QED BY <5>1, <5>2
      <4> QED BY <3>1, <4>1
    <3>3. PICK acked, sent : acked = Renamed(s.acked, old, id) /\ sent = Renamed(s.haveSent, old, id)
      OBVIOUS
    <3>4. moved = [found EXCEPT !.acked = acked, !.haveSent = sent, !.containers = boxes]
      BY <2>1, <2>3, <3>1, <3>3 DEF Replaced
    <3>5. ASSUME NEW pairs, pairs \in Pairs
          PROVE  /\ Renamed(pairs, old, id) \in Pairs
                 /\ \A p \in Renamed(pairs, old, id) :
                       \/ p \in pairs /\ p[1] # old
                       \/ p[1] = id /\ \E o \in pairs : o[1] = old /\ p[2] = o[2]
      <4>1. \A p \in pairs : p \in Nat \X Requests
        BY <3>5 DEF Pairs
      <4>2. \A p \in pairs : <<id, p[2]>> \in Nat \X Requests
        BY <1>1, <4>1
      <4>3. Renamed(pairs, old, id) \in Pairs
        BY <4>1, <4>2 DEF Renamed, Pairs
      <4>4. ASSUME NEW p \in Renamed(pairs, old, id)
            PROVE  \/ p \in pairs /\ p[1] # old
                   \/ p[1] = id /\ \E o \in pairs : o[1] = old /\ p[2] = o[2]
        <5>1. PICK o \in pairs : p = IF o[1] = old THEN <<id, o[2]>> ELSE o
          BY DEF Renamed
        <5> QED BY <5>1
      <4> QED BY <4>3, <4>4
    <3>6. acked \in Pairs /\ sent \in Pairs
          /\ \A p \in acked \cup sent :
                \/ p \in s.acked \cup s.haveSent /\ p[1] # old
                \/ p[1] = id /\ \E o \in s.acked \cup s.haveSent : o[1] = old /\ p[2] = o[2]
      <4>1. s.acked \in Pairs /\ s.haveSent \in Pairs
        BY <1>0 DEF Sessions
      <4> QED BY <3>3, <3>5, <4>1
    <3> HIDE DEF moved
    <3>7. moved \in Sessions
      BY <1>6, <3>2, <3>4, <3>6 DEF Sessions
    <3>8. /\ moved.acked = acked /\ moved.haveSent = sent /\ moved.resending = again
          /\ moved.msgId = s.msgId /\ moved.number = s.number /\ moved.started = s.started
          /\ moved.received = s.received /\ moved.haveReceived = s.haveReceived
          /\ moved.handled = s.handled /\ moved.delayed = s.delayed /\ moved.toSend = s.toSend
      BY <1>6, <2>1, <3>4 DEF Sessions
    <3>9. \A p \in AllPairs(moved) :
             \/ p \in AllPairs(s) /\ p[1] # old
             \/ p[1] = id /\ \E o \in AllPairs(s) : o[1] = old /\ p[2] = o[2]
      BY <1>3, <3>6, <3>8 DEF AllPairs
    <3> QED BY <2>3, <3>7, <3>8, <3>9
  <2> QED BY <2>2, <2>3
<1> HIDE DEF found, moved
<1>8. PICK sent : sent = moved.haveSent \cup {<<id, r>>}
  OBVIOUS
<1>9. sent \in Pairs
  BY <1>0, <1>1, <1>7, <1>8 DEF Sessions, Pairs
<1>10. PICK ids : ids = [moved.msgId EXCEPT ![r] = id]
  OBVIOUS
<1>11. ids \in [Requests -> Nat] /\ ids[r] = id
       /\ \A q \in Requests \ {r} : ids[q] = s.msgId[q]
  BY <1>0, <1>1, <1>7, <1>10 DEF Sessions
<1>12. t = [moved EXCEPT !.msgId = ids, !.haveSent = sent, !.toSend = moved.toSend \ {r}]
  BY <1>2, <1>8, <1>10
<1>13. t \in Sessions
  BY <1>7, <1>9, <1>11, <1>12, ZenonT(60) DEF Sessions
<1>14. /\ t.msgId = ids /\ t.haveSent = sent /\ t.resending = moved.resending /\ t.acked = moved.acked
       /\ t.number = s.number /\ t.started = s.started
       /\ t.received = s.received /\ t.haveReceived = s.haveReceived
       /\ t.handled = s.handled /\ t.delayed = s.delayed /\ t.toSend \subseteq s.toSend
  BY <1>7, <1>12 DEF Sessions
<1>15. ASSUME NEW p \in AllPairs(t)
       PROVE  SlotOf(p[1]) = p[2] /\ p[2] \in a /\ (p[2] \in f \/ p[1] = ids[p[2]])
  <2>1. p \in AllPairs(moved) \/ p = <<id, r>>
    BY <1>8, <1>14 DEF AllPairs
  <2>2. CASE p = <<id, r>>
    BY <1>1, <1>11, <2>2
  <2>3. CASE p \in AllPairs(s) /\ (p[1] = old => old = id \/ old = 0)
    <3>1. SlotOf(p[1]) = p[2] /\ p[2] \in a /\ (p[2] \in f \/ p[1] = s.msgId[p[2]])
      BY <2>3 DEF Sound
    <3>2. CASE p[2] # r
      BY <1>11, <3>1, <3>2
    <3>3. CASE p[2] = r /\ p[1] = old
      <4>1. old # 0
        BY <1>0, <3>1, <3>3, SlotOfZero
      <4> QED BY <1>11, <2>3, <3>1, <3>3, <4>1
    <3> QED BY <1>old, <3>1, <3>2, <3>3
  <2>4. CASE p[1] = id /\ old # 0 /\ \E o \in AllPairs(s) : o[1] = old /\ p[2] = o[2]
    <3>1. SlotOf(old) = r
      BY <1>0, <1>old, <2>4 DEF Sound
    <3>2. p[2] = r
      BY <2>4, <3>1 DEF Sound
    <3> QED BY <1>1, <1>11, <2>4, <3>2
  <2> QED BY <1>7, <2>1, <2>2, <2>3, <2>4
<1>16. Sound(t, a, f, x)
  <2>1. \A q \in Requests : ids[q] # 0 => SlotOf(ids[q]) = q
    BY <1>1, <1>11 DEF Sound
  <2> QED BY <1>13, <1>14, <1>15, <2>1 DEF Sound
<1>17. Prepares(s, t, {r}, force)
  BY <1>0, <1>1, <1>old, <1>11, <1>14 DEF Prepares
<1> QED BY <1>16, <1>17 DEF t

\* The requests of a packet are prepared one after the other.
PreparesTurns(g, s, first, n) ==
    /\ g[0] = [s EXCEPT !.started = @ \/ s.state = "connected", !.wantSend = FALSE]
    /\ g[NumRequests] = PreparedAll(s, first, n)
    /\ \A r \in 1..NumRequests :
          g[r] = IF r \in first THEN Prepared(g[r - 1], r, n, ForceNewMsgId(s)) ELSE g[r - 1]

\* PreparedAll() is computed request by request.
LEMMA PreparesRun ==
    ASSUME NEW s, NEW first, NEW num
    PROVE  \E g : PreparesTurns(g, s, first, num)
<1> DEFINE begin == [s EXCEPT !.started = @ \/ s.state = "connected", !.wantSend = FALSE]
           n == NumRequests
           Step(b, r) == IF r \in first THEN Prepared(b, r, num, ForceNewMsgId(s)) ELSE b
           Runs(g, k) == g = [i \in 0..k |-> IF i = 0 THEN begin ELSE Step(g[i - 1], i)]
           T == {k \in 0..n : \E g : Runs(g, k)}
<1>0. PreparedAll(s, first, num) = (CHOOSE g : Runs(g, n))[n] /\ n \in Nat
  <2>1. \A g, r : (IF r = 0 THEN begin
                   ELSE IF r \in first THEN Prepared(g[r - 1], r, num, ForceNewMsgId(s))
                   ELSE g[r - 1]) = (IF r = 0 THEN begin ELSE Step(g[r - 1], r))
    OBVIOUS
  <2> QED BY SessionAssumption DEF PreparedAll
<1> HIDE DEF begin, Step
<1>1. 0 \in T
  <2>1. Runs([i \in 0..0 |-> begin], 0)
    OBVIOUS
  <2> HIDE DEF Runs
  <2> QED BY <1>0, <2>1
<1>2. ASSUME NEW k \in 0..n, k \in T, k < n PROVE k + 1 \in T
  <2>1. PICK g : Runs(g, k)
    BY <1>2
  <2> DEFINE h == [i \in 0..(k + 1) |-> IF i <= k THEN g[i] ELSE Step(g[k], k + 1)]
  <2>2. \A i \in 0..k : h[i] = g[i]
    OBVIOUS
  <2>3. \A i \in 0..(k + 1) : h[i] = IF i = 0 THEN begin ELSE Step(h[i - 1], i)
    <3> TAKE i \in 0..(k + 1)
    <3>1. CASE i <= k
      <4>1. g[i] = IF i = 0 THEN begin ELSE Step(g[i - 1], i)
        BY <2>1, <3>1
      <4> HIDE DEF h
      <4> QED BY <2>2, <3>1, <4>1
    <3>2. CASE i = k + 1
      <4>1. h[i] = Step(g[k], k + 1) /\ i # 0 /\ i - 1 = k /\ k \in 0..k
        BY <3>2
      <4> HIDE DEF h
      <4> QED BY <2>2, <3>2, <4>1
    <3> QED BY <1>0, <3>1, <3>2
  <2>4. Runs(h, k + 1)
    <3>1. h = [i \in 0..(k + 1) |-> h[i]]
      OBVIOUS
    <3> HIDE DEF h
    <3> QED BY <2>3, <3>1
  <2> HIDE DEF Runs, h
  <2> QED BY <1>0, <1>2, <2>4
<1>3. n \in T
  <2> HIDE DEF T
  <2>1. \A k \in 0..n : k \in T /\ k < n => k + 1 \in T
    BY <1>2
  <2>2. \A k \in 0..n : k \in T
    BY <1>0, <1>1, <2>1, Upwards
  <2> QED BY <1>0, <2>2
<1> DEFINE g == CHOOSE g : Runs(g, n)
<1>4. Runs(g, n)
  BY <1>3 DEF T
<1>5. PreparedAll(s, first, num) = g[n]
  BY <1>0
<1> HIDE DEF g
<1>6. g[0] = begin /\ \A i \in 1..n : g[i] = Step(g[i - 1], i)
  BY <1>0, <1>4
<1> QED BY <1>5, <1>6 DEF begin, Step, PreparesTurns

\* tryToSend(): all requests of a packet are prepared.
LEMMA PreparedAllSound ==
    ASSUME NEW s, NEW a \in SUBSET Requests, NEW f, NEW x, Sound(s, a, f, x),
           NEW first, first \subseteq s.toSend, NEW n \in Nat
    PROVE  LET t == PreparedAll(s, first, n)
               begun == [s EXCEPT !.started = @ \/ s.state = "connected", !.wantSend = FALSE]
           IN  Sound(t, a, f, x) /\ Prepares(begun, t, first, ForceNewMsgId(s))
<1> DEFINE begun == [s EXCEPT !.started = @ \/ s.state = "connected", !.wantSend = FALSE]
           force == ForceNewMsgId(s)
<1>0. s \in Sessions /\ first \subseteq a /\ first \subseteq Requests
  BY DEF Sound, Sessions
<1>1. Sound(begun, a, f, x)
  <2>1. PICK go : go = (s.started \/ s.state = "connected")
    OBVIOUS
  <2>2. go \in BOOLEAN
    BY <2>1
  <2>3. begun = [s EXCEPT !.started = go, !.wantSend = FALSE]
    BY <2>1
  <2> HIDE DEF begun
  <2>4. begun \in Sessions
    BY <1>0, <2>2, <2>3, ZenonT(60) DEF Sessions
  <2> QED BY <1>0, <2>3, <2>4 DEF Sound, Sessions, AllPairs
<1> HIDE DEF force
<1>2. PICK g : PreparesTurns(g, s, first, n)
  BY PreparesRun
<1>3. g[0] = begun /\ g[NumRequests] = PreparedAll(s, first, n)
  BY <1>2 DEF PreparesTurns
<1> HIDE DEF begun
<1> DEFINE T == {i \in 0..NumRequests : /\ Sound(g[i], a, f, x)
                                        /\ Prepares(begun, g[i], first \cap 1..i, force)}
<1>4. 0 \in T
  <2>1. Prepares(begun, begun, first \cap 1..0, force)
    BY DEF Prepares
  <2> QED BY <1>1, <1>3, <2>1, SessionAssumption
<1>5. ASSUME NEW i \in 0..NumRequests, i \in T, i < NumRequests PROVE i + 1 \in T
  <2>1. i + 1 \in 1..NumRequests /\ (i + 1) - 1 = i /\ i + 1 \in 0..NumRequests
    BY <1>5, SessionAssumption
  <2>2. g[i + 1] = IF i + 1 \in first THEN Prepared(g[i], i + 1, n, force) ELSE g[i]
    BY <1>2, <2>1 DEF PreparesTurns, force
  <2>3. PICK b : b = g[i]
    OBVIOUS
  <2>4. Sound(b, a, f, x) /\ Prepares(begun, b, first \cap 1..i, force)
    BY <1>5, <2>3
  <2>5. CASE i + 1 \in first
    <3>1. PICK t : t = Prepared(b, i + 1, n, force)
      OBVIOUS
    <3>2. Sound(t, a, f, x) /\ Prepares(b, t, {i + 1}, force)
      BY <1>0, <2>4, <2>5, <3>1, PreparedSound
    <3>3. Prepares(begun, t, (first \cap 1..i) \cup {i + 1}, force)
      <4>1. first \cap 1..i \in SUBSET Requests /\ {i + 1} \in SUBSET Requests
        BY <1>0, <2>5
      <4> QED BY <2>4, <3>2, <4>1, PreparesOn
    <3>4. first \cap 1..(i + 1) = (first \cap 1..i) \cup {i + 1}
      <4>1. \A k \in 1..(i + 1) : k \in 1..i \/ k = i + 1
        BY <2>1
      <4>2. i + 1 \in 1..(i + 1) /\ \A k \in 1..i : k \in 1..(i + 1)
        BY <2>1
      <4> QED BY <2>5, <4>1, <4>2
    <3> QED BY <2>1, <2>2, <2>3, <2>5, <3>1, <3>2, <3>3, <3>4
  <2>6. CASE i + 1 \notin first
    <3>1. first \cap 1..(i + 1) = first \cap 1..i
      <4>1. \A k \in 1..(i + 1) : k \in 1..i \/ k = i + 1
        BY <2>1
      <4>2. \A k \in 1..i : k \in 1..(i + 1)
        BY <2>1
      <4> QED BY <2>6, <4>1, <4>2
    <3> QED BY <2>1, <2>2, <2>3, <2>4, <2>6, <3>1
  <2> QED BY <2>5, <2>6
<1> HIDE DEF T
<1>6. NumRequests \in T
  <2>1. NumRequests \in Nat
    BY SessionAssumption
  <2>2. \A i \in 0..NumRequests : i \in T
    BY <1>4, <1>5, <2>1, Upwards
  <2> QED BY <2>1, <2>2
<1>7. first \cap 1..NumRequests = first
  BY <1>0 DEF Requests
<1> QED BY <1>3, <1>6, <1>7 DEF T, begun, force

-----------------------------------------------------------------------------
(* The steps of the client                                                 *)

\* The ids that the other end knows are kept.
IdsKept(s, t, a, f) ==
    /\ t.number = s.number /\ (s.started => t.started)
    /\ \A r \in a \ f : t.msgId[r] = s.msgId[r] \/ s.msgId[r] = 0 \/ ~s.started

\* The id of a request stays the only one when the ids are kept ...
LEMMA CurrentKept ==
    ASSUME NEW s, NEW t, NEW a \in SUBSET Requests, NEW f, IdsKept(s, t, a, f), s.started,
           NEW id, Current(id, SlotOf(id), s, f), SlotOf(id) \in a
    PROVE  Current(id, SlotOf(id), t, f)
<1>1. id # 0
  <2>1. SlotOf(0) \notin a
    BY SlotOfZero DEF Requests
  <2> QED BY <2>1
<1> QED BY <1>1 DEF IdsKept, Current

\* ... so that the packets on their way stay fine ...
LEMMA PacketKept ==
    ASSUME NEW s, NEW t, NEW a \in SUBSET Requests, NEW f, IdsKept(s, t, a, f),
           NEW p, PacketFine(p, s, a, f)
    PROVE  PacketFine(p, t, a, f)
BY CurrentKept DEF PacketFine, IdsKept

\* ... and what the server has run stays so.
LEMMA ServerKept ==
    ASSUME NEW s, NEW t, NEW a \in SUBSET Requests, NEW v, IdsKept(s, t, a, v.refused),
           ServerFine(v, s, a)
    PROVE  ServerFine(v, t, a)
<1>1. t.number = s.number /\ (s.started => t.started)
  BY DEF IdsKept
<1>2. ASSUME v.session = t.number, NEW p \in v.ran
      PROVE  Current(p[1], p[2], t, v.refused) /\ t.started
  BY <1>1, <1>2, CurrentKept DEF ServerFine
<1> QED BY <1>1, <1>2 DEF ServerFine

\* Only the client moves, and keeps the ids.
LEMMA SessionStep ==
    ASSUME Holds, UNCHANGED <<up, down, server>>,
           callback' \in [Requests -> {"none", "waiting", "called", "cancelled"}],
           events' \in 0..MaxEvents, Asked \subseteq Asked',
           Sound(session', Asked', server.refused, server.executed),
           Once(session', LiveOf(session, server, down), server.last),
           IdsKept(session, session', Asked, server.refused)
    PROVE  Holds'
<1>1. Asked \in SUBSET Requests /\ session'.number = session.number
  BY DEF Asked, IdsKept
<1>2. LiveOf(session', server, down) = LiveOf(session, server, down)
  BY <1>1 DEF LiveOf
<1>3. ServerFine(server, session', Asked')
  <2>1. ServerFine(server, session', Asked)
    BY <1>1, ServerKept DEF Holds, Both
  <2> QED BY <2>1 DEF ServerFine
<1>4. \A p \in Range(up) : PacketFine(p, session', Asked', server.refused)
  <2>1. \A p \in Range(up) : PacketFine(p, session', Asked, server.refused)
    BY <1>1, PacketKept DEF Holds
  <2> QED BY <2>1 DEF PacketFine
<1>5. DownFine(down, server) /\ server \in Servers /\ down \in Seq(ServerMessage)
      /\ up \in Seq(Packet)
  BY DEF Holds, Both
<1> QED BY <1>2, <1>3, <1>4, <1>5 DEF Holds, Both

\* Little changes in the session: what is said of it stays as it was.
Lightly(s, t) ==
    /\ t \in Sessions
    /\ AllPairs(t) \subseteq AllPairs(s)
    /\ t.toSend \subseteq s.toSend \cup Owners(AllPairs(s))
    /\ t.msgId = s.msgId /\ t.number = s.number /\ (s.started => t.started)
    /\ t.delayed \subseteq s.delayed /\ t.handled = s.handled /\ t.received = s.received
    /\ t.haveReceived = s.haveReceived

\* When little changes, a session stays sound.
LEMMA LightlySound ==
    ASSUME NEW s, NEW t, NEW a, NEW f, NEW x, NEW L, NEW last, Sound(s, a, f, x), Once(s, L, last),
           Lightly(s, t)
    PROVE  Sound(t, a, f, x) /\ Once(t, L, last) /\ IdsKept(s, t, a, f)
<1>1. Owners(AllPairs(s)) \subseteq a
  BY DEF Sound, Owners
<1> QED BY <1>1 DEF Sound, Once, TakenBy, Apart, Lightly, IdsKept

\* Only the client moves, and little changes.
LEMMA LightStep ==
    ASSUME Holds, UNCHANGED <<up, down, server>>, Lightly(session, session'),
           callback' \in [Requests -> {"none", "waiting", "called", "cancelled"}],
           events' \in 0..MaxEvents, Asked' = Asked
    PROVE  Holds'
<1>1. /\ Sound(session', Asked, server.refused, server.executed)
      /\ Once(session', LiveOf(session, server, down), server.last)
      /\ IdsKept(session, session', Asked, server.refused)
  BY LightlySound DEF Holds, Both
<1> QED BY <1>1, SessionStep

\* An incident is one less.
LEMMA IncidentIs ==
    ASSUME Holds, Incident
    PROVE  events' \in 0..MaxEvents
BY SessionAssumption DEF Holds, Incident

\* What the steps use of the invariant.
LEMMA SessionIs ==
    ASSUME Holds
    PROVE  /\ session \in Sessions /\ Asked \in SUBSET Requests
           /\ callback \in [Requests -> {"none", "waiting", "called", "cancelled"}]
           /\ events \in 0..MaxEvents
           /\ server \in Servers /\ up \in Seq(Packet) /\ down \in Seq(ServerMessage)
           /\ Sound(session, Asked, server.refused, server.executed)
           /\ Once(session, LiveOf(session, server, down), server.last)
BY DEF Holds, Both, Sound, Asked

\* tryToSend(), when there is nothing to send.
LEMMA TryInVainHolds ==
    ASSUME Holds, TryInVain
    PROVE  Holds'
<1>1. PICK go : go = (session.started \/ session.state = "connected")
  OBVIOUS
<1>2. go \in BOOLEAN
  BY <1>1
<1>3. session' = [session EXCEPT !.wantSend = FALSE, !.started = go]
  BY <1>1 DEF TryInVain
<1>4. session \in Sessions
  BY SessionIs
<1>5. session' \in Sessions
  BY <1>2, <1>3, <1>4, ZenonT(60) DEF Sessions
<1>6. Lightly(session, session')
  BY <1>1, <1>3, <1>4, <1>5, ZenonT(60) DEF Lightly, Sessions, AllPairs
<1> QED BY <1>6, LightStep, SessionIs DEF TryInVain, Asked

\* clearOldContainers().
LEMMA ClearOldContainerHolds ==
    ASSUME Holds, ClearOldContainer
    PROVE  Holds'
<1>1. PICK box \in session.containers : session' = Cleared(session, box)
  BY DEF ClearOldContainer
<1>2. PICK t : t = ResendIds(session, box.ids)
  OBVIOUS
<1>3. Quietly(session, t)
  BY <1>2, ResendIdsLess, SessionIs
<1>4. PICK left, more : left = t.containers \ {box} /\ more = (t.wantSend \/ box.ids # {})
  OBVIOUS
<1>5. t \in Sessions
  BY <1>3 DEF Quietly, Less
<1>6. left \in SUBSET [id : Nat, ids : SUBSET Nat] /\ more \in BOOLEAN
  BY <1>4, <1>5 DEF Sessions
<1>7. session' = [t EXCEPT !.containers = left, !.wantSend = more]
  BY <1>1, <1>2, <1>4 DEF Cleared
<1>8. session' \in Sessions
  BY <1>5, <1>6, <1>7, ZenonT(60) DEF Sessions
<1>9. Lightly(session, session')
  BY <1>3, <1>5, <1>7, <1>8, ZenonT(60) DEF Lightly, Quietly, Less, Sessions, AllPairs
<1>10. UNCHANGED <<callback, up, down, server>> /\ events' \in 0..MaxEvents
  BY IncidentIs, SessionIs DEF ClearOldContainer
<1> QED BY <1>9, <1>10, LightStep, SessionIs DEF Asked

\* authKeyChecked(): the connection is there.
LEMMA ConnectHolds ==
    ASSUME Holds, Connect
    PROVE  Holds'
<1> DEFINE fresh == [session EXCEPT !.pingMsgId = 0, !.pingToSend = TRUE, !.wantSend = TRUE]
           open == [fresh EXCEPT !.state = "connected"]
<1>1. session \in Sessions
  BY SessionIs
<1>2. CASE session' = [fresh EXCEPT !.state = "connecting"]
  <2>1. session' \in Sessions
    BY <1>1, <1>2, ZenonT(60) DEF Sessions
  <2>2. Lightly(session, session')
    BY <1>1, <1>2, <2>1, ZenonT(60) DEF Lightly, Sessions, AllPairs
  <2> QED BY <2>2, LightStep, SessionIs DEF Connect, Asked
<1>3. CASE session' = ResendAll(open)
  <2>1. open \in Sessions
    BY <1>1 DEF Sessions
  <2>2. Lightly(session, open)
    BY <1>1, <2>1 DEF Lightly, Sessions, AllPairs
  <2> HIDE DEF open
  <2>3. Quietly(open, session')
    BY <1>3, <2>1, ResendAllLess
  <2>4. Lightly(session, session')
    BY <2>2, <2>3 DEF Lightly, Quietly, Less, Owners
  <2> QED BY <2>4, LightStep, SessionIs DEF Connect, Asked
<1> QED BY <1>2, <1>3 DEF Connect

\* needToResumeAndSend().
LEMMA ResumeHolds ==
    ASSUME Holds, Resume
    PROVE  Holds'
<1>1. session \in Sessions /\ session' = [session EXCEPT !.state = "disconnected"]
  BY SessionIs DEF Resume, Disconnected
<1>2. session' \in Sessions
  BY <1>1, ZenonT(60) DEF Sessions
<1>3. Lightly(session, session')
  BY <1>1, <1>2 DEF Lightly, Sessions, AllPairs
<1> QED BY <1>3, LightStep, SessionIs DEF Resume, Asked

\* checkSentRequests().
LEMMA CheckSentRequestsHolds ==
    ASSUME Holds, CheckSentRequests
    PROVE  Holds'
<1>1. PICK old \in SUBSET Ids(session.haveSent) \ {{}} :
         session' = [session EXCEPT !.stateReq = @ \cup old,
                        !.wantSend = @ \/ ~(old \subseteq session.stateReq),
                        !.checkTimer = old # Ids(session.haveSent)]
  BY DEF CheckSentRequests
<1>2. session \in Sessions
  BY SessionIs
<1>3. old \in SUBSET Nat
  BY <1>2 DEF Ids, Sessions, Pairs
<1>4. PICK more, asked, timer :
         /\ more = (session.wantSend \/ ~(old \subseteq session.stateReq))
         /\ asked = session.stateReq \cup old
         /\ timer = (old # Ids(session.haveSent))
  OBVIOUS
<1>5. more \in BOOLEAN /\ timer \in BOOLEAN /\ asked \in SUBSET Nat
  <2>1. asked \in SUBSET Nat
    BY <1>2, <1>3, <1>4 DEF Sessions
  <2> QED BY <1>4, <2>1
<1>6. session' = [session EXCEPT !.stateReq = asked, !.wantSend = more, !.checkTimer = timer]
  BY <1>1, <1>4
<1>7. session' \in Sessions
  BY <1>2, <1>5, <1>6, ZenonT(60) DEF Sessions
<1>8. Lightly(session, session')
  BY <1>2, <1>6, <1>7, ZenonT(60) DEF Lightly, Sessions, AllPairs
<1>9. events' \in 0..MaxEvents
  BY IncidentIs, SessionIs DEF CheckSentRequests
<1> QED BY <1>8, <1>9, LightStep, SessionIs, SMTT(30) DEF CheckSentRequests, Asked

\* cancel(), in the Instance and in the Session.
LEMMA CancelHolds ==
    ASSUME Holds, NEW r \in Requests, Cancel(r)
    PROVE  Holds'
<1>1. session \in Sessions /\ callback \in [Requests -> {"none", "waiting", "called", "cancelled"}]
  BY SessionIs
<1>2. PICK sent : sent = {p \in session.haveSent : p[1] # session.msgId[r]}
  OBVIOUS
<1>3. sent \in Pairs
  BY <1>1, <1>2 DEF Sessions, Pairs
<1>4. session' = [session EXCEPT !.toSend = session.toSend \ {r}, !.delayed = session.delayed \ {r},
                                 !.haveSent = sent]
  BY <1>2 DEF Cancel
<1>5. session' \in Sessions
  BY <1>1, <1>3, <1>4, ZenonT(60) DEF Sessions
<1>6. Lightly(session, session')
  BY <1>1, <1>2, <1>4, <1>5, ZenonT(60) DEF Lightly, Sessions, AllPairs
<1>7. callback' \in [Requests -> {"none", "waiting", "called", "cancelled"}] /\ Asked' = Asked
  BY <1>1 DEF Cancel, HasCallback, Asked
<1> QED BY <1>6, <1>7, LightStep, IncidentIs DEF Cancel

\* sendPrepared() of a request that was refused, or was not sent before.
LEMMA SendPreparedSound ==
    ASSUME NEW s, NEW a \in SUBSET Requests, NEW f, NEW x, NEW L, NEW last,
           Sound(s, a, f, x), Once(s, L, last), NEW r \in Requests, r \in f \/ r \notin a
    PROVE  LET t == SendPrepared(s, r)
           IN  Sound(t, a \cup {r}, f, x) /\ Once(t, L, last) /\ IdsKept(s, t, a, f)
<1>0. s \in Sessions
  BY DEF Sound
<1>1. PICK ids, t : ids = [s.msgId EXCEPT ![r] = 0] /\ t = SendPrepared(s, r)
  OBVIOUS
<1>2. ids \in [Requests -> Nat] /\ ids[r] = 0 /\ \A q \in Requests \ {r} : ids[q] = s.msgId[q]
  BY <1>0, <1>1 DEF Sessions
<1>3. t = [s EXCEPT !.toSend = s.toSend \cup {r}, !.msgId = ids, !.wantSend = TRUE]
  BY <1>1 DEF SendPrepared
<1>4. t \in Sessions
  BY <1>0, <1>2, <1>3, ZenonT(60) DEF Sessions
<1>5. /\ t.toSend = s.toSend \cup {r} /\ t.msgId = ids /\ AllPairs(t) = AllPairs(s)
      /\ t.number = s.number /\ t.started = s.started /\ t.received = s.received
      /\ t.haveReceived = s.haveReceived /\ t.handled = s.handled /\ t.delayed = s.delayed
  BY <1>0, <1>3 DEF Sessions, AllPairs
<1>6. \A p \in AllPairs(t) :
         SlotOf(p[1]) = p[2] /\ p[2] \in a /\ (p[2] \in f \/ p[1] = ids[p[2]])
  BY <1>2, <1>5 DEF Sound
<1>7. Sound(t, a \cup {r}, f, x)
  BY <1>2, <1>4, <1>5, <1>6 DEF Sound
<1>8. Once(t, L, last)
  BY <1>5 DEF Once, TakenBy, Apart
<1>9. IdsKept(s, t, a, f)
  BY <1>2, <1>5 DEF IdsKept
<1> QED BY <1>1, <1>7, <1>8, <1>9

\* sendRequest().
LEMMA SendRequestHolds ==
    ASSUME Holds, NEW r \in Requests, SendRequest(r)
    PROVE  Holds'
<1>1. callback[r] = "none" /\ session' = SendPrepared(session, r)
      /\ callback' = [callback EXCEPT ![r] = "waiting"] /\ UNCHANGED <<up, down, server>>
  BY DEF SendRequest
<1>2. Asked' = Asked \cup {r} /\ r \notin Asked
      /\ callback' \in [Requests -> {"none", "waiting", "called", "cancelled"}]
  BY <1>1, SessionIs DEF Asked
<1>3. events' \in 0..MaxEvents
  BY SessionIs, IncidentIs DEF SendRequest
<1>4. /\ Sound(session', Asked', server.refused, server.executed)
      /\ Once(session', LiveOf(session, server, down), server.last)
      /\ IdsKept(session, session', Asked, server.refused)
  BY <1>1, <1>2, SessionIs, SendPreparedSound
<1> QED BY <1>1, <1>2, <1>3, <1>4, SessionStep

\* checkDelayedRequests().
LEMMA RetryHolds ==
    ASSUME Holds, Retry
    PROVE  Holds'
<1>1. PICK r \in session.delayed :
         session' = SendPrepared([session EXCEPT !.delayed = @ \ {r}], r)
  BY DEF Retry
<1>2. PICK t : t = [session EXCEPT !.delayed = session.delayed \ {r}]
  OBVIOUS
<1>3. session \in Sessions /\ r \in Requests /\ r \in server.refused /\ r \in Asked
  BY SessionIs DEF Sound, Sessions
<1>4. t \in Sessions
  BY <1>2, <1>3, ZenonT(60) DEF Sessions
<1>5. Lightly(session, t)
  BY <1>2, <1>3, <1>4 DEF Lightly, Sessions, AllPairs
<1>6. /\ Sound(t, Asked, server.refused, server.executed)
      /\ Once(t, LiveOf(session, server, down), server.last)
  BY <1>5, SessionIs, LightlySound
<1>7. session' = SendPrepared(t, r) /\ Asked \cup {r} = Asked
  BY <1>1, <1>2, <1>3
<1>8. /\ Sound(session', Asked, server.refused, server.executed)
      /\ Once(session', LiveOf(session, server, down), server.last)
      /\ IdsKept(t, session', Asked, server.refused)
  BY <1>3, <1>6, <1>7, SessionIs, SendPreparedSound
<1>9. IdsKept(session, session', Asked, server.refused)
  BY <1>2, <1>3, <1>8 DEF IdsKept, Sessions
<1>10. Asked' = Asked /\ UNCHANGED <<callback, up, down, server, events>>
  BY SMTT(30) DEF Retry, Asked
<1> QED BY <1>8, <1>9, <1>10, SessionIs, SessionStep

\* tryToReceive(): what becomes of the session and of the handler.
LEMMA DeliverIs ==
    ASSUME Holds, Deliver
    PROVE  LET q == session.haveReceived
               m == Head(session.haveReceived)
           IN  \E handled, delayed :
                  /\ session' = [session EXCEPT !.haveReceived = Tail(q), !.handled = handled,
                                                !.delayed = delayed]
                  /\ handled = IF m.kind = "update" THEN session.handled \cup {m.about}
                               ELSE session.handled
                  /\ delayed = IF m.kind = "error" /\ HasCallback(m.about)
                               THEN session.delayed \cup {m.about} ELSE session.delayed
                  /\ callback' = IF m.kind = "answer" /\ HasCallback(m.about)
                                 THEN [callback EXCEPT ![m.about] = "called"] ELSE callback
<1> DEFINE q == session.haveReceived
           m == Head(session.haveReceived)
           rest == [session EXCEPT !.haveReceived = Tail(@)]
<1>1. session \in Sessions
  BY SessionIs
<1>2. rest = [session EXCEPT !.haveReceived = Tail(q), !.handled = session.handled,
                             !.delayed = session.delayed]
  BY <1>1 DEF Sessions
<1> HIDE DEF q
<1>3. CASE m.kind = "update"
  <2>1. session' = [rest EXCEPT !.handled = @ \cup {m.about}] /\ callback' = callback
    BY <1>3 DEF Deliver
  <2>2. session' = [session EXCEPT !.haveReceived = Tail(q), !.handled = session.handled \cup {m.about},
                             !.delayed = session.delayed]
    BY <1>1, <1>2, <2>1 DEF Sessions
  <2> QED BY <1>3, <2>1, <2>2 DEF q
<1>4. CASE m.kind = "error" /\ HasCallback(m.about)
  <2>1. session' = [rest EXCEPT !.delayed = @ \cup {m.about}] /\ callback' = callback
    BY <1>4 DEF Deliver
  <2>2. session' = [session EXCEPT !.haveReceived = Tail(q), !.handled = session.handled,
                             !.delayed = session.delayed \cup {m.about}]
    BY <1>1, <1>2, <2>1 DEF Sessions
  <2> QED BY <1>4, <2>1, <2>2 DEF q
<1>5. CASE m.kind # "update" /\ ~(m.kind = "error" /\ HasCallback(m.about))
  <2>1. /\ session' = rest
        /\ callback' = IF m.kind = "answer" /\ HasCallback(m.about)
                       THEN [callback EXCEPT ![m.about] = "called"] ELSE callback
    BY <1>5 DEF Deliver
  <2> QED BY <1>2, <1>5, <2>1 DEF q
<1> QED BY <1>3, <1>4, <1>5

\* tryToReceive(): a response reaches the Instance.
LEMMA DeliverHolds ==
    ASSUME Holds, Deliver
    PROVE  Holds'
<1> DEFINE q == session.haveReceived
           m == Head(session.haveReceived)
<1>0. session \in Sessions /\ q \in Seq(Response) /\ q # <<>>
  BY SessionIs DEF Deliver, Sessions
<1>1. /\ m \in Response /\ m \in Range(q) /\ m = q[1]
      /\ Tail(q) \in Seq(Response) /\ Range(Tail(q)) \subseteq Range(q)
      /\ DOMAIN q = 1..Len(q) /\ DOMAIN Tail(q) = 1..(Len(q) - 1) /\ Len(q) \in Nat \ {0}
      /\ \A i \in DOMAIN Tail(q) : Tail(q)[i] = q[i + 1]
  BY <1>0, RangeOfTail
<1>2. UNCHANGED <<up, down, server, events>>
  BY DEF Deliver
<1>3. /\ m.kind = "answer" => m.about \in server.executed
      /\ m.kind = "error" /\ m.about \in Requests => m.about \in server.refused
  BY <1>1, SessionIs, SMTT(30) DEF Sound
<1>4. PICK handled, delayed :
         /\ session' = [session EXCEPT !.haveReceived = Tail(q), !.handled = handled,
                                       !.delayed = delayed]
         /\ handled = IF m.kind = "update" THEN session.handled \cup {m.about} ELSE session.handled
         /\ \/ delayed = session.delayed
            \/ m.kind = "error" /\ HasCallback(m.about) /\ delayed = session.delayed \cup {m.about}
  BY DeliverIs
<1>5. callback' \in [Requests -> {"none", "waiting", "called", "cancelled"}] /\ Asked' = Asked
  <2>1. \/ UNCHANGED callback
        \/ HasCallback(m.about) /\ callback' = [callback EXCEPT ![m.about] = "called"]
    BY DEF Deliver
  <2> QED BY <2>1, SessionIs DEF HasCallback, Asked
<1> HIDE DEF q, m
<1>6. handled \in SUBSET Nat /\ delayed \in SUBSET Requests
      /\ delayed \subseteq Asked /\ delayed \subseteq server.refused
  <2>1. m.kind = "update" => m.about \in Nat
    BY <1>1 DEF Response
  <2>2. session.handled \in SUBSET Nat /\ session.delayed \in SUBSET Requests
        /\ session.delayed \subseteq Asked /\ session.delayed \subseteq server.refused
    BY <1>0, SessionIs DEF Sound, Sessions
  <2>3. HasCallback(m.about) => m.about \in Requests /\ m.about \in Asked
    BY DEF HasCallback, Asked
  <2> QED BY <1>3, <1>4, <2>1, <2>2, <2>3
<1>7. session' \in Sessions
  BY <1>0, <1>1, <1>4, <1>6, ZenonT(60) DEF Sessions, q
<1>8. /\ session'.haveReceived = Tail(q) /\ session'.handled = handled
      /\ session'.delayed = delayed /\ AllPairs(session') = AllPairs(session)
      /\ session'.msgId = session.msgId /\ session'.number = session.number
      /\ session'.started = session.started /\ session'.toSend = session.toSend
      /\ session'.received = session.received
  BY <1>0, <1>4 DEF Sessions, AllPairs
<1>9. Sound(session', Asked, server.refused, server.executed)
  <2>1. Sound(session, Asked, server.refused, server.executed)
    BY SessionIs
  <2> QED BY <1>1, <1>6, <1>7, <1>8, <2>1 DEF Sound, q
<1>10. TakenBy(session') \subseteq TakenBy(session)
  BY <1>1, <1>4, <1>8 DEF TakenBy, q
<1>11. Apart(session')
  <2>1. Apart(session)
    BY SessionIs DEF Once
  <2> SUFFICES ASSUME NEW i \in 1..(Len(q) - 1), Tail(q)[i].kind = "update"
               PROVE  /\ Tail(q)[i].about \notin handled
                      /\ \A j \in 1..(Len(q) - 1) : Tail(q)[j].kind = "update"
                            /\ Tail(q)[j].about = Tail(q)[i].about => j = i
    BY <1>1, <1>8 DEF Apart
  <2>2. \A j \in 1..(Len(q) - 1) : j + 1 \in 1..Len(q) /\ j + 1 # 1 /\ Tail(q)[j] = q[j + 1]
    BY <1>1
  <2>3. 1 \in 1..Len(q)
    BY <1>1
  <2>4. \A j, k \in 1..Len(q) : q[j].kind = "update" /\ q[k].kind = "update"
                                /\ q[j].about = q[k].about => j = k
    BY <1>1, <2>1 DEF Apart, q
  <2>5. \A j \in 1..Len(q) : q[j].kind = "update" => q[j].about \notin session.handled
    BY <1>1, <2>1 DEF Apart, q
  <2>6. Tail(q)[i].about \notin handled
    BY <1>1, <1>4, <2>2, <2>3, <2>4, <2>5
  <2>7. ASSUME NEW j \in 1..(Len(q) - 1), Tail(q)[j].kind = "update",
               Tail(q)[j].about = Tail(q)[i].about
        PROVE  j = i
    <3>1. j + 1 = i + 1
      BY <2>2, <2>4, <2>7
    <3> QED BY <3>1
  <2> QED BY <2>6, <2>7
<1>12. Once(session', LiveOf(session, server, down), server.last)
  <2>1. Once(session, LiveOf(session, server, down), server.last)
    BY SessionIs
  <2> QED BY <1>8, <1>10, <1>11, <2>1 DEF Once
<1>13. IdsKept(session, session', Asked, server.refused)
  BY <1>8 DEF IdsKept
<1> QED BY <1>2, <1>5, <1>9, <1>12, <1>13, SessionIs, SessionStep

-----------------------------------------------------------------------------
(* The connection is closed                                                *)

\* The connection is closed: what was on the way is lost.
LEMMA CloseStep ==
    ASSUME Holds, CloseConnection, UNCHANGED callback, events' \in 0..MaxEvents,
           Sound(session', Asked, server.refused, server.executed),
           \/ /\ IdsKept(session, session', Asked, server.refused)
              /\ Once(session', LiveOf(session, server, down), server.last)
           \/ session'.number > session.number /\ Once(session', {}, server.last)
    PROVE  Holds'
<1>1. up' = <<>> /\ down' = <<>> /\ server' = [server EXCEPT !.heard = FALSE, !.sent = {}]
      /\ server \in Servers /\ ServerFine(server, session, Asked)
      /\ session \in Sessions /\ session' \in Sessions
  BY SessionIs DEF CloseConnection, Holds, Both, Sound
<1>2. server' \in Servers
  BY <1>1 DEF Servers
<1>3. /\ server'.ran = server.ran /\ server'.executed = server.executed
      /\ server'.refused = server.refused /\ server'.pending = server.pending
      /\ server'.stored = server.stored /\ server'.last = server.last
      /\ server'.session = server.session /\ server'.heard = FALSE
  BY <1>1 DEF Servers
<1>4. Range(<<>>) = {} /\ <<>> \in Seq(ServerMessage) /\ <<>> \in Seq(Packet)
  BY DEF Range
<1>5. ServerFine(server', session', Asked) /\ Once(session', LiveOf(session', server', down'), server'.last)
  <2>1. CASE /\ IdsKept(session, session', Asked, server.refused)
             /\ Once(session', LiveOf(session, server, down), server.last)
    <3>1. ServerFine(server, session', Asked)
      BY <1>1, <2>1, SessionIs, ServerKept
    <3>2. ServerFine(server', session', Asked)
      BY <1>3, <3>1 DEF ServerFine
    <3>3. LiveOf(session', server', down') \subseteq LiveOf(session, server, down)
      BY <1>1, <1>3, <1>4, <2>1 DEF LiveOf, IdsKept
    <3> QED BY <1>3, <2>1, <3>2, <3>3 DEF Once
  <2>2. CASE session'.number > session.number /\ Once(session', {}, server.last)
    <3>1. server.session < session'.number /\ server.session # session'.number
      <4>1. server.session \in Nat /\ session.number \in Nat /\ session'.number \in Nat
        BY <1>1 DEF Servers, Sessions
      <4> QED BY <1>1, <2>2, <4>1 DEF ServerFine
    <3>2. server.session <= session'.number
      BY <1>1, <3>1 DEF Servers, Sessions
    <3>3. ServerFine(server', session', Asked)
      BY <1>1, <1>3, <3>1, <3>2 DEF ServerFine
    <3>4. LiveOf(session', server', down') = {}
      BY <1>1, <1>3, <1>4, <3>1 DEF LiveOf
    <3> QED BY <1>3, <2>2, <3>3, <3>4
  <2> QED BY <2>1, <2>2
<1>6. DownFine(down', server')
  BY <1>1, <1>4 DEF DownFine
<1>7. Asked' = Asked
  BY DEF Asked
<1> QED BY <1>1, <1>2, <1>3, <1>4, <1>5, <1>6, <1>7, SessionIs DEF Holds, Both

\* changeSessionId() after the connection was closed.
LEMMA NewSessionSound ==
    ASSUME NEW s, NEW a, NEW f, NEW x, NEW L, NEW last, Sound(s, a, f, x), Once(s, L, last)
    PROVE  LET u == NewSessionId(Disconnected(s))
           IN  Sound(u, a, f, x) /\ Once(u, {}, last) /\ u.number = s.number + 1
<1>0. s \in Sessions
  BY DEF Sound
<1>1. PICK u : u = NewSessionId(Disconnected(s))
  OBVIOUS
<1>2. PICK n : n = s.number + 1
  OBVIOUS
<1>3. n \in Nat \ {0}
  BY <1>0, <1>2 DEF Sessions
<1>4. u = [s EXCEPT !.state = "disconnected", !.number = n, !.started = FALSE, !.acks = {},
                    !.resendReq = {}, !.stateReq = {}, !.received = {}]
  BY <1>0, <1>1, <1>2 DEF NewSessionId, Disconnected, Sessions
<1>5. u \in Sessions
  BY <1>0, <1>3, <1>4, ZenonT(60) DEF Sessions
<1>6. /\ AllPairs(u) = AllPairs(s) /\ u.toSend = s.toSend /\ u.msgId = s.msgId /\ u.number = n
      /\ u.delayed = s.delayed /\ u.handled = s.handled /\ u.haveReceived = s.haveReceived
      /\ u.received = {}
  BY <1>0, <1>4 DEF Sessions, AllPairs
<1>7. Sound(u, a, f, x)
  BY <1>5, <1>6, FS_EmptySet DEF Sound
<1>8. Once(u, {}, last)
  BY <1>6 DEF Once, TakenBy, Apart
<1> QED BY <1>1, <1>2, <1>6, <1>7, <1>8

\* onDisconnected().
LEMMA DropHolds ==
    ASSUME Holds, Drop
    PROVE  Holds'
<1>1. session \in Sessions /\ session' = [session EXCEPT !.state = "disconnected"]
  BY SessionIs DEF Drop, Disconnected
<1>2. session' \in Sessions
  BY <1>1, ZenonT(60) DEF Sessions
<1>3. Lightly(session, session')
  BY <1>1, <1>2 DEF Lightly, Sessions, AllPairs
<1>4. /\ Sound(session', Asked, server.refused, server.executed)
      /\ Once(session', LiveOf(session, server, down), server.last)
      /\ IdsKept(session, session', Asked, server.refused)
  BY <1>3, SessionIs, LightlySound
<1> QED BY <1>4, IncidentIs, CloseStep DEF Drop

\* applyAuthKey(), with another key.
LEMMA RekeyHolds ==
    ASSUME Holds, Rekey
    PROVE  Holds'
<1>1. /\ Sound(session', Asked, server.refused, server.executed)
      /\ Once(session', {}, server.last) /\ session'.number = session.number + 1
  BY SessionIs, NewSessionSound DEF Rekey
<1>2. session'.number > session.number
  BY <1>1, SessionIs DEF Sessions
<1> QED BY <1>1, <1>2, IncidentIs, CloseStep DEF Rekey

\* stop(), and a new SessionPrivate.
LEMMA StopHolds ==
    ASSUME Holds, Stop
    PROVE  Holds'
<1>0. session \in Sessions
  BY SessionIs
<1>1. PICK n : n = session.number + 1
  OBVIOUS
<1>2. n \in Nat \ {0} /\ n > session.number
  BY <1>0, <1>1 DEF Sessions
<1>3. session' = [session EXCEPT
         !.state = "stopped", !.salt = NoSalt, !.started = FALSE,
         !.pingToSend = FALSE, !.pingMsgId = 0,
         !.acks = {}, !.resendReq = {}, !.stateReq = {}, !.stateReqsSent = {},
         !.received = {}, !.resending = {}, !.acked = {}, !.containers = {},
         !.checkTimer = FALSE, !.number = n]
  BY <1>0, <1>1, ZenonT(60) DEF Stop, NewPrivate, Sessions
<1>4. session' \in Sessions
  BY <1>0, <1>2, <1>3, ZenonT(60) DEF Sessions, Pairs, NoSalt
<1>5. /\ AllPairs(session') \subseteq AllPairs(session) /\ session'.toSend = session.toSend
      /\ session'.msgId = session.msgId /\ session'.number = n
      /\ session'.delayed = session.delayed /\ session'.handled = session.handled
      /\ session'.haveReceived = session.haveReceived /\ session'.received = {}
  BY <1>0, <1>3 DEF Sessions, AllPairs
<1>6. Sound(session, Asked, server.refused, server.executed)
      /\ Once(session, LiveOf(session, server, down), server.last)
  BY SessionIs
<1>7. Sound(session', Asked, server.refused, server.executed)
  BY <1>4, <1>5, <1>6, FS_EmptySet DEF Sound
<1>8. Once(session', {}, server.last)
  BY <1>5, <1>6 DEF Once, TakenBy, Apart
<1> QED BY <1>2, <1>5, <1>7, <1>8, IncidentIs, CloseStep DEF Stop

-----------------------------------------------------------------------------
(* A packet of the server is handled                                       *)

\* handleReceived(): the batch of messages that is handled, and the session t that has handled it.
HandlesBatch(done, batch, t) ==
    /\ done = HandledBatch(session, batch)
    /\ Len(batch) \in Nat \ {0} /\ Len(batch) <= Len(down)
    /\ \A i \in 1..Len(batch) : batch[i] = down[i] /\ batch[i] \in Range(down)
    /\ Fine(done, session, LiveOf(session, server, down), server.last, Asked,
            server.refused, server.executed)
    /\ t = [done.s EXCEPT !.received = Largest(@), !.wantSend = @ \/ done.s.acks # {}]
    /\ IF done.outcome = "reset"
       THEN /\ session' = NewSessionId(Disconnected(t))
            /\ CloseConnection
       ELSE /\ session' = [t EXCEPT !.wantSend =
                             @ \/ (session.state # "connected" /\ t.state = "connected")]
            /\ down' \in Seq(ServerMessage) /\ Range(down') \subseteq Range(down)
            /\ Len(down') = Len(down) - Len(batch)
            /\ \A j \in 1..Len(down') : down'[j] = down[Len(batch) + j]
            /\ UNCHANGED <<up, server>>

\* handleReceived() handles a batch.
LEMMA HandlesABatch ==
    ASSUME Holds, HandleReceived
    PROVE  \E done, batch, t : HandlesBatch(done, batch, t)
<1>0. down \in Seq(ServerMessage) /\ session \in Sessions /\ server \in Servers
      /\ UNCHANGED <<callback, events>>
  BY SessionIs DEF HandleReceived
<1>1. PICK count \in DOMAIN down : \E done \in {HandledBatch(session, SubSeq(down, 1, count))} :
         LET shrunk == [done.s EXCEPT !.received = Largest(@),
                           !.wantSend = @ \/ done.s.acks # {}]
         IN IF done.outcome = "reset"
            THEN /\ session' = NewSessionId(Disconnected(shrunk))
                 /\ CloseConnection
            ELSE /\ session' = [shrunk EXCEPT !.wantSend =
                                  @ \/ (session.state # "connected" /\ shrunk.state = "connected")]
                 /\ down' = SubSeq(down, count + 1, Len(down))
                 /\ UNCHANGED <<up, server>>
  BY DEF HandleReceived
<1>2. PICK done : done = HandledBatch(session, SubSeq(down, 1, count))
  OBVIOUS
<1> DEFINE shrunk == [done.s EXCEPT !.received = Largest(@), !.wantSend = @ \/ done.s.acks # {}]
           L == LiveOf(session, server, down)
<1>3. IF done.outcome = "reset"
      THEN /\ session' = NewSessionId(Disconnected(shrunk))
           /\ CloseConnection
      ELSE /\ session' = [shrunk EXCEPT !.wantSend =
                            @ \/ (session.state # "connected" /\ shrunk.state = "connected")]
           /\ down' = SubSeq(down, count + 1, Len(down))
           /\ UNCHANGED <<up, server>>
  BY <1>1, <1>2
<1>4. Len(down) \in Nat /\ DOMAIN down = 1..Len(down) /\ count \in 1..Len(down)
  BY <1>0, LenProperties
<1>5. PICK batch : batch = SubSeq(down, 1, count)
  OBVIOUS
<1>6. /\ Len(batch) = count
      /\ \A i \in 1..Len(batch) : batch[i] = down[i] /\ batch[i] \in Range(down)
  <2>1. Len(batch) = count /\ \A i \in 1..count : batch[i] = down[i]
    BY <1>0, <1>4, <1>5, SubSeqProperties
  <2>2. \A i \in 1..count : i \in 1..Len(down)
    BY <1>4
  <2> QED BY <1>4, <2>1, <2>2 DEF Range
<1>7. Fine(done, session, L, server.last, Asked, server.refused, server.executed)
  <2>1. L \in SUBSET Nat
    BY <1>0, LiveIs
  <2>2. \A m \in Range(down) :
           /\ Told(m, server.refused, server.executed) /\ m.id <= server.last
           /\ m.kind \in {"update", "session"} => m.id \in L
    BY DEF Holds, Both, DownFine, LiveOf
  <2>3. server.last \in Nat /\ Len(batch) \in Nat \ {0} /\ Asked \subseteq Requests
    BY <1>0, <1>4, <1>6, SessionIs DEF Servers
  <2>4. Sound(session, Asked, server.refused, server.executed) /\ Once(session, L, server.last)
    BY SessionIs
  <2>5. done = HandledBatch(session, batch)
    BY <1>2, <1>5
  <2>6. \A i \in 1..Len(batch) :
           /\ Told(batch[i], server.refused, server.executed) /\ batch[i].id <= server.last
           /\ batch[i].kind \in {"update", "session"} => batch[i].id \in L
    BY <1>6, <2>2
  <2> HIDE DEF L
  <2> QED BY <2>1, <2>3, <2>4, <2>5, <2>6, BatchIsFine
<1>8. ASSUME done.outcome # "reset"
      PROVE  /\ down' \in Seq(ServerMessage) /\ Range(down') \subseteq Range(down)
             /\ Len(down') = Len(down) - count
             /\ \A j \in 1..Len(down') : down'[j] = down[count + j]
             /\ UNCHANGED <<up, server>>
  <2>1. down' = SubSeq(down, count + 1, Len(down)) /\ UNCHANGED <<up, server>>
    BY <1>3, <1>8
  <2>2. PICK i, n : i = count + 1 /\ n = Len(down)
    OBVIOUS
  <2>3. i \in 1..(n + 1) /\ n \in Nat
    BY <1>4, <2>2
  <2>4. \A k \in i..n : down[k] \in ServerMessage
    BY <1>0, <1>4, <2>2, <2>3
  <2>5. PICK len : len = Len(SubSeq(down, i, n))
    OBVIOUS
  <2>6. /\ SubSeq(down, i, n) \in Seq(ServerMessage)
        /\ len = (IF i <= n THEN n - i + 1 ELSE 0)
        /\ \A j \in 1..len : SubSeq(down, i, n)[j] = down[i + j - 1]
    BY <1>0, <2>2, <2>3, <2>5, SubSeqProperties
  <2>7. len \in Nat /\ \A j \in 1..len : i + j - 1 \in 1..n
    BY <2>3, <2>6
  <2>8. DOMAIN SubSeq(down, i, n) = 1..len
    BY <2>5, <2>6, LenProperties
  <2>9. Range(SubSeq(down, i, n)) \subseteq Range(down)
    <3>1. \A j \in 1..len : SubSeq(down, i, n)[j] \in Range(down)
      BY <1>4, <2>2, <2>6, <2>7 DEF Range
    <3> QED BY <2>8, <3>1 DEF Range
  <2>10. len = n - count /\ \A j \in 1..len : i + j - 1 = count + j
    <3>1. i = count + 1 /\ count \in 1..n /\ n \in Nat
      BY <1>4, <2>2
    <3>2. len = (IF i <= n THEN n - i + 1 ELSE 0)
      BY <2>6
    <3> QED BY <3>1, <3>2
  <2> QED BY <2>1, <2>2, <2>5, <2>6, <2>9, <2>10
<1>9. PICK t : t = shrunk
  OBVIOUS
<1>10. HandlesBatch(done, batch, t)
  <2>1. /\ done = HandledBatch(session, batch)
        /\ Len(batch) \in Nat \ {0} /\ Len(batch) <= Len(down)
    BY <1>2, <1>4, <1>5, <1>6
  <2> QED BY <1>3, <1>6, <1>7, <1>8, <1>9, <2>1 DEF HandlesBatch
<1> QED BY <1>10

\* handleReceived().
LEMMA HandleReceivedHolds ==
    ASSUME Holds, HandleReceived
    PROVE  Holds'
<1>0. down \in Seq(ServerMessage) /\ session \in Sessions /\ server \in Servers
      /\ UNCHANGED <<callback, events>>
  BY SessionIs DEF HandleReceived
<1>1. PICK done, batch, shrunk : HandlesBatch(done, batch, shrunk)
  BY HandlesABatch
<1> DEFINE L == LiveOf(session, server, down)
<1>2. Fine(done, session, L, server.last, Asked, server.refused, server.executed)
  BY <1>1 DEF HandlesBatch
<1>3. PICK w, more : w = Largest(done.s.received) /\ more = (done.s.wantSend \/ done.s.acks # {})
  OBVIOUS
<1>4. shrunk = [done.s EXCEPT !.received = w, !.wantSend = more]
  BY <1>1, <1>3 DEF HandlesBatch
<1>5. done.s \in Sessions /\ IsFiniteSet(done.s.received) /\ done.s.received \in SUBSET Nat
  BY <1>2 DEF Fine, Sound, Sessions
<1>6. w \in SUBSET Nat /\ IsFiniteSet(w) /\ more \in BOOLEAN
       /\ \A id \in Nat : Registers(done.s.received, id) # "success" => Registers(w, id) # "success"
  BY <1>3, <1>5, RegisteredShrinks
<1>7. shrunk \in Sessions
  BY <1>4, <1>5, <1>6 DEF Sessions
<1>8. /\ AllPairs(shrunk) = AllPairs(done.s) /\ shrunk.toSend = done.s.toSend
       /\ shrunk.msgId = done.s.msgId /\ shrunk.number = done.s.number
       /\ shrunk.started = done.s.started
       /\ shrunk.delayed = done.s.delayed /\ shrunk.handled = done.s.handled
       /\ shrunk.haveReceived = done.s.haveReceived /\ shrunk.received = w
  BY <1>4, <1>5 DEF Sessions, AllPairs
<1>9. Sound(shrunk, Asked, server.refused, server.executed)
  BY <1>2, <1>6, <1>7, <1>8 DEF Sound, Fine
<1>10. Once(shrunk, L, server.last)
  <2>1. L \in SUBSET Nat
    BY <1>0, LiveIs
  <2>2. Once(done.s, L, server.last)
    BY <1>2 DEF Fine
  <2> HIDE DEF L
  <2> QED BY <1>6, <1>8, <2>1, <2>2 DEF Once, TakenBy, Apart
<1>11. shrunk.number = session.number /\ shrunk.msgId = session.msgId
       /\ shrunk.started = session.started
  BY <1>2, <1>8 DEF Fine, Stays
<1> HIDE DEF L
<1>12. CASE done.outcome = "reset"
  <2>1. session' = NewSessionId(Disconnected(shrunk)) /\ CloseConnection
    BY <1>1, <1>12 DEF HandlesBatch
  <2>2. /\ Sound(session', Asked, server.refused, server.executed)
        /\ Once(session', {}, server.last) /\ session'.number = shrunk.number + 1
    BY <1>9, <1>10, <2>1, NewSessionSound
  <2>3. session'.number > session.number
    BY <1>0, <1>11, <2>2 DEF Sessions
  <2> QED BY <1>0, <2>1, <2>2, <2>3, SessionIs, CloseStep
<1>13. CASE done.outcome # "reset"
  <2>1. PICK yet : yet = (shrunk.wantSend \/ (session.state # "connected" /\ shrunk.state = "connected"))
    OBVIOUS
  <2>2. yet \in BOOLEAN
    BY <2>1
  <2>3. session' = [shrunk EXCEPT !.wantSend = yet]
    BY <1>1, <1>13, <2>1 DEF HandlesBatch
  <2>4. session' \in Sessions
    BY <1>7, <2>2, <2>3 DEF Sessions
  <2>5. Lightly(shrunk, session')
    BY <1>7, <2>3, <2>4 DEF Lightly, Sessions, AllPairs
  <2>6. Sound(session', Asked, server.refused, server.executed) /\ Once(session', L, server.last)
    BY <1>9, <1>10, <2>5, LightlySound
  <2>7. IdsKept(session, session', Asked, server.refused)
    BY <1>11, <2>5 DEF IdsKept, Lightly
  <2>8. down' \in Seq(ServerMessage) /\ Range(down') \subseteq Range(down)
        /\ UNCHANGED <<up, server>>
    BY <1>1, <1>13 DEF HandlesBatch
  <2>9. Asked' = Asked /\ Asked \in SUBSET Requests
    BY <1>0, SessionIs DEF Asked
  <2>10. ServerFine(server, session', Asked)
    BY <2>7, <2>9, ServerKept DEF Holds, Both
  <2>11. \A p \in Range(up) : PacketFine(p, session', Asked, server.refused)
    BY <2>7, <2>9, PacketKept DEF Holds
  <2>12. Once(session', LiveOf(session', server, down'), server.last)
    <3>1. LiveOf(session', server, down') \subseteq L
      BY <2>7, <2>8 DEF LiveOf, L, IdsKept
    <3> QED BY <2>6, <3>1 DEF Once
  <2>13. DownFine(down', server)
    BY <2>8 DEF Holds, Both, DownFine
  <2> QED BY <1>0, <2>6, <2>8, <2>9, <2>10, <2>11, <2>12, <2>13, SessionIs DEF Holds, Both
<1> QED BY <1>12, <1>13

-----------------------------------------------------------------------------
(* A packet of the client                                                  *)

\* What is sent beside the requests is no request.
LEMMA ServiceIs ==
    ASSUME NEW s \in Sessions, NEW n \in Nat
    PROVE  /\ Service(s, n) \in SUBSET Message /\ IsFiniteSet(Service(s, n))
           /\ \A m \in Service(s, n) : m.kind # "request" /\ SlotOf(m.id) \notin Requests
<1> DEFINE message(kind, slot, ids) == [id |-> MsgId(n, slot), kind |-> kind, ids |-> ids]
           ack == message("ack", AckSlot, s.acks)
           resend == message("resend", ResendSlot, s.resendReq)
           state == message("state", StateSlot, s.stateReq)
           ping == message("ping", PingSlot, {})
<1>1. /\ AckSlot \in 0..(NumRequests + 4) /\ AckSlot \notin Requests
      /\ ResendSlot \in 0..(NumRequests + 4) /\ ResendSlot \notin Requests
      /\ StateSlot \in 0..(NumRequests + 4) /\ StateSlot \notin Requests
      /\ PingSlot \in 0..(NumRequests + 4) /\ PingSlot \notin Requests
  BY SessionAssumption DEF AckSlot, ResendSlot, StateSlot, PingSlot, Requests
<1>2. \A slot \in 0..(NumRequests + 4) : MsgId(n, slot) \in Nat /\ SlotOf(MsgId(n, slot)) = slot
  BY SlotOfMsgId
<1>3. s.acks \in SUBSET Nat /\ s.resendReq \in SUBSET Nat /\ s.stateReq \in SUBSET Nat
  BY DEF Sessions
<1>4. \A m \in {ack, resend, state, ping} :
         m \in Message /\ m.kind # "request" /\ SlotOf(m.id) \notin Requests
  BY <1>1, <1>2, <1>3 DEF Message
<1>5. Service(s, n) \subseteq {ack, resend, state, ping}
  BY DEF Service
<1>6. IsFiniteSet({ack, resend, state, ping})
  <2> HIDE DEF ack, resend, state, ping
  <2>1. IsFiniteSet({ack})
    BY FS_Singleton, Zenon
  <2>2. IsFiniteSet({ack} \cup {resend})
    BY <2>1, FS_AddElement, Zenon
  <2>3. IsFiniteSet(({ack} \cup {resend}) \cup {state})
    BY <2>2, FS_AddElement, Zenon
  <2>4. IsFiniteSet((({ack} \cup {resend}) \cup {state}) \cup {ping})
    BY <2>3, FS_AddElement, Zenon
  <2>5. (({ack} \cup {resend}) \cup {state}) \cup {ping} = {ack, resend, state, ping}
    OBVIOUS
  <2> QED BY <2>4, <2>5
<1>7. IsFiniteSet(Service(s, n))
  BY <1>5, <1>6, FS_Subset
<1> QED BY <1>4, <1>5, <1>7

\* It is sent with whatever number the packet has.
LEMMA ServiceStays ==
    ASSUME NEW s, NEW n, Service(s, 0) # {}
    PROVE  Service(s, n) # {}
<1> DEFINE message(k, kind, slot, ids) == [id |-> MsgId(k, slot), kind |-> kind, ids |-> ids]
           lists(k) == {message(k, "ack", AckSlot, s.acks),
                        message(k, "resend", ResendSlot, s.resendReq),
                        message(k, "state", StateSlot, s.stateReq)}
<1>1. \A k : Service(s, k) = {m \in lists(k) : s.state = "connected" /\ m.ids # {}}
         \cup (IF s.pingToSend THEN {message(k, "ping", PingSlot, {})} ELSE {})
  BY DEF Service
<1>2. CASE s.pingToSend
  BY <1>1, <1>2
<1>3. CASE ~s.pingToSend
  <2>1. PICK m \in lists(0) : s.state = "connected" /\ m.ids # {}
    BY <1>1, <1>3
  <2>2. \E k \in lists(n) : k.ids = m.ids
    OBVIOUS
  <2> QED BY <1>1, <2>1, <2>2
<1> QED BY <1>2, <1>3

\* tryToSend(): a packet goes on its way.
LEMMA TryToSendHolds ==
    ASSUME Holds, TryToSend
    PROVE  Holds'
<1> DEFINE n == session.packets + 1
<1>0. session \in Sessions /\ UNCHANGED <<callback, down, server, events>> /\ n \in Nat
  <2>1. session \in Sessions /\ UNCHANGED <<callback, down, server, events>>
    BY SessionIs DEF TryToSend
  <2> QED BY <2>1 DEF Sessions
<1>a. PICK first \in FirstToSend(session) :
         \E t : t = PreparedAll(session, first, n) /\ SendsPacket(first, t, n)
  BY DEF TryToSend
<1>1. PICK t : t = PreparedAll(session, first, n) /\ SendsPacket(first, t, n)
  BY <1>a
<1> DEFINE service == Service(session, n)
           requests == {[id |-> t.msgId[r], kind |-> "request", ids |-> {r}] : r \in first}
           messages == service \cup requests
           alone == Cardinality(messages) = 1 /\ first \cap session.inContainer = {}
           packetId == IF alone THEN (CHOOSE m \in messages : TRUE).id
                       ELSE MsgId(n, ContainerSlot)
           inside == {m.id : m \in {k \in messages : k.kind \in {"ping", "request"}}}
           clear(ids) == IF session.state = "connected" THEN {} ELSE ids
           p == [session |-> session.number, salt |-> session.salt,
                 id |-> packetId, messages |-> messages]
<1>2. t = PreparedAll(session, first, n) /\ up' = Append(up, p)
  BY <1>1 DEF SendsPacket
<1>3. PICK wantSend, ping, acks, resend, state, sent, containers, timer :
         /\ wantSend = (first # {} /\ t.toSend # {})
         /\ ping = (IF session.pingToSend THEN MsgId(n, PingSlot) ELSE t.pingMsgId)
         /\ acks = clear(t.acks) /\ resend = clear(t.resendReq) /\ state = clear(t.stateReq)
         /\ sent = t.stateReqsSent \cup {m \in service : m.kind = "state"}
         /\ containers = (IF alone THEN t.containers
                          ELSE t.containers \cup {[id |-> packetId, ids |-> inside]})
         /\ timer = (t.checkTimer \/ (~alone /\ first # {}))
  BY ZenonT(60)
<1>4. session' = [t EXCEPT !.packets = n, !.wantSend = wantSend, !.pingToSend = FALSE,
                           !.pingMsgId = ping, !.acks = acks, !.resendReq = resend,
                           !.stateReq = state, !.stateReqsSent = sent,
                           !.containers = containers, !.checkTimer = timer]
  BY <1>1, <1>3, ZenonT(60) DEF SendsPacket
<1>5. /\ first \subseteq session.toSend
      /\ first # {} => session.state = "connected"
      /\ session.state = "connected" /\ session.toSend # {} => first # {}
  <2>1. CASE session.state # "connected" \/ session.toSend = {}
    <3>1. first = {}
      BY <2>1 DEF FirstToSend
    <3> QED BY <2>1, <3>1
  <2>2. CASE ~(session.state # "connected" \/ session.toSend = {})
    <3>1. PICK last \in session.toSend : first = {q \in session.toSend : q <= last}
      BY <2>2 DEF FirstToSend
    <3>2. last \in first
      BY <1>0, <3>1 DEF Sessions, Requests
    <3> QED BY <2>2, <3>1, <3>2
  <2> QED BY <2>1, <2>2
<1>6. PICK begun : begun = [session EXCEPT !.started = @ \/ session.state = "connected", !.wantSend = FALSE]
  OBVIOUS
<1>7. /\ begun.msgId = session.msgId /\ begun.number = session.number
      /\ begun.started = (session.started \/ session.state = "connected")
      /\ begun.received = session.received /\ begun.haveReceived = session.haveReceived
      /\ begun.handled = session.handled
  BY <1>0, <1>6 DEF Sessions
<1>8. /\ Sound(t, Asked, server.refused, server.executed)
      /\ Prepares(begun, t, first, ForceNewMsgId(session))
  BY <1>0, <1>2, <1>5, <1>6, SessionIs, PreparedAllSound
<1>9. t \in Sessions /\ first \subseteq Asked /\ first \subseteq Requests /\ Asked \subseteq Requests
  BY <1>5, <1>8, SessionIs DEF Sound
<1>10. \A r \in first : /\ t.msgId[r] \in Nat /\ SlotOf(t.msgId[r]) = r /\ {r} \subseteq Nat
  <2>1. \A r \in first : t.msgId[r] # 0
    BY <1>8 DEF Prepares
  <2>2. t.msgId \in [Requests -> Nat]
    BY <1>9 DEF Sessions
  <2>3. \A r \in first : r \in Requests /\ r \in Nat
    BY <1>9 DEF Requests
  <2>4. \A r \in Requests : t.msgId[r] # 0 => SlotOf(t.msgId[r]) = r
    BY <1>8 DEF Sound
  <2> QED BY <2>1, <2>2, <2>3, <2>4
<1>11. service \in SUBSET Message /\ IsFiniteSet(service)
       /\ \A m \in service : m.kind # "request" /\ SlotOf(m.id) \notin Requests
  BY <1>0, ServiceIs
<1>12. requests \in SUBSET Message /\ IsFiniteSet(requests)
  <2>1. \A r \in first : [id |-> t.msgId[r], kind |-> "request", ids |-> {r}] \in Message
    BY <1>10 DEF Message
  <2>2. IsFiniteSet(first)
    <3>1. IsFiniteSet(Requests)
      BY SessionAssumption, FS_Interval DEF Requests
    <3> QED BY <1>9, <3>1, FS_Subset
  <2>3. IsFiniteSet(requests)
    <3> DEFINE f == [r \in first |-> [id |-> t.msgId[r], kind |-> "request", ids |-> {r}]]
    <3>1. f \in Surjection(first, requests)
      BY DEF Surjection
    <3> HIDE DEF f, requests
    <3> QED BY <2>2, <3>1, FS_Surjection
  <2> QED BY <2>1, <2>3
<1>13. messages \in SUBSET Message /\ IsFiniteSet(messages)
  BY <1>11, <1>12, FS_Union
<1>14. \A m \in messages : m.kind = "request" =>
          \E r \in first : m.id = t.msgId[r] /\ m.ids = {r} /\ SlotOf(m.id) = r
  BY <1>10, <1>11
<1>15. messages # {}
  <2>1. service # {} \/ first # {}
    <3>1. CASE session.pingToSend
      <4>1. service # {}
        BY <3>1 DEF Service
      <4> QED BY <4>1
    <3>2. CASE session.state = "connected" /\ session.toSend # {}
      BY <1>5, <3>2
    <3>3. CASE Service(session, 0) # {}
      BY <3>3, ServiceStays
    <3> QED BY <3>1, <3>2, <3>3 DEF TryToSend, SendSomething
  <2> QED BY <2>1
<1>16. packetId \in Nat
       /\ (SlotOf(packetId) \in Requests =>
             \E m \in messages : m.kind = "request" /\ m.ids = {SlotOf(packetId)})
  <2> HIDE DEF messages, alone, n
  <2>1. CASE alone
    <3>1. PICK m \in messages : m = CHOOSE k \in messages : TRUE
      BY <1>15
    <3>2. packetId = m.id
      BY <2>1, <3>1
    <3>3. m.id \in Nat
      BY <1>13, <3>1 DEF Message
    <3>4. SlotOf(m.id) \in Requests => m.kind = "request"
      BY <1>11 DEF messages
    <3> QED BY <1>14, <3>2, <3>3, <3>4
  <2>2. CASE ~alone
    <3>1. packetId = MsgId(n, ContainerSlot)
      BY <2>2
    <3>2. ContainerSlot \in 0..(NumRequests + 4) /\ ContainerSlot \notin Requests
      BY SessionAssumption DEF ContainerSlot, Requests
    <3> QED BY <1>0, <3>1, <3>2, SlotOfMsgId
  <2> QED BY <2>1, <2>2
<1> HIDE DEF messages, alone, n, packetId, requests
<1>17. inside \in SUBSET Nat
  BY <1>13 DEF Message
<1>18. /\ wantSend \in BOOLEAN /\ timer \in BOOLEAN /\ ping \in Nat
       /\ acks \in SUBSET Nat /\ resend \in SUBSET Nat /\ state \in SUBSET Nat
       /\ sent \in SUBSET Message /\ containers \in SUBSET [id : Nat, ids : SUBSET Nat]
  <2>1. wantSend \in BOOLEAN /\ timer \in BOOLEAN
    BY <1>3
  <2>2. ping \in Nat
    <3>1. MsgId(n, PingSlot) \in Nat
      BY <1>0, SlotOfMsgId, SessionAssumption DEF PingSlot
    <3> QED BY <1>3, <1>9, <3>1 DEF Sessions
  <2>3. acks \in SUBSET Nat /\ resend \in SUBSET Nat /\ state \in SUBSET Nat
    BY <1>3, <1>9 DEF Sessions
  <2>4. sent \in SUBSET Message
    BY <1>3, <1>9, <1>11 DEF Sessions
  <2>5. containers \in SUBSET [id : Nat, ids : SUBSET Nat]
    <3>1. [id |-> packetId, ids |-> inside] \in [id : Nat, ids : SUBSET Nat]
      BY <1>16, <1>17
    <3> HIDE DEF inside
    <3> QED BY <1>3, <1>9, <3>1 DEF Sessions
  <2> QED BY <2>1, <2>2, <2>3, <2>4, <2>5
<1>19. session' \in Sessions
  <2>1. t \in Sessions /\ n \in Nat
    BY <1>0, <1>9
  <2>2. PICK u : u = [t EXCEPT !.packets = n, !.wantSend = wantSend, !.pingToSend = FALSE,
                               !.pingMsgId = ping, !.acks = acks]
    OBVIOUS
  <2>3. u \in Sessions
    BY <1>18, <2>1, <2>2, ZenonT(60) DEF Sessions
  <2>4. session' = [u EXCEPT !.resendReq = resend, !.stateReq = state, !.stateReqsSent = sent,
                             !.containers = containers, !.checkTimer = timer]
    BY <1>4, <2>2
  <2> QED BY <1>18, <2>3, <2>4, ZenonT(60) DEF Sessions
<1>20. /\ AllPairs(session') = AllPairs(t) /\ session'.toSend = t.toSend
       /\ session'.msgId = t.msgId /\ session'.number = t.number
       /\ session'.started = t.started /\ session'.delayed = t.delayed
       /\ session'.handled = t.handled /\ session'.received = t.received
       /\ session'.haveReceived = t.haveReceived
  BY <1>4, <1>9 DEF Sessions, AllPairs
<1>21. Sound(session', Asked, server.refused, server.executed)
  BY <1>8, <1>19, <1>20 DEF Sound
<1>22. Once(session', LiveOf(session, server, down), server.last)
  <2>1. Once(session, LiveOf(session, server, down), server.last)
    BY SessionIs
  <2> QED BY <1>7, <1>8, <1>20, <2>1 DEF Once, TakenBy, Apart, Prepares
<1>23. IdsKept(session, session', Asked, server.refused)
  <2>1. ForceNewMsgId(session) => ~session.started
    BY DEF ForceNewMsgId
  <2> QED BY <1>7, <1>8, <1>9, <1>20, <2>1 DEF Prepares, IdsKept
<1>24. p \in Packet /\ PacketFine(p, session', Asked, server.refused)
  <2>1. p \in Packet
    BY <1>0, <1>13, <1>16 DEF Packet, Sessions
  <2>2. first # {} => session'.started
    BY <1>5, <1>7, <1>8, <1>20 DEF Prepares
  <2>3. p.session = session'.number
    BY <1>7, <1>8, <1>20 DEF Prepares
  <2>4. ASSUME NEW m \in messages, m.kind = "request"
        PROVE  /\ m.ids = {SlotOf(m.id)} /\ SlotOf(m.id) \in Asked
               /\ Current(m.id, SlotOf(m.id), session', server.refused) /\ session'.started
    BY <1>9, <1>14, <1>20, <2>2, <2>4 DEF Current
  <2>5. p.messages = messages /\ p.id = packetId
    OBVIOUS
  <2> HIDE DEF p
  <2> QED BY <1>13, <1>15, <1>16, <2>1, <2>3, <2>4, <2>5 DEF PacketFine
<1> HIDE DEF p
<1>25. up' \in Seq(Packet) /\ Range(up') = Range(up) \cup {p}
  BY <1>2, <1>24, SessionIs, RangeOfAppend
<1>26. Asked' = Asked
  BY <1>0 DEF Asked
<1>27. ServerFine(server, session', Asked)
  BY <1>9, <1>23, ServerKept DEF Holds, Both
<1>28. \A k \in Range(up) : PacketFine(k, session', Asked, server.refused)
  BY <1>9, <1>23, PacketKept DEF Holds
<1>29. LiveOf(session', server, down) = LiveOf(session, server, down)
  BY <1>23 DEF LiveOf, IdsKept
<1>30. \A k \in Range(up') : PacketFine(k, session', Asked, server.refused)
  BY <1>24, <1>25, <1>28
<1> QED BY <1>0, <1>21, <1>22, <1>25, <1>26, <1>27, <1>29, <1>30, SessionIs DEF Holds, Both

-----------------------------------------------------------------------------
(* The steps of the server                                                 *)

\* Only the server moves.
LEMMA ServerStep ==
    ASSUME Holds, UNCHANGED <<callback, session>>, events' \in 0..MaxEvents,
           Both(session, server', down', Asked),
           server.refused \subseteq server'.refused,
           \/ up' = up
           \/ up # <<>> /\ up' = Tail(up)
    PROVE  Holds'
<1>1. Asked' = Asked
  BY DEF Asked
<1>2. up' \in Seq(Packet) /\ Range(up') \subseteq Range(up)
  <2>1. up \in Seq(Packet)
    BY SessionIs
  <2>2. CASE up' = up
    BY <2>1, <2>2
  <2>3. CASE up # <<>> /\ up' = Tail(up)
    <3>1. Tail(up) \in Seq(Packet) /\ Range(Tail(up)) \subseteq Range(up)
      BY <2>1, <2>3, RangeOfTail
    <3> QED BY <2>3, <3>1
  <2> QED BY <2>2, <2>3
<1>3. \A p \in Range(up') : PacketFine(p, session, Asked, server'.refused)
  BY <1>2 DEF Holds, PacketFine, Current
<1> QED BY <1>1, <1>2, <1>3, SessionIs DEF Holds, Both

\* The server's end, as it is.
LEMMA HereIs ==
    ASSUME Holds
    PROVE  /\ Here \in Ends /\ Here.v = server /\ Here.d = down
           /\ Both(session, server, down, Asked) /\ ServerFine(server, session, Asked)
           /\ DownFine(down, server)
           /\ server.last \in Nat /\ server.stored \subseteq ServerMessage
           /\ server.pending \subseteq Nat
BY DEF Holds, Both, Here, Ends, Servers

\* The server says something after w has become of it.
LEMMA SaysStep ==
    ASSUME Holds, UNCHANGED <<callback, session>>, events' \in 0..MaxEvents,
           NEW w \in Servers, Both(session, w, down, Asked), server.refused \subseteq w.refused,
           NEW kind \in {"answer", "update", "session", "pong", "states", "badSalt", "resend",
                         "reset", "fatal", "detailed", "accepted"},
           NEW about \in Nat, NEW ids \in SUBSET Nat,
           kind \in {"answer", "update", "session"} => w.heard,
           kind = "answer" => SlotOf(about) \in w.executed,
           kind = "fatal" /\ SlotOf(about) \in Requests => SlotOf(about) \in w.refused,
           ServerIs(Said([v |-> w, d |-> down], kind, about, ids)),
           \/ up' = up
           \/ up # <<>> /\ up' = Tail(up)
    PROVE  Holds' /\ server'.executed = w.executed
<1>1. PICK e : e = [v |-> w, d |-> down]
  OBVIOUS
<1>2. e \in Ends /\ e.v = w /\ e.d = down
  BY <1>1, SessionIs DEF Ends
<1>3. PICK g : g = Said(e, kind, about, ids)
  OBVIOUS
<1>4. SaysOn(session, e, g, Asked)
  BY <1>2, <1>3, SaidFine
<1>5. server' = g.v /\ down' = g.d
  BY <1>1, <1>3 DEF ServerIs
<1>6. Both(session, server', down', Asked) /\ server.refused \subseteq server'.refused
      /\ server'.executed = w.executed
  BY <1>2, <1>4, <1>5 DEF SaysOn
<1> QED BY <1>6, ServerStep

\* The server as a packet finds it.
LEMMA TakenStarts ==
    ASSUME Holds, NEW p \in Packet, PacketFine(p, session, Asked, server.refused)
    PROVE  LET heard == [server EXCEPT !.heard = @ \/ p.session = server.session]
               fresh == [server EXCEPT !.heard = TRUE, !.session = p.session,
                            !.ran = {}, !.pending = {}, !.stored = {}, !.sent = {}]
           IN  /\ heard \in Servers /\ Both(session, heard, down, Asked)
               /\ heard.refused = server.refused /\ heard.executed = server.executed
               /\ heard.session = server.session
               /\ p.session = server.session => heard.heard
               /\ fresh \in Servers /\ fresh.heard /\ fresh.session = session.number
               /\ fresh.refused = server.refused /\ fresh.executed = server.executed
               /\ p.session # server.session => Both(session, fresh, down, Asked)
<1>0. server \in Servers /\ session \in Sessions /\ p.session = session.number
      /\ session.number \in Nat
  BY SessionIs DEF PacketFine, Sessions
<1>1. PICK on : on = (server.heard \/ p.session = server.session)
  OBVIOUS
<1>2. on \in BOOLEAN
  BY <1>1
<1>3. PICK heard : heard = [server EXCEPT !.heard = on]
  OBVIOUS
<1>4. /\ heard \in Servers /\ heard.heard = on /\ heard.session = server.session
      /\ heard.ran = server.ran /\ heard.executed = server.executed
      /\ heard.refused = server.refused /\ heard.pending = server.pending
      /\ heard.stored = server.stored /\ heard.last = server.last
  BY <1>0, <1>2, <1>3 DEF Servers
<1>5. Both(session, heard, down, Asked)
  <2>1. ServerFine(heard, session, Asked)
    BY <1>0, <1>1, <1>4, HereIs DEF ServerFine
  <2>2. \A m \in Range(down) : Stored(m) => heard.heard
    BY <1>1, <1>4, HereIs DEF DownFine
  <2> QED BY <1>4, <2>1, <2>2, SessionIs, HereIs, ServerChanges
<1>6. PICK fresh : fresh = [server EXCEPT !.heard = TRUE, !.session = session.number,
                               !.ran = {}, !.pending = {}, !.stored = {}, !.sent = {}]
  OBVIOUS
<1>7. /\ fresh \in Servers /\ fresh.heard = TRUE /\ fresh.session = session.number
      /\ fresh.ran = {} /\ fresh.executed = server.executed
      /\ fresh.refused = server.refused /\ fresh.pending = {}
      /\ fresh.stored = {} /\ fresh.last = server.last
  BY <1>0, <1>6 DEF Servers, Pairs
<1>8. Both(session, fresh, down, Asked)
  <2>1. ServerFine(fresh, session, Asked)
    BY <1>0, <1>7, HereIs DEF ServerFine
  <2> QED BY <1>7, <2>1, SessionIs, HereIs, ServerChanges
<1>9. heard = [server EXCEPT !.heard = @ \/ p.session = server.session]
  BY <1>1, <1>3
<1>10. fresh = [server EXCEPT !.heard = TRUE, !.session = p.session,
                   !.ran = {}, !.pending = {}, !.stored = {}, !.sent = {}]
  BY <1>0, <1>6
<1> QED BY <1>1, <1>4, <1>5, <1>7, <1>8, <1>9, <1>10

\* The packet that the server takes next is a fine one.
LEMMA HeadOfUp ==
    ASSUME Holds, up # <<>>
    PROVE  /\ Head(up) \in Packet /\ PacketFine(Head(up), session, Asked, server.refused)
           /\ Head(up).id \in Nat /\ Head(up).messages \subseteq Message /\ Head(up).messages # {}
<1>1. Head(up) \in Packet /\ Head(up) \in Range(up)
  BY SessionIs, RangeOfTail
<1> QED BY <1>1 DEF Holds, PacketFine, Packet

\* The packet p that the server takes next, the server when it has heard p, or when p begins a
\* session, and its end as the messages of p find it.
TakesPacket(p, heard, fresh, first, start) ==
    /\ p = Head(up) /\ p \in Packet /\ PacketFine(p, session, Asked, server.refused)
    /\ heard = [server EXCEPT !.heard = @ \/ p.session = server.session]
    /\ heard \in Servers /\ Both(session, heard, down, Asked)
    /\ fresh = [server EXCEPT !.heard = TRUE, !.session = p.session,
                   !.ran = {}, !.pending = {}, !.stored = {}, !.sent = {}]
    /\ fresh \in Servers /\ first \in Nat
    /\ start = IF p.session = server.session THEN [v |-> heard, d |-> down]
               ELSE Said([v |-> fresh, d |-> down], "session", first, {})
    /\ start \in Ends /\ Both(session, start.v, start.d, Asked)
    /\ start.v.heard /\ start.v.session = session.number
    /\ start.v.refused = server.refused /\ start.v.executed = server.executed
    /\ ServerIs(IF p.salt # server.salt THEN Said([v |-> heard, d |-> down], "badSalt", p.id, {})
                ELSE TakeAll(start, p.messages))

\* The server takes a packet that is a fine one.
LEMMA ServerTakesPacket ==
    ASSUME Holds, ServerReceives
    PROVE  \E p, heard, fresh, first, start : TakesPacket(p, heard, fresh, first, start)
<1>0. up # <<>>
  BY DEF ServerReceives
<1>1. PICK p : p = Head(up)
  OBVIOUS
<1>2. p \in Packet /\ PacketFine(p, session, Asked, server.refused) /\ p.id \in Nat
      /\ p.messages \subseteq Message /\ p.messages # {}
  BY <1>0, <1>1, HeadOfUp
<1>3. PICK heard, fresh :
         /\ heard = [server EXCEPT !.heard = @ \/ p.session = server.session]
         /\ fresh = [server EXCEPT !.heard = TRUE, !.session = p.session,
                        !.ran = {}, !.pending = {}, !.stored = {}, !.sent = {}]
  OBVIOUS
<1>4. /\ heard \in Servers /\ Both(session, heard, down, Asked)
      /\ heard.refused = server.refused /\ heard.executed = server.executed
      /\ heard.session = server.session
      /\ p.session = server.session => heard.heard
      /\ fresh \in Servers /\ fresh.heard /\ fresh.session = session.number
      /\ fresh.refused = server.refused /\ fresh.executed = server.executed
      /\ p.session # server.session => Both(session, fresh, down, Asked)
  BY <1>2, <1>3, TakenStarts
<1>5. PICK first : first = First(p.messages).id
  OBVIOUS
<1>6. first \in Nat
  <2>1. \A m \in p.messages : m.id \in Nat
    BY <1>2 DEF Message
  <2> QED BY <1>2, <1>5, <2>1, FirstIs
<1>7. PICK start : start = IF p.session = server.session THEN [v |-> heard, d |-> down]
                           ELSE Said([v |-> fresh, d |-> down], "session", first, {})
  OBVIOUS
<1>8. ServerIs(IF p.salt # server.salt THEN Said([v |-> heard, d |-> down], "badSalt", p.id, {})
               ELSE TakeAll(start, p.messages))
  BY <1>1, <1>3, <1>5, <1>7 DEF ServerReceives, Taken
<1>9. start \in Ends /\ Both(session, start.v, start.d, Asked)
      /\ start.v.heard /\ start.v.session = session.number
      /\ start.v.refused = server.refused /\ start.v.executed = server.executed
  <2>1. CASE p.session = server.session
    <3>1. start = [v |-> heard, d |-> down]
      BY <1>7, <2>1
    <3>2. server.session = session.number
      BY <1>2, <2>1 DEF PacketFine
    <3> QED BY <1>4, <2>1, <3>1, <3>2, SessionIs DEF Ends
  <2>2. CASE p.session # server.session
    <3>1. PICK e : e = [v |-> fresh, d |-> down]
      OBVIOUS
    <3>2. e \in Ends /\ e.v = fresh /\ e.d = down
      BY <1>4, <3>1, SessionIs DEF Ends
    <3>3. start = Said(e, "session", first, {})
      BY <1>7, <2>2, <3>1
    <3>4. SaysOn(session, e, Said(e, "session", first, {}), Asked)
      BY <1>4, <1>6, <2>2, <3>2, SaidFine
    <3> QED BY <1>4, <3>2, <3>3, <3>4 DEF SaysOn
  <2> QED BY <2>1, <2>2
<1> QED BY <1>1, <1>2, <1>3, <1>4, <1>6, <1>7, <1>8, <1>9 DEF TakesPacket

\* The server takes a packet; what it executes is more than before.
LEMMA ServerReceivesHolds ==
    ASSUME Holds, ServerReceives
    PROVE  Holds' /\ server.executed \subseteq server'.executed
<1>1. up # <<>> /\ up' = Tail(up) /\ UNCHANGED <<callback, session, events>>
      /\ events' \in 0..MaxEvents
  BY SessionIs DEF ServerReceives
<1>2. PICK p, heard, fresh, first, start : TakesPacket(p, heard, fresh, first, start)
  BY ServerTakesPacket
<1>3. /\ heard \in Servers /\ Both(session, heard, down, Asked)
      /\ heard.refused = server.refused /\ heard.executed = server.executed
      /\ p.id \in Nat
  BY <1>2, SessionIs DEF TakesPacket, Servers, Packet
<1>4. CASE p.salt # server.salt
  <2>1. ServerIs(Said([v |-> heard, d |-> down], "badSalt", p.id, {}))
    BY <1>2, <1>4 DEF TakesPacket
  <2> QED BY <1>1, <1>3, <2>1, SaysStep
<1>5. CASE p.salt = server.salt
  <2>1. PICK g : g = TakeAll(start, p.messages)
    OBVIOUS
  <2>2. TakesOn(session, start, g, Asked)
    BY <1>2, <2>1, SessionIs, TakeAllFine DEF TakesPacket
  <2>3. server' = g.v /\ down' = g.d
    BY <1>2, <1>5, <2>1 DEF ServerIs, TakesPacket
  <2>4. Both(session, server', down', Asked) /\ server.refused \subseteq server'.refused
        /\ server.executed \subseteq server'.executed
    BY <1>2, <2>2, <2>3 DEF TakesOn, TakesPacket
  <2> QED BY <1>1, <2>4, ServerStep
<1> QED BY <1>4, <1>5

\* The server refuses a packet.
LEMMA ServerRefusesHolds ==
    ASSUME Holds, ServerRefuses
    PROVE  Holds' /\ server'.executed = server.executed
<1>0. up # <<>> /\ up' = Tail(up) /\ UNCHANGED <<callback, session>>
      /\ events' \in 0..MaxEvents
  BY IncidentIs DEF ServerRefuses
<1>1. PICK p : p = Head(up)
  OBVIOUS
<1>2. p \in Packet /\ PacketFine(p, session, Asked, server.refused) /\ p.id \in Nat
      /\ p.messages \subseteq Message
  BY <1>0, <1>1, HeadOfUp
<1>3. PICK ids : ids = UNION {m.ids : m \in {k \in p.messages : k.kind = "request"}}
  OBVIOUS
<1>4. ids \subseteq Requests
      /\ (SlotOf(p.id) \in Requests => SlotOf(p.id) \in ids)
  <2>1. \A m \in p.messages : m.kind = "request" => m.ids \subseteq Requests
    BY <1>2, SessionIs DEF PacketFine
  <2> QED BY <1>2, <1>3, <2>1 DEF PacketFine
<1>5. PICK kind \in {"resend", "reset", "fatal"} :
         ServerIs(Said([Here EXCEPT !.v.refused = IF kind # "fatal" THEN @ ELSE @ \cup ids],
                       kind, p.id, {}))
  BY <1>1, <1>3 DEF ServerRefuses
<1>6. PICK refused : refused = IF kind # "fatal" THEN server.refused ELSE server.refused \cup ids
  OBVIOUS
<1>7. refused \in SUBSET Requests /\ server.refused \subseteq refused
  BY <1>4, <1>6, SessionIs DEF Servers
<1>8. PICK w : w = [server EXCEPT !.refused = refused]
  OBVIOUS
<1>9. /\ w \in Servers /\ w.ran = server.ran /\ w.executed = server.executed
      /\ w.pending = server.pending /\ w.session = server.session /\ w.heard = server.heard
      /\ w.refused = refused /\ w.stored = server.stored /\ w.last = server.last
  BY <1>7, <1>8, SessionIs DEF Servers
<1>10. [Here EXCEPT !.v.refused = IF kind # "fatal" THEN @ ELSE @ \cup ids] = [v |-> w, d |-> down]
  BY <1>6, <1>8 DEF Here
<1>11. ServerFine(w, session, Asked)
  <2>1. \A m \in w.stored : Told(m, w.refused, w.executed) /\ m.id <= w.last
    BY <1>7, <1>9, ToldGrows, HereIs DEF ServerFine
  <2> QED BY <1>7, <1>9, <2>1, HereIs DEF ServerFine, Current
<1>12. Both(session, w, down, Asked)
  <2>1. \A m \in Range(down) : Stored(m) => w.heard
    BY <1>9, HereIs DEF DownFine
  <2> QED BY <1>7, <1>9, <1>11, <2>1, SessionIs, HereIs, ServerChanges
<1>13. kind = "fatal" /\ SlotOf(p.id) \in Requests => SlotOf(p.id) \in w.refused
  BY <1>4, <1>6, <1>9
<1>14. ServerIs(Said([v |-> w, d |-> down], kind, p.id, {}))
  BY <1>5, <1>10
<1> QED BY <1>0, <1>2, <1>7, <1>9, <1>12, <1>13, <1>14, SaysStep

\* The server answers what it has executed.
LEMMA ServerAnswersHolds ==
    ASSUME Holds, ServerAnswers
    PROVE  Holds' /\ server'.executed = server.executed
<1>0. server.heard /\ UNCHANGED <<callback, session, up, events>> /\ events' \in 0..MaxEvents
  BY SessionIs DEF ServerAnswers
<1>1. PICK id \in server.pending :
         ServerIs(Said([Here EXCEPT !.v.pending = @ \ {id}], "answer", id, {}))
  BY DEF ServerAnswers
<1>2. PICK w : w = [server EXCEPT !.pending = server.pending \ {id}]
  OBVIOUS
<1>3. /\ w \in Servers /\ w.ran = server.ran /\ w.executed = server.executed
      /\ w.pending \subseteq server.pending /\ w.session = server.session /\ w.heard = server.heard
      /\ w.refused = server.refused /\ w.stored = server.stored /\ w.last = server.last
  BY <1>2, SessionIs DEF Servers
<1>4. [Here EXCEPT !.v.pending = @ \ {id}] = [v |-> w, d |-> down]
  BY <1>2 DEF Here
<1>5. ServerFine(w, session, Asked)
  BY <1>3, HereIs DEF ServerFine
<1>6. Both(session, w, down, Asked)
  <2>1. \A m \in Range(down) : Stored(m) => w.heard
    BY <1>3, HereIs DEF DownFine
  <2> QED BY <1>3, <1>5, <2>1, SessionIs, HereIs, ServerChanges
<1>7. id \in Nat /\ SlotOf(id) \in w.executed
  BY <1>3, HereIs DEF ServerFine
<1>8. PICK kind : kind = "answer"
  OBVIOUS
<1>9. /\ kind \in {"answer", "update", "session", "pong", "states", "badSalt", "resend",
                   "reset", "fatal", "detailed", "accepted"}
      /\ ServerIs(Said([v |-> w, d |-> down], kind, id, {}))
      /\ w.heard /\ server.refused \subseteq w.refused /\ kind # "fatal"
  BY <1>0, <1>1, <1>3, <1>4, <1>8
<1> QED BY <1>0, <1>3, <1>6, <1>7, <1>9, SaysStep

\* What the server has stored it has heard a client for.
LEMMA ServerRepeatsHolds ==
    ASSUME Holds, ServerRepeats
    PROVE  Holds' /\ server'.executed = server.executed
<1>0. server.heard /\ UNCHANGED <<callback, session, up, events>> /\ events' \in 0..MaxEvents
      /\ server.session = session.number
  BY SessionIs, HereIs DEF ServerRepeats, ServerFine
<1>1. PICK m \in server.stored :
         /\ down' = Append(down, [m EXCEPT !.salt = server.salt])
         /\ server' = [server EXCEPT !.sent = @ \cup {m.id}]
  BY DEF ServerRepeats, ToRepeat
<1>2. PICK k : k = [m EXCEPT !.salt = server.salt]
  OBVIOUS
<1>3. k \in ServerMessage /\ k.id = m.id /\ k.kind = m.kind /\ k.about = m.about /\ m.id \in Nat
  BY <1>2, SessionIs, HereIs DEF ServerMessage, Servers
<1>4. down' \in Seq(ServerMessage) /\ Range(down') = Range(down) \cup {k}
  <2>1. down' = Append(down, k) /\ down \in Seq(ServerMessage) /\ k \in ServerMessage
    BY <1>1, <1>2, <1>3, SessionIs
  <2> QED BY <2>1, RangeOfAppend
<1>5. PICK sent : sent = server.sent \cup {m.id}
  OBVIOUS
<1>6. server' = [server EXCEPT !.sent = sent] /\ sent \in SUBSET Nat
  BY <1>1, <1>3, <1>5, SessionIs DEF Servers
<1>7. /\ server' \in Servers /\ server'.ran = server.ran /\ server'.executed = server.executed
      /\ server'.pending = server.pending /\ server'.session = server.session
      /\ server'.heard = server.heard /\ server'.refused = server.refused
      /\ server'.stored = server.stored /\ server'.last = server.last
  BY <1>6, SessionIs DEF Servers
<1>8. Told(m, server.refused, server.executed) /\ m.id <= server.last
  BY HereIs DEF ServerFine
<1>9. DownFine(down', server')
  BY <1>0, <1>3, <1>4, <1>7, <1>8, HereIs DEF DownFine, Told, Stored
<1>10. LiveOf(session, server', down') \subseteq LiveOf(session, server, down)
  BY <1>0, <1>3, <1>4, <1>7 DEF LiveOf
<1>11. Once(session, LiveOf(session, server', down'), server'.last)
  BY <1>7, <1>10, SessionIs DEF Once
<1>12. ServerFine(server', session, Asked)
  BY <1>7, HereIs DEF ServerFine
<1>13. Both(session, server', down', Asked)
  BY <1>4, <1>7, <1>9, <1>11, <1>12, SessionIs DEF Both
<1> QED BY <1>0, <1>7, <1>13, ServerStep

\* The server only mentions an answer.
LEMMA ServerMentionsHolds ==
    ASSUME Holds, ServerMentions
    PROVE  Holds' /\ server'.executed = server.executed
<1>0. server.heard /\ UNCHANGED <<callback, session, up>> /\ events' \in 0..MaxEvents
  BY IncidentIs DEF ServerMentions
<1>1. PICK m \in server.stored :
         ServerIs(Said([Here EXCEPT !.v.sent = @ \cup {m.id}], "detailed", m.about, {m.id}))
  BY DEF ServerMentions, ToRepeat
<1>2. m.id \in Nat /\ m.about \in Nat
  BY HereIs DEF ServerMessage
<1>3. PICK w : w = [server EXCEPT !.sent = server.sent \cup {m.id}]
  OBVIOUS
<1>4. /\ w \in Servers /\ w.ran = server.ran /\ w.executed = server.executed
      /\ w.pending = server.pending /\ w.session = server.session /\ w.heard = server.heard
      /\ w.refused = server.refused /\ w.stored = server.stored /\ w.last = server.last
  BY <1>2, <1>3, SessionIs DEF Servers
<1>5. [Here EXCEPT !.v.sent = @ \cup {m.id}] = [v |-> w, d |-> down]
  BY <1>3 DEF Here
<1>6. ServerFine(w, session, Asked)
  BY <1>4, HereIs DEF ServerFine
<1>7. Both(session, w, down, Asked)
  <2>1. \A k \in Range(down) : Stored(k) => w.heard
    BY <1>4, HereIs DEF DownFine
  <2> QED BY <1>4, <1>6, <2>1, SessionIs, HereIs, ServerChanges
<1>8. ServerIs(Said([v |-> w, d |-> down], "detailed", m.about, {m.id}))
  BY <1>1, <1>5
<1> QED BY <1>0, <1>2, <1>4, <1>7, <1>8, SaysStep

\* The server acks a request.
LEMMA ServerAcceptsHolds ==
    ASSUME Holds, ServerAccepts
    PROVE  Holds' /\ server'.executed = server.executed
<1>0. UNCHANGED <<callback, session, up>> /\ events' \in 0..MaxEvents
  BY IncidentIs DEF ServerAccepts
<1>1. PICK id \in server.pending : ServerIs(Said(Here, "accepted", id, {}))
  BY DEF ServerAccepts
<1>2. PICK kind : kind = "accepted"
  OBVIOUS
<1>3. /\ kind \in {"answer", "update", "session", "pong", "states", "badSalt", "resend",
                   "reset", "fatal", "detailed", "accepted"}
      /\ ServerIs(Said([v |-> server, d |-> down], kind, id, {})) /\ id \in Nat
      /\ kind \notin {"answer", "update", "session", "fatal"}
  BY <1>1, <1>2, HereIs DEF Here
<1>4. server \in Servers /\ Both(session, server, down, Asked)
  BY SessionIs, HereIs
<1> QED BY <1>0, <1>3, <1>4, SaysStep

\* The server sends an update.
LEMMA ServerPushesHolds ==
    ASSUME Holds, ServerPushes
    PROVE  Holds' /\ server'.executed = server.executed
<1>0. server.heard /\ UNCHANGED <<callback, session, up>> /\ events' \in 0..MaxEvents
  BY IncidentIs DEF ServerPushes
<1>1. PICK kind : kind = "update"
  OBVIOUS
<1>2. /\ kind \in {"answer", "update", "session", "pong", "states", "badSalt", "resend",
                   "reset", "fatal", "detailed", "accepted"}
      /\ ServerIs(Said([v |-> server, d |-> down], kind, 0, {}))
      /\ kind \notin {"answer", "fatal"}
  BY <1>1 DEF ServerPushes, Here
<1>3. server \in Servers /\ Both(session, server, down, Asked)
  BY SessionIs, HereIs
<1> QED BY <1>0, <1>2, <1>3, SaysStep

\* The server forgets the session.
LEMMA ServerForgetsHolds ==
    ASSUME Holds, ServerForgets
    PROVE  Holds' /\ server'.executed = server.executed
<1>0. ~server.heard /\ UNCHANGED <<callback, session, up, down>> /\ events' \in 0..MaxEvents
      /\ server' = [server EXCEPT !.session = NoSession, !.ran = {}, !.pending = {}, !.stored = {}]
  BY IncidentIs DEF ServerForgets
<1>1. /\ server' \in Servers /\ server'.ran = {} /\ server'.executed = server.executed
      /\ server'.pending = {} /\ server'.session = 0 /\ server'.heard = FALSE
      /\ server'.refused = server.refused /\ server'.stored = {} /\ server'.last = server.last
  BY <1>0, SessionIs DEF Servers, Pairs, NoSession
<1>2. session.number \in Nat \ {0}
  BY SessionIs DEF Sessions
<1>3. ServerFine(server', session, Asked)
  BY <1>1, <1>2, HereIs DEF ServerFine
<1>4. Both(session, server', down, Asked)
  <2>1. \A k \in Range(down) : ~Stored(k)
    BY <1>0, HereIs DEF DownFine
  <2> QED BY <1>1, <1>3, <2>1, SessionIs, HereIs, ServerChanges
<1> QED BY <1>0, <1>1, <1>4, ServerStep

\* The server changes the salt.
LEMMA ServerChangesSaltHolds ==
    ASSUME Holds, ServerChangesSalt
    PROVE  Holds' /\ server'.executed = server.executed
<1>0. UNCHANGED <<callback, session, up, down>> /\ events' \in 0..MaxEvents
      /\ server' = [server EXCEPT !.salt = @ + 1]
  BY IncidentIs DEF ServerChangesSalt
<1>1. /\ server' \in Servers /\ server'.ran = server.ran /\ server'.executed = server.executed
      /\ server'.pending = server.pending /\ server'.session = server.session
      /\ server'.heard = server.heard /\ server'.refused = server.refused
      /\ server'.stored = server.stored /\ server'.last = server.last
  <2>1. PICK salt : salt = server.salt + 1
    OBVIOUS
  <2>2. salt \in Nat /\ server' = [server EXCEPT !.salt = salt]
    BY <1>0, <2>1, SessionIs DEF Servers
  <2> QED BY <2>2, SessionIs DEF Servers
<1>2. ServerFine(server', session, Asked)
  BY <1>1, HereIs DEF ServerFine
<1>3. Both(session, server', down, Asked)
  <2>1. \A k \in Range(down) : Stored(k) => server'.heard
    BY <1>1, HereIs DEF DownFine
  <2> QED BY <1>1, <1>2, <2>1, SessionIs, HereIs, ServerChanges
<1> QED BY <1>0, <1>1, <1>3, ServerStep

-----------------------------------------------------------------------------
(* The theorems                                                            *)

\* It holds at first ...
LEMMA HoldsAtFirst ==
    ASSUME Init
    PROVE  Holds
<1>1. /\ session \in Sessions /\ server \in Servers /\ up = <<>> /\ down = <<>>
      /\ callback \in [Requests -> {"none", "waiting", "called", "cancelled"}]
      /\ events \in 0..MaxEvents
  <2>1. session \in Sessions
    BY DEF Init, Sessions, NoSalt, Pairs
  <2>2. server \in Servers
    BY DEF Init, Servers, NoSession, Pairs
  <2> QED BY <2>1, <2>2, SessionAssumption DEF Init
<1>2. Range(<<>>) = {} /\ <<>> \in Seq(ServerMessage) /\ <<>> \in Seq(Packet) /\ DOMAIN <<>> = {}
  BY DEF Range
<1>3. /\ AllPairs(session) = {} /\ session.toSend = {} /\ session.delayed = {}
      /\ session.haveReceived = <<>> /\ session.handled = {} /\ session.received = {}
      /\ \A r \in Requests : session.msgId[r] = 0
      /\ session.number = 1
  BY DEF Init, AllPairs
<1>4. /\ server.ran = {} /\ server.executed = {} /\ server.pending = {} /\ server.stored = {}
      /\ server.heard = FALSE /\ server.session = 0
  BY DEF Init, NoSession
<1>5. Sound(session, Asked, server.refused, server.executed)
  BY <1>1, <1>2, <1>3, FS_EmptySet DEF Sound
<1>6. Once(session, LiveOf(session, server, down), server.last)
  BY <1>2, <1>3 DEF Once, TakenBy, Apart
<1>7. ServerFine(server, session, Asked)
  BY <1>3, <1>4 DEF ServerFine
<1>8. DownFine(down, server)
  BY <1>1, <1>2 DEF DownFine
<1> QED BY <1>1, <1>2, <1>5, <1>6, <1>7, <1>8 DEF Holds, Both

\* ... and through every step.
LEMMA HoldsOn ==
    ASSUME Holds, [Next]_vars
    PROVE  Holds'
<1>1. CASE MainThread
  BY <1>1, SendRequestHolds, CancelHolds, DeliverHolds, RetryHolds DEF MainThread
<1>2. CASE SessionThread
  BY <1>2, TryInVainHolds, TryToSendHolds, HandleReceivedHolds, ConnectHolds, ResumeHolds
  DEF SessionThread
<1>3. CASE Timers
  BY <1>3, CheckSentRequestsHolds, ClearOldContainerHolds DEF Timers
<1>4. CASE Connection
  BY <1>4, DropHolds, RekeyHolds, StopHolds DEF Connection
<1>5. CASE Server
  BY <1>5, ServerReceivesHolds, ServerRefusesHolds, ServerAnswersHolds, ServerRepeatsHolds,
     ServerMentionsHolds, ServerAcceptsHolds, ServerPushesHolds, ServerForgetsHolds,
     ServerChangesSaltHolds
  DEF Server
<1>6. CASE UNCHANGED vars
  BY <1>6 DEF vars, Holds, Asked
<1> QED BY <1>1, <1>2, <1>3, <1>4, <1>5, <1>6 DEF Next

\* What the message layer rests on: the id of a message tells its request, a request that was
\* not refused has one id within a session (tryToSend() gives it a new one only before the
\* session is started), and an update that was taken stays registered as long as the server
\* may send it again.
THEOREM SessionInvariantHolds == Spec => []SessionInvariant
<1>1. Init => SessionInvariant
  BY HoldsAtFirst, InvariantIs
<1>2. SessionInvariant /\ [Next]_vars => SessionInvariant'
  <2>1. ASSUME SessionInvariant, [Next]_vars PROVE SessionInvariant'
    <3>1. Holds'
      BY <2>1, HoldsOn, InvariantIs
    <3>2. (SessionInvariant <=> Holds)'
      BY InvariantIs, PTL
    <3> QED BY <3>1, <3>2
  <2> QED BY <2>1
<1> QED BY <1>1, <1>2, PTL DEF Spec

\* The variables of the message layer have their types.
THEOREM SessionTypeCorrect == Spec => []TypeOK
<1>1. SessionInvariant => TypeOK
  BY DEF SessionInvariant
<1> QED BY <1>1, SessionInvariantHolds, PTL

\* An update that the server sends again, since it has not seen the ack, is given to the main
\* thread once: registerMsgId() and shrink() never let an id in again that was taken.
THEOREM UpdatesComeOnce == Spec => []UpdateOnce
<1>1. SessionInvariant => UpdateOnce
  BY DEF SessionInvariant
<1> QED BY <1>1, SessionInvariantHolds, PTL

\* The server runs a request once in a session, however often resend() sends it, unless it was
\* refused with an error in between.
THEOREM RequestsRunOnce == Spec => []RunsOnce
<1>1. SessionInvariant => RunsOnce
  BY DEF SessionInvariant
<1> QED BY <1>1, SessionInvariantHolds, PTL

-----------------------------------------------------------------------------
(* The promise of the channel                                              *)

\* The channel starts where the message layer does ...
LEMMA ChannelBegins ==
    ASSUME Init
    PROVE  Channel!ChannelInit
BY DEF Init, Channel!ChannelInit, Channel!ChannelRequests, Requests

\* ... and each step of the message layer is one of the channel, or none.
LEMMA ChannelSteps ==
    ASSUME Holds, [Next]_vars
    PROVE  [Channel!ChannelNext]_Channel!channelVars
<1> USE DEF Channel!channelVars
<1>0. Requests = Channel!ChannelRequests
      /\ callback \in [Requests -> {"none", "waiting", "called", "cancelled"}]
  BY SessionIs DEF Requests, Channel!ChannelRequests
<1>1. ASSUME NEW r \in Requests, SendRequest(r) PROVE Channel!ChannelNext
  <2>1. Channel!Issue(r)
    BY <1>1 DEF SendRequest, Channel!Issue, Channel!Change
  <2> QED BY <1>0, <2>1 DEF Channel!ChannelNext
<1>2. ASSUME NEW r \in Requests, Cancel(r) PROVE Channel!ChannelNext
  <2>1. Channel!Abandon(r)
    BY <1>2 DEF Cancel, HasCallback, Channel!Abandon, Channel!Change
  <2> QED BY <1>0, <2>1 DEF Channel!ChannelNext
<1>3. ASSUME Deliver PROVE Channel!ChannelNext \/ UNCHANGED <<callback, server.executed>>
  <2> DEFINE m == Head(session.haveReceived)
  <2>1. \/ UNCHANGED callback
        \/ /\ m.kind = "answer" /\ HasCallback(m.about)
           /\ callback' = [callback EXCEPT ![m.about] = "called"]
    BY <1>3 DEF Deliver
  <2>2. server' = server /\ session.haveReceived # <<>>
    BY <1>3 DEF Deliver
  <2>3. CASE /\ m.kind = "answer" /\ HasCallback(m.about)
             /\ callback' = [callback EXCEPT ![m.about] = "called"]
    <3>1. session.haveReceived \in Seq(Response)
      BY SessionIs DEF Sessions
    <3>2. m \in Range(session.haveReceived)
      BY <2>2, <3>1, RangeOfTail
    <3> HIDE DEF m
    <3>3. m.about \in server.executed
      BY <2>3, <3>2, SessionIs DEF Sound
    <3>4. Channel!Answer(m.about)
      BY <2>2, <2>3, <3>3 DEF HasCallback, Channel!Answer, Channel!Change
    <3> QED BY <1>0, <2>3, <3>4 DEF HasCallback, Channel!ChannelNext
  <2> QED BY <2>1, <2>2, <2>3
<1>4. ASSUME ServerReceives PROVE Channel!ChannelNext
  <2>1. Holds' /\ server.executed \subseteq server'.executed /\ callback' = callback
    BY <1>4, ServerReceivesHolds DEF ServerReceives
  <2>2. server'.executed \subseteq Asked'
    BY <2>1 DEF Holds, Both, ServerFine
  <2>3. Asked' = Asked
    BY <2>1 DEF Asked
  <2>4. server'.executed \in SUBSET {r \in Channel!ChannelRequests : callback[r] # "none"}
        /\ server'.executed = server.executed \cup server'.executed
    BY <1>0, <2>1, <2>2, <2>3 DEF Asked
  <2>5. Channel!Execute
    BY <2>1, <2>4 DEF Channel!Execute
  <2> QED BY <2>5 DEF Channel!ChannelNext
<1>5. ASSUME \/ Retry \/ SessionThread \/ Timers
      PROVE  UNCHANGED <<callback, server.executed>>
  <2>1. CASE HandleReceived
    <3>1. server'.executed = server.executed
      <4>1. server' = server \/ CloseConnection
        BY <2>1 DEF HandleReceived
      <4> QED BY <4>1, SessionIs DEF CloseConnection, Servers
    <3> QED BY <2>1, <3>1 DEF HandleReceived
  <2>2. CASE Retry
    BY <2>2 DEF Retry
  <2>3. CASE Timers
    <3>1. CASE CheckSentRequests
      BY <3>1 DEF CheckSentRequests
    <3>2. CASE ClearOldContainer
      BY <3>2 DEF ClearOldContainer
    <3> QED BY <2>3, <3>1, <3>2 DEF Timers
  <2>4. CASE TryInVain \/ TryToSend
    BY <2>4 DEF TryInVain, TryToSend
  <2>5. CASE Connect \/ Resume
    BY <2>5 DEF Connect, Resume
  <2> QED BY <1>5, <2>1, <2>2, <2>3, <2>4, <2>5 DEF SessionThread
<1>6. ASSUME Connection PROVE UNCHANGED <<callback, server.executed>>
  <2>1. CloseConnection /\ callback' = callback
    BY <1>6 DEF Connection, Drop, Rekey, Stop
  <2> QED BY <2>1, SessionIs DEF CloseConnection, Servers
<1>7. ASSUME Server, ~ServerReceives PROVE UNCHANGED <<callback, server.executed>>
  <2>1. server'.executed = server.executed
    BY <1>7, ServerRefusesHolds, ServerAnswersHolds, ServerRepeatsHolds, ServerMentionsHolds,
       ServerAcceptsHolds, ServerPushesHolds, ServerForgetsHolds, ServerChangesSaltHolds
    DEF Server
  <2>2. callback' = callback
    BY <1>7 DEF Server, ServerRefuses, ServerAnswers, ServerRepeats, ServerMentions,
                ServerAccepts, ServerPushes, ServerForgets, ServerChangesSalt
  <2> QED BY <2>1, <2>2
<1>8. CASE UNCHANGED vars
  BY <1>8 DEF vars
<1> QED BY <1>1, <1>2, <1>3, <1>4, <1>5, <1>6, <1>7, <1>8 DEF Next, MainThread

\* sendRequest(), cancel() and tryToReceive() keep the promise of RequestChannel: the handler of
\* a request is called at most once, only with an answer to what the server has executed, and
\* never after the request was cancelled.
THEOREM ChannelIsKept == Spec => ChannelSpec
<1>1. Init => Channel!ChannelInit
  BY ChannelBegins
<1>2. SessionInvariant /\ [Next]_vars => [Channel!ChannelNext]_Channel!channelVars
  BY InvariantIs, ChannelSteps
<1> QED BY <1>1, <1>2, SessionInvariantHolds, PTL DEF Spec, ChannelSpec, Channel!ChannelSpec

-----------------------------------------------------------------------------
(* A request that waits for its answer *)

AnsweredIn(s, r) == \E m \in Range(s.haveReceived) : m.kind # "update" /\ m.about = r

\* The request r is somewhere in s, and will be found by the id it was sent with.
Tracks(s, f, r) ==
    /\ r \in s.toSend \cup s.delayed \cup Owners(s.haveSent) \/ AnsweredIn(s, r)
    /\ r \in s.toSend /\ r \notin f /\ ~AnsweredIn(s, r) /\ s.msgId[r] # 0
          => <<s.msgId[r], r>> \in s.resending

\* The ids of requests fit into the window.
Fits(s) == IsFiniteSet(Ids(AllPairs(s))) /\ Cardinality(Ids(AllPairs(s))) <= IdsBufferSize

\* No request is lost from s to t, and no message that is not acked in s is acked in t.
Serves(s, t, f) ==
    /\ t.pingMsgId \in {s.pingMsgId, 0}
    /\ t.received = s.received /\ t.acks \subseteq s.acks \cup s.received
    /\ \A r \in Requests : AnsweredIn(s, r) => AnsweredIn(t, r)
    /\ \A r \in Requests : HasCallback(r) /\ Tracks(s, f, r) => Tracks(t, f, r)

\* Two steps that serve all requests are one.
LEMMA ServesOn ==
    ASSUME NEW s, NEW t, NEW u, NEW f, Serves(s, t, f), Serves(t, u, f)
    PROVE  Serves(s, u, f)
<1>1. u.pingMsgId \in {s.pingMsgId, 0}
  BY DEF Serves
<1>2. u.received = s.received /\ u.acks \subseteq s.acks \cup s.received
  BY DEF Serves
<1>3. \A r \in Requests : AnsweredIn(s, r) => AnsweredIn(u, r)
  BY DEF Serves
<1>4. \A r \in Requests : HasCallback(r) /\ Tracks(s, f, r) => Tracks(u, f, r)
  BY DEF Serves
<1> QED BY <1>1, <1>2, <1>3, <1>4 DEF Serves

\* A step that leaves the requests alone serves them.
LEMMA AsideServes ==
    ASSUME NEW s, NEW t, NEW f, t.pingMsgId \in {s.pingMsgId, 0}, t.received = s.received,
           t.acks \subseteq s.acks \cup s.received,
           t.haveReceived = s.haveReceived, t.toSend = s.toSend, t.delayed = s.delayed,
           t.haveSent = s.haveSent, t.msgId = s.msgId, t.resending = s.resending
    PROVE  Serves(s, t, f)
BY DEF Serves, Tracks, AnsweredIn

\* Less ids fit as well.
LEMMA LessFits ==
    ASSUME NEW s, NEW t, AllPairs(t) \subseteq AllPairs(s), Fits(s)
    PROVE  Fits(t)
<1>1. Ids(AllPairs(t)) \subseteq Ids(AllPairs(s))
  BY DEF Ids
<1>2. PICK w : w = Ids(AllPairs(s))
  OBVIOUS
<1>3. PICK v : v = Ids(AllPairs(t))
  OBVIOUS
<1>4. IsFiniteSet(v) /\ Cardinality(v) <= Cardinality(w)
      /\ Cardinality(v) \in Nat /\ Cardinality(w) \in Nat
  <2>1. v \subseteq w /\ IsFiniteSet(w)
    BY <1>1, <1>2, <1>3 DEF Fits
  <2> QED BY <2>1, FS_Subset, FS_CardinalityType
<1>5. Cardinality(w) <= IdsBufferSize
  BY <1>2 DEF Fits
<1> QED BY <1>3, <1>4, <1>5, BufferAssumption DEF Fits

\* No id is trimmed then.
LEMMA NothingIsTrimmed ==
    ASSUME NEW s \in Sessions, Fits(s), NEW pairs, pairs \subseteq AllPairs(s)
    PROVE  TrimAcked(pairs) = pairs
<1>1. PICK w : w = Ids(pairs)
  OBVIOUS
<1>2. w \in SUBSET Nat /\ w \subseteq Ids(AllPairs(s))
  BY <1>1 DEF Ids, AllPairs, Sessions, Pairs
<1>3. IsFiniteSet(w) /\ Cardinality(w) <= IdsBufferSize
  <2>1. PICK v : v = Ids(AllPairs(s))
    OBVIOUS
  <2>2. IsFiniteSet(v) /\ Cardinality(v) <= IdsBufferSize /\ w \subseteq v
    BY <1>2, <2>1 DEF Fits
  <2>3. IsFiniteSet(w) /\ Cardinality(w) <= Cardinality(v)
        /\ Cardinality(v) \in Nat /\ Cardinality(w) \in Nat
    BY <2>2, FS_Subset, FS_CardinalityType
  <2> QED BY <2>2, <2>3, BufferAssumption
<1>4. Largest(w) = w
  BY <1>2, <1>3, FewAreKept
<1>5. TrimAcked(pairs) = Of(pairs, w)
  BY <1>1, <1>4 DEF TrimAcked
<1> QED BY <1>1, <1>5 DEF Of, Ids

\* resend(), for some ids: the requests are sent again.
LEMMA ResendIdsServes ==
    ASSUME NEW s, NEW a, NEW f, NEW x, Sound(s, a, f, x), NEW ids
    PROVE  Serves(s, ResendIds(s, ids), f)
<1> DEFINE again == Of(s.haveSent, ids)
           t == ResendIds(s, ids)
<1>1. again \subseteq s.haveSent
  BY DEF Of
<1>2. s \in Sessions
  BY DEF Sound
<1>3. /\ t.haveSent = s.haveSent \ again /\ t.resending = s.resending \cup again
      /\ t.toSend = s.toSend \cup Owners(again)
      /\ t.pingMsgId = (IF s.pingMsgId \in ids THEN 0 ELSE s.pingMsgId)
      /\ t.msgId = s.msgId /\ t.delayed = s.delayed /\ t.received = s.received
      /\ t.haveReceived = s.haveReceived /\ t.acks = s.acks
  BY <1>2 DEF ResendIds, Sessions
<1> HIDE DEF again, t
<1>4. \A r : AnsweredIn(t, r) <=> AnsweredIn(s, r)
  BY <1>3 DEF AnsweredIn
<1>5. ASSUME NEW r \in Requests, Tracks(s, f, r) PROVE Tracks(t, f, r)
  <2>1. r \in t.toSend \cup t.delayed \cup Owners(t.haveSent) \/ AnsweredIn(t, r)
    BY <1>3, <1>4, <1>5 DEF Tracks, Owners
  <2>2. ASSUME r \in t.toSend, r \notin f, ~AnsweredIn(t, r), t.msgId[r] # 0
        PROVE  <<t.msgId[r], r>> \in t.resending
    <3>1. CASE r \in s.toSend
      BY <1>3, <1>4, <1>5, <2>2, <3>1 DEF Tracks
    <3>2. CASE r \in Owners(again)
      <4>1. PICK p \in again : p[2] = r
        BY <3>2 DEF Owners
      <4>2. p \in AllPairs(s) /\ p = <<p[1], p[2]>>
        BY <1>1, <1>2, <4>1 DEF AllPairs, Sessions, Pairs
      <4>3. p[1] = s.msgId[r]
        BY <2>2, <4>1, <4>2 DEF Sound
      <4> QED BY <1>3, <4>1, <4>2, <4>3
    <3> QED BY <1>3, <2>2, <3>1, <3>2
  <2> QED BY <2>1, <2>2 DEF Tracks
<1> QED BY <1>3, <1>4, <1>5 DEF Serves, t

\* resend(), of a message or of what its container holds.
LEMMA ResendServes ==
    ASSUME NEW s, NEW a, NEW f, NEW x, Sound(s, a, f, x), NEW id
    PROVE  Serves(s, Resend(s, id), f)
<1> DEFINE boxes == {box \in s.containers : box.id = id}
           ids == {id} \cup UNION {box.ids : box \in boxes}
           t == ResendIds(s, ids)
           u == [t EXCEPT !.containers = @ \ boxes, !.wantSend = TRUE]
<1>1. Resend(s, id) = u
  BY DEF Resend
<1> HIDE DEF ids, boxes
<1>2. Serves(s, t, f)
  BY ResendIdsServes
<1>3. t \in Sessions
  BY ResendIdsLess DEF Quietly, Less, Sound
<1> HIDE DEF t
<1>4. Serves(t, u, f)
  <2>1. /\ u.received = t.received /\ u.acks = t.acks /\ u.pingMsgId = t.pingMsgId
        /\ u.haveReceived = t.haveReceived /\ u.toSend = t.toSend /\ u.delayed = t.delayed
        /\ u.haveSent = t.haveSent /\ u.msgId = t.msgId /\ u.resending = t.resending
    BY <1>3 DEF Sessions
  <2> HIDE DEF u
  <2> QED BY <2>1, AsideServes
<1> QED BY <1>1, <1>2, <1>4, ServesOn

\* resendAll().
LEMMA ResendAllServes ==
    ASSUME NEW s, NEW a, NEW f, NEW x, Sound(s, a, f, x)
    PROVE  Serves(s, ResendAll(s), f)
<1> DEFINE t == ResendIds(s, Ids(s.haveSent))
           u == [t EXCEPT !.pingMsgId = s.pingMsgId, !.wantSend = TRUE]
<1>1. Serves(s, t, f) /\ ResendAll(s) = u
  BY ResendIdsServes DEF ResendAll
<1>2. t \in Sessions
  BY ResendIdsLess DEF Quietly, Less, Sound
<1> HIDE DEF t
<1>3. /\ u.received = t.received /\ u.acks = t.acks /\ u.pingMsgId = s.pingMsgId
      /\ u.haveReceived = t.haveReceived /\ u.toSend = t.toSend /\ u.delayed = t.delayed
      /\ u.haveSent = t.haveSent /\ u.msgId = t.msgId /\ u.resending = t.resending
  BY <1>2 DEF Sessions
<1>4. \A r : (AnsweredIn(u, r) <=> AnsweredIn(t, r)) /\ (Tracks(u, f, r) <=> Tracks(t, f, r))
  BY <1>3 DEF Tracks, AnsweredIn
<1> HIDE DEF u
<1> QED BY <1>1, <1>3, <1>4 DEF Serves

\* requestsAcked(), of what is acked, the messages themselves: what becomes of the pairs.
AcksPairs(s, t, ids, byResponse, sent, again) ==
    /\ sent \subseteq s.haveSent /\ again \subseteq s.resending
    /\ \A p \in sent \cup again : p[1] \in ids /\ Counts(p, byResponse)
    /\ t.haveSent = s.haveSent \ sent /\ t.resending = s.resending \ again
    /\ t.toSend = s.toSend \ Owners(again)
    /\ t.acked = s.acked \cup sent \cup {p \in again : p[2] \in s.toSend}
    /\ t.containers = {box \in s.containers : box.id \notin ids}
    /\ t.pingMsgId = s.pingMsgId /\ t.received = s.received /\ t.acks = s.acks
    /\ t.haveReceived = s.haveReceived /\ t.delayed = s.delayed /\ t.msgId = s.msgId

\* The pairs that become so are all that is taken from haveSent and resending.
LEMMA AckMessagesAcks ==
    ASSUME NEW s \in Sessions, Fits(s), NEW ids, NEW byResponse
    PROVE  \E sent, again : AcksPairs(s, AckMessages(s, ids, byResponse), ids, byResponse, sent, again)
<1> DEFINE mine == ids \ ({box.id : box \in s.containers} \cup {q.id : q \in s.stateReqsSent})
           sent == {p \in Of(s.haveSent, mine) : Counts(p, byResponse)}
           again == {p \in Of(s.resending, mine \ Ids(s.haveSent)) : Counts(p, byResponse)}
           unsent == {p \in again : p[2] \in s.toSend}
           acked == s.acked \cup sent \cup unsent
           t == AckMessages(s, ids, byResponse)
<1>1. sent \subseteq s.haveSent /\ again \subseteq s.resending
      /\ \A p \in sent \cup again : p[1] \in ids /\ Counts(p, byResponse)
  BY DEF Of
<1>2. t = [s EXCEPT !.containers = {box \in @ : box.id \notin ids},
                    !.stateReqsSent = {q \in @ : q.id \notin ids},
                    !.haveSent = @ \ sent, !.resending = @ \ again,
                    !.toSend = NotResent(s, again), !.acked = TrimAcked(acked)]
  BY DEF AckMessages
<1> HIDE DEF sent, again, t
<1>3. TrimAcked(acked) = acked
  BY <1>1, NothingIsTrimmed DEF AllPairs
<1>4. AcksPairs(s, t, ids, byResponse, sent, again)
  BY <1>1, <1>2, <1>3 DEF AcksPairs, Sessions, NotResent
<1> QED BY <1>4 DEF t

\* A request that still waits is not touched, unless the answer is to it.
LEMMA AckMessagesTracks ==
    ASSUME NEW s, NEW a, NEW f, NEW x, Sound(s, a, f, x), Fits(s), NEW ids, NEW byResponse,
           NEW r \in Requests, HasCallback(r), Tracks(s, f, r),
           byResponse => \A id \in ids : SlotOf(id) # r
    PROVE  Tracks(AckMessages(s, ids, byResponse), f, r)
<1>1. PICK t : t = AckMessages(s, ids, byResponse)
  OBVIOUS
<1>2. s \in Sessions
  BY DEF Sound
<1>3. PICK sent, again : AcksPairs(s, t, ids, byResponse, sent, again)
  BY <1>1, <1>2, AckMessagesAcks
<1>4. \A p \in sent \cup again : p[2] # r
  <2> SUFFICES ASSUME NEW p \in sent \cup again, p[2] = r PROVE FALSE
    OBVIOUS
  <2>1. p \in AllPairs(s) /\ p[1] \in ids /\ Counts(p, byResponse)
    BY <1>3 DEF AcksPairs, AllPairs
  <2>2. SlotOf(p[1]) = r
    BY <2>1 DEF Sound
  <2> QED BY <2>1, <2>2 DEF Counts
<1>5. r \in Owners(s.haveSent) => r \in Owners(t.haveSent)
  BY <1>3, <1>4 DEF AcksPairs, Owners
<1>6. (r \in t.toSend <=> r \in s.toSend) /\ (AnsweredIn(t, r) <=> AnsweredIn(s, r))
  BY <1>3, <1>4 DEF AcksPairs, Owners, AnsweredIn
<1>7. <<s.msgId[r], r>> \in s.resending => <<s.msgId[r], r>> \in t.resending
  BY <1>3, <1>4 DEF AcksPairs
<1>8. t.msgId = s.msgId /\ t.delayed = s.delayed
  BY <1>3 DEF AcksPairs
<1> QED BY <1>1, <1>5, <1>6, <1>7, <1>8 DEF Tracks

\* requestsAcked(), with what the containers hold: it ends no request that still waits, unless
\* the answer is to it.
LEMMA RequestsAckedServes ==
    ASSUME NEW s, NEW a, NEW f, NEW x, Sound(s, a, f, x), Fits(s), NEW ids, NEW byResponse,
           byResponse => \A id \in ids : ~HasCallback(SlotOf(id))
    PROVE  Serves(s, RequestsAcked(s, ids, byResponse), f)
<1> DEFINE t == AckMessages(s, ids, byResponse)
<1>1. PICK inside : inside = UNION {box.ids : box \in {b \in s.containers : b.id \in ids}}
  OBVIOUS
<1>2. PICK u : u = AckMessages(t, inside, FALSE)
  OBVIOUS
<1>3. RequestsAcked(s, ids, byResponse) = u
  BY <1>1, <1>2 DEF RequestsAcked
<1>4. Quietly(s, t) /\ Sound(t, a, f, x) /\ Fits(t) /\ s \in Sessions /\ t \in Sessions
  <2>1. s \in Sessions
    BY DEF Sound
  <2>2. Quietly(s, t)
    BY <2>1, AckMessagesLess
  <2> HIDE DEF t
  <2>3. AllPairs(t) \subseteq AllPairs(s) /\ t \in Sessions
    BY <2>2 DEF Quietly, Less
  <2> QED BY <2>1, <2>2, <2>3, SoundQuietly, LessFits
<1>5. PICK sent, again : AcksPairs(s, t, ids, byResponse, sent, again)
  BY <1>4, AckMessagesAcks
<1>6. ASSUME NEW r \in Requests, HasCallback(r), Tracks(s, f, r) PROVE Tracks(t, f, r)
  BY <1>6, AckMessagesTracks
<1> HIDE DEF t
<1>7. PICK sent2, again2 : AcksPairs(t, u, inside, FALSE, sent2, again2)
  BY <1>2, <1>4, AckMessagesAcks
<1>8. ASSUME NEW r \in Requests, HasCallback(r), Tracks(s, f, r) PROVE Tracks(u, f, r)
  BY <1>2, <1>4, <1>6, <1>8, AckMessagesTracks
<1>9. /\ u.pingMsgId = s.pingMsgId /\ u.received = s.received /\ u.acks = s.acks
      /\ u.haveReceived = s.haveReceived
  BY <1>5, <1>7 DEF AcksPairs
<1> QED BY <1>3, <1>8, <1>9 DEF Serves, AnsweredIn

\* handleMsgsStates().
LEMMA HandleStatesServes ==
    ASSUME NEW s, NEW a, NEW f, NEW x, Sound(s, a, f, x), Fits(s), NEW asked, NEW known
    PROVE  Serves(s, HandleStates(s, asked, known), f)
<1> DEFINE lost == asked \ known
           t == ResendIds(s, lost)
           u == [t EXCEPT !.wantSend = @ \/ lost \cap Ids(s.haveSent) # {}]
<1>0. s \in Sessions
  BY DEF Sound
<1>1. Quietly(s, t) /\ Serves(s, t, f)
  BY <1>0, ResendIdsLess, ResendIdsServes
<1> HIDE DEF t
<1>2. PICK more : more = (t.wantSend \/ lost \cap Ids(s.haveSent) # {})
  OBVIOUS
<1>3. more \in BOOLEAN
  BY <1>2
<1>4. u = [t EXCEPT !.wantSend = more]
  BY <1>2
<1> HIDE DEF u
<1>5. u \in Sessions
  BY <1>1, <1>3, <1>4 DEF Quietly, Less, Sessions
<1>6. Quietly(s, u)
  BY <1>1, <1>4, <1>5 DEF Quietly, Less, Sessions, AllPairs
<1>7. Serves(t, u, f)
  <2>1. /\ u.received = t.received /\ u.acks = t.acks /\ u.pingMsgId = t.pingMsgId
        /\ u.haveReceived = t.haveReceived /\ u.toSend = t.toSend /\ u.delayed = t.delayed
        /\ u.haveSent = t.haveSent /\ u.msgId = t.msgId /\ u.resending = t.resending
    BY <1>1, <1>4 DEF Sessions, Quietly, Less
  <2> QED BY <2>1, AsideServes
<1>8. Sound(u, a, f, x) /\ Fits(u)
  <2>1. AllPairs(u) \subseteq AllPairs(s)
    BY <1>6 DEF Quietly, Less
  <2> QED BY <1>6, <2>1, SoundQuietly, LessFits
<1>9. Serves(u, RequestsAcked(u, asked \cap known, FALSE), f)
  BY <1>8, RequestsAckedServes
<1>10. HandleStates(s, asked, known) = RequestsAcked(u, asked \cap known, FALSE)
  BY DEF HandleStates, u, t
<1> QED BY <1>1, <1>7, <1>9, <1>10, ServesOn

\* handleReceived(), the salt of the packet.
LEMMA SaltKnownServes ==
    ASSUME NEW s, NEW a, NEW f, NEW x, Sound(s, a, f, x), NEW salt \in Nat
    PROVE  Serves(s, SaltKnown(s, salt), f)
<1>0. s \in Sessions
  BY DEF Sound
<1>1. CASE s.state = "connecting"
  <2> DEFINE t == [s EXCEPT !.salt = salt, !.state = "connected"]
  <2>1. t \in Sessions
    BY <1>0 DEF Sessions
  <2>2. Quietly(s, t)
    BY <1>0, <2>1 DEF Quietly, Less, Sessions, AllPairs
  <2>3. Serves(s, t, f)
    <3>1. /\ t.received = s.received /\ t.acks = s.acks /\ t.pingMsgId = s.pingMsgId
          /\ t.haveReceived = s.haveReceived /\ t.toSend = s.toSend /\ t.delayed = s.delayed
          /\ t.haveSent = s.haveSent /\ t.msgId = s.msgId /\ t.resending = s.resending
      BY <1>0 DEF Sessions
    <3> HIDE DEF t
    <3> QED BY <3>1, AsideServes
  <2>4. SaltKnown(s, salt) = ResendAll(t)
    BY <1>1 DEF SaltKnown
  <2> HIDE DEF t
  <2>5. Serves(t, ResendAll(t), f)
    BY <2>2, SoundQuietly, ResendAllServes
  <2> QED BY <2>3, <2>4, <2>5, ServesOn
<1>2. CASE s.state # "connecting"
  <2> DEFINE t == [s EXCEPT !.salt = salt]
  <2>1. /\ t.received = s.received /\ t.acks = s.acks /\ t.pingMsgId = s.pingMsgId
        /\ t.haveReceived = s.haveReceived /\ t.toSend = s.toSend /\ t.delayed = s.delayed
        /\ t.haveSent = s.haveSent /\ t.msgId = s.msgId /\ t.resending = s.resending
    BY <1>0 DEF Sessions
  <2>2. SaltKnown(s, salt) = t
    BY <1>2 DEF SaltKnown
  <2> HIDE DEF t
  <2> QED BY <2>1, <2>2, AsideServes
<1> QED BY <1>1, <1>2

\* A response is received.
LEMMA ReceiveServes ==
    ASSUME NEW s \in Sessions, NEW f, NEW m \in Response
    PROVE  /\ Serves(s, Receive(s, m), f)
           /\ m.kind # "update" => AnsweredIn(Receive(s, m), m.about)
<1> DEFINE t == Receive(s, m)
<1>1. s.haveReceived \in Seq(Response)
  BY DEF Sessions
<1>2. PICK q : q = Append(s.haveReceived, m)
  OBVIOUS
<1>3. Range(q) = Range(s.haveReceived) \cup {m}
  BY <1>1, <1>2, RangeOfAppend
<1>4. /\ t.received = s.received /\ t.acks = s.acks /\ t.pingMsgId = s.pingMsgId
      /\ t.haveReceived = q /\ t.toSend = s.toSend /\ t.delayed = s.delayed
      /\ t.haveSent = s.haveSent /\ t.msgId = s.msgId /\ t.resending = s.resending
  BY <1>2 DEF Receive, Sessions
<1> HIDE DEF t
<1>5. /\ \A r : AnsweredIn(s, r) => AnsweredIn(t, r)
      /\ m.kind # "update" => AnsweredIn(t, m.about)
  BY <1>3, <1>4 DEF AnsweredIn
<1>6. \A r \in Requests : Tracks(s, f, r) => Tracks(t, f, r)
  BY <1>4, <1>5 DEF Tracks
<1> QED BY <1>4, <1>5, <1>6 DEF Serves, t

\* wasSent() finds a request under an id that it keeps.
LEMMA WasSentFinds ==
    ASSUME NEW s, NEW a \in SUBSET Requests, NEW f, NEW x, Sound(s, a, f, x), NEW id,
           SlotOf(s.pingMsgId) = PingSlot, SlotOf(id) \in Requests,
           \/ id \in Ids(s.resending) \cup Ids(s.acked)
           \/ id \in Ids(s.haveSent) /\ id \notin {box.id : box \in s.containers}
    PROVE  WasSent(s, id) = SlotOf(id)
<1>1. id # s.pingMsgId
  BY DEF Requests, PingSlot
<1>2. ASSUME NEW pairs, pairs \subseteq AllPairs(s), id \in Ids(pairs)
      PROVE  Owner(pairs, id) = SlotOf(id)
  <2>1. \E p \in pairs : p[1] = id
    BY <1>2 DEF Ids
  <2>2. PICK p \in pairs : p[1] = id /\ Owner(pairs, id) = p[2]
    BY <2>1 DEF Owner
  <2> QED BY <1>2, <2>2 DEF Sound
<1>3. s.resending \subseteq AllPairs(s) /\ s.acked \subseteq AllPairs(s) /\ s.haveSent \subseteq AllPairs(s)
  BY DEF AllPairs
<1>4. CASE id \in Ids(s.resending)
  <2>1. WasSent(s, id) = Owner(s.resending, id)
    BY <1>1, <1>4 DEF WasSent
  <2> QED BY <1>2, <1>3, <1>4, <2>1
<1>5. CASE id \notin Ids(s.resending) /\ id \in Ids(s.acked)
  <2>1. WasSent(s, id) = Owner(s.acked, id)
    BY <1>1, <1>5 DEF WasSent
  <2> QED BY <1>2, <1>3, <1>5, <2>1
<1>6. CASE id \notin Ids(s.resending) /\ id \notin Ids(s.acked)
  <2>1. id \in Ids(s.haveSent) /\ id \notin {box.id : box \in s.containers}
    BY <1>6
  <2>2. WasSent(s, id) = Owner(s.haveSent, id)
    BY <1>1, <1>6, <2>1 DEF WasSent
  <2> QED BY <1>2, <1>3, <2>1, <2>2
<1> QED BY <1>4, <1>5, <1>6

\* An answer is received: its request is settled, or was before, or still waits for another one.
LEMMA AnswerServes ==
    ASSUME NEW s, NEW a \in SUBSET Requests, NEW f, NEW x, Sound(s, a, f, x), Fits(s),
           SlotOf(s.pingMsgId) = PingSlot,
           NEW m \in ServerMessage, m.kind = "answer",
           SlotOf(m.about) \in Requests, HasCallback(SlotOf(m.about)),
           Tracks(s, f, SlotOf(m.about))
    PROVE  /\ Serves(s, Handled(s, m), f)
           /\ SlotOf(m.about) \notin f /\ m.about = s.msgId[SlotOf(m.about)] /\ s.delayed \subseteq f
                => AnsweredIn(Handled(s, m), SlotOf(m.about))
<1> DEFINE id == m.about
           r == SlotOf(m.about)
           t == AckMessages(s, {id}, TRUE)
           w == Receive(RequestsAcked(s, {id}, TRUE), [kind |-> "answer", about |-> r])
<1>1. PICK inside : inside = UNION {box.ids : box \in {b \in s.containers : b.id \in {id}}}
  OBVIOUS
<1>2. PICK u : u = AckMessages(t, inside, FALSE)
  OBVIOUS
<1>3. RequestsAcked(s, {id}, TRUE) = u
  BY <1>1, <1>2 DEF RequestsAcked
<1>4. s \in Sessions /\ Quietly(s, t) /\ t \in Sessions /\ Sound(t, a, f, x) /\ Fits(t)
  <2>1. s \in Sessions
    BY DEF Sound
  <2>2. Quietly(s, t)
    BY <2>1, AckMessagesLess
  <2> HIDE DEF t
  <2>3. AllPairs(t) \subseteq AllPairs(s) /\ t \in Sessions
    BY <2>2 DEF Quietly, Less
  <2> QED BY <2>1, <2>2, <2>3, SoundQuietly, LessFits
<1>5. PICK sent, again : AcksPairs(s, t, {id}, TRUE, sent, again)
  BY <1>4, AckMessagesAcks
<1>6. ASSUME NEW q \in Requests, q # r, HasCallback(q), Tracks(s, f, q) PROVE Tracks(t, f, q)
  BY <1>6, AckMessagesTracks
<1> HIDE DEF t
<1>7. Quietly(t, u) /\ u \in Sessions /\ Sound(u, a, f, x)
  <2>1. Quietly(t, u)
    BY <1>2, <1>4, AckMessagesLess
  <2> QED BY <1>4, <2>1, SoundQuietly DEF Quietly, Less
<1>8. PICK sent2, again2 : AcksPairs(t, u, inside, FALSE, sent2, again2)
  BY <1>2, <1>4, AckMessagesAcks
<1>9. ASSUME NEW q \in Requests, HasCallback(q), Tracks(t, f, q) PROVE Tracks(u, f, q)
  BY <1>2, <1>4, <1>9, AckMessagesTracks
<1>10. /\ u.pingMsgId = s.pingMsgId /\ u.received = s.received /\ u.acks = s.acks
       /\ u.haveReceived = s.haveReceived /\ t.msgId = s.msgId /\ t.delayed = s.delayed
       /\ t.haveReceived = s.haveReceived
       /\ id \notin {box.id : box \in u.containers}
  <2>1. id \notin {box.id : box \in u.containers}
    BY <1>5, <1>8 DEF AcksPairs
  <2> QED BY <1>5, <1>8, <2>1 DEF AcksPairs
<1>11. \A p \in t.haveSent \cup t.resending : p[2] = r => p \in u.haveSent \cup u.resending
  BY <1>8 DEF AcksPairs, Counts
<1>12. t.acked \subseteq u.acked
  BY <1>8 DEF AcksPairs
<1>13. ASSUME WasSent(u, id) = r PROVE Handled(s, m) = w
  <2>1. r \notin {0, Special}
    BY DEF Requests, Special
  <2> QED BY <1>3, <1>13, <2>1 DEF Handled
<1>14. ASSUME WasSent(u, id) = r PROVE Serves(s, w, f) /\ AnsweredIn(w, r)
  <2> DEFINE e == [kind |-> "answer", about |-> r]
  <2>1. e \in Response /\ e.kind # "update" /\ e.about = r
    BY DEF Response, Requests
  <2>2. w = Receive(u, e)
    BY <1>3
  <2> HIDE DEF e, w
  <2>3. Serves(u, w, f) /\ AnsweredIn(w, r)
    BY <1>7, <2>1, <2>2, ReceiveServes
  <2>4. \A q \in Requests : AnsweredIn(s, q) => AnsweredIn(w, q)
    BY <1>10, <2>3 DEF Serves, AnsweredIn
  <2>5. ASSUME NEW q \in Requests, HasCallback(q), Tracks(s, f, q) PROVE Tracks(w, f, q)
    <3>1. CASE q = r
      BY <2>3, <3>1 DEF Tracks
    <3>2. CASE q # r
      BY <1>6, <1>9, <2>3, <2>5, <3>2 DEF Serves
    <3> QED BY <3>1, <3>2
  <2> QED BY <1>10, <2>3, <2>4, <2>5 DEF Serves
<1>15. \/ WasSent(u, id) = SlotOf(id) /\ SlotOf(id) \in a
       \/ WasSent(u, id) \in {0, Special}
  BY <1>7, WasSentIs
<1>16. ASSUME WasSent(u, id) \in {0, Special} PROVE Handled(s, m) = u
  BY <1>3, <1>16 DEF Handled
<1>17. ASSUME id \in Ids(t.acked) \/ id \in Ids(t.haveSent \cup t.resending)
       PROVE  WasSent(u, id) = r
  <2>1. ASSUME NEW p \in AllPairs(t), p[1] = id PROVE p[2] = r
    BY <1>4, <2>1 DEF Sound
  <2>2. id \in Ids(u.acked) \/ id \in Ids(u.haveSent) \/ id \in Ids(u.resending)
    BY <1>11, <1>12, <1>17, <2>1 DEF Ids, AllPairs
  <2> QED BY <1>7, <1>10, <2>2, WasSentFinds
<1>18. ASSUME id \notin Ids(t.acked) PROVE Tracks(t, f, r)
  <2>1. \A p \in sent : p[2] # r
    BY <1>5, <1>18 DEF AcksPairs, Ids
  <2>2. \A p \in again : p[2] # r \/ r \notin s.toSend
    BY <1>5, <1>18 DEF AcksPairs, Ids
  <2>3. r \in s.toSend => r \in t.toSend
    BY <1>5, <2>2 DEF AcksPairs, Owners
  <2>4. r \in Owners(s.haveSent) => r \in Owners(t.haveSent)
    BY <1>5, <2>1 DEF AcksPairs, Owners
  <2>5. t.toSend \subseteq s.toSend
    BY <1>5 DEF AcksPairs
  <2>6. r \in s.toSend /\ <<s.msgId[r], r>> \in s.resending => <<s.msgId[r], r>> \in t.resending
    BY <1>5, <2>2 DEF AcksPairs
  <2> QED BY <1>10, <2>3, <2>4, <2>5, <2>6 DEF Tracks, AnsweredIn
<1>19. Serves(s, Handled(s, m), f)
  <2>1. CASE WasSent(u, id) = r
    BY <1>13, <1>14, <2>1
  <2>2. CASE WasSent(u, id) # r
    <3>1. Handled(s, m) = u
      BY <1>15, <1>16, <2>2
    <3>2. Tracks(t, f, r)
      BY <1>17, <1>18, <2>2
    <3>3. ASSUME NEW q \in Requests, HasCallback(q), Tracks(s, f, q) PROVE Tracks(u, f, q)
      BY <1>6, <1>9, <3>2, <3>3
    <3>4. \A q \in Requests : AnsweredIn(s, q) => AnsweredIn(u, q)
      BY <1>10 DEF AnsweredIn
    <3> QED BY <1>10, <3>1, <3>3, <3>4 DEF Serves
  <2> QED BY <2>1, <2>2
<1>20. ASSUME r \notin f, id = s.msgId[r], s.delayed \subseteq f
       PROVE  AnsweredIn(Handled(s, m), r)
  <2>1. CASE AnsweredIn(s, r)
    BY <1>19, <2>1 DEF Serves
  <2>2. CASE id \in Ids(t.acked)
    BY <1>13, <1>14, <1>17, <2>2
  <2>3. CASE ~AnsweredIn(s, r) /\ id \notin Ids(t.acked)
    <3>1. Tracks(t, f, r) /\ ~AnsweredIn(t, r) /\ r \notin t.delayed /\ id = t.msgId[r]
      BY <1>10, <1>18, <1>20, <2>3 DEF AnsweredIn
    <3>2. CASE r \in t.toSend
      <4>1. id # 0
        BY SlotOfZero DEF Requests
      <4>2. <<id, r>> \in t.resending
        BY <1>20, <3>1, <3>2, <4>1 DEF Tracks
      <4>3. id \in Ids(t.haveSent \cup t.resending)
        BY <4>2 DEF Ids
      <4> QED BY <1>13, <1>14, <1>17, <4>3
    <3>3. CASE r \in Owners(t.haveSent)
      <4>1. PICK p \in t.haveSent : p[2] = r
        BY <3>3 DEF Owners
      <4>2. p[1] = id
        BY <1>4, <1>10, <1>20, <4>1 DEF Sound, AllPairs
      <4>3. id \in Ids(t.haveSent \cup t.resending)
        BY <4>1, <4>2 DEF Ids
      <4> QED BY <1>13, <1>14, <1>17, <4>3
    <3> QED BY <3>1, <3>2, <3>3 DEF Tracks
  <2> QED BY <2>1, <2>2, <2>3
<1> QED BY <1>19, <1>20

-----------------------------------------------------------------------------
(* The requests that wait for an answer, w, while those in f were refused  *)

Waits(s, f, w) ==
    /\ IsFiniteSet(AllPairs(s))
    /\ SlotOf(s.pingMsgId) = PingSlot
    /\ \A r \in w : Tracks(s, f, r)

Waiting == {r \in Requests : HasCallback(r)}

\* What the session has of the requests stays as it is.
LEMMA AsideTracks ==
    ASSUME NEW s, NEW t, NEW f,
           t.haveReceived = s.haveReceived, t.toSend = s.toSend, t.delayed = s.delayed,
           t.haveSent = s.haveSent, t.msgId = s.msgId, t.resending = s.resending
    PROVE  \A r : (AnsweredIn(t, r) <=> AnsweredIn(s, r)) /\ (Tracks(t, f, r) <=> Tracks(s, f, r))
BY DEF Tracks, AnsweredIn

\* handleOneReceived(), each kind of message.
LEMMA HandledServes ==
    ASSUME NEW s, NEW m, NEW a, NEW f, NEW x, Sound(s, a, f, x), Told(m, f, x), a \subseteq Requests,
           Fits(s), SlotOf(s.pingMsgId) = PingSlot, \A r \in Waiting : Tracks(s, f, r),
           m.kind \in {"pong", "states"} => SlotOf(m.about) \notin Requests
    PROVE  Serves(s, Handled(s, m), f)
<1>0. s \in Sessions /\ m \in ServerMessage /\ 0 \notin Requests /\ Special \notin Requests
      /\ m.id \in Nat /\ m.about \in Nat /\ m.salt \in Nat
  <2>1. s \in Sessions /\ m \in ServerMessage
    BY DEF Sound, Told
  <2> QED BY <2>1 DEF ServerMessage, Requests, Special
<1>1. Serves(s, s, f)
  BY AsideServes
<1>2. WasSent(s, m.about) \in {0, Special} \/ WasSent(s, m.about) \in Requests
  BY WasSentIs
<1>3. CASE m.kind \in {"resend", "reset", "fatal"}
  <2>1. Handled(s, m) = BadMessage(s, m)
    BY <1>3 DEF Handled
  <2>2. CASE WasSent(s, m.about) = 0 \/ m.kind = "reset"
    <3>1. BadMessage(s, m) = s
      BY <2>2 DEF BadMessage
    <3> QED BY <1>1, <2>1, <3>1
  <2>3. CASE WasSent(s, m.about) # 0 /\ m.kind = "resend"
    <3>1. BadMessage(s, m) = Resend(s, m.about)
      BY <2>3 DEF BadMessage
    <3> QED BY <2>1, <3>1, ResendServes
  <2>4. CASE WasSent(s, m.about) # 0 /\ m.kind = "fatal"
    <3>1. PICK e : e = [kind |-> "error", about |-> WasSent(s, m.about)]
      OBVIOUS
    <3>2. BadMessage(s, m) = Receive(s, e)
      BY <2>4, <3>1 DEF BadMessage
    <3>3. e \in Response
      BY <1>2, <2>4, <3>1 DEF Response, Requests
    <3> QED BY <1>0, <2>1, <3>2, <3>3, ReceiveServes
  <2> QED BY <1>3, <2>2, <2>3, <2>4
<1>4. CASE m.kind = "badSalt"
  <2>1. CASE WasSent(s, m.about) = 0
    <3>1. Handled(s, m) = s
      BY <1>4, <2>1 DEF Handled
    <3> QED BY <1>1, <3>1
  <2>2. CASE WasSent(s, m.about) # 0
    <3>1. PICK t : t = SaltKnown(s, m.salt)
      OBVIOUS
    <3>2. Handled(s, m) = Resend(t, m.about)
      BY <1>4, <2>2, <3>1 DEF Handled
    <3>3. Serves(s, t, f)
      BY <1>0, <3>1, SaltKnownServes
    <3>4. Sound(t, a, f, x)
      BY <1>0, <3>1, SaltKnownLess, SoundQuietly
    <3> QED BY <3>2, <3>3, <3>4, ResendServes, ServesOn
  <2> QED BY <2>1, <2>2
<1>5. CASE m.kind = "accepted"
  <2>1. Handled(s, m) = RequestsAcked(s, {m.about}, FALSE)
    BY <1>5 DEF Handled
  <2> QED BY <2>1, RequestsAckedServes
<1>6. CASE m.kind = "states"
  <2>1. PICK asked : asked = UNION {q.ids : q \in {p \in s.stateReqsSent : p.id = m.about}}
    OBVIOUS
  <2>2. PICK t : t = RequestsAcked(s, {m.about}, TRUE)
    OBVIOUS
  <2>3. Handled(s, m) = HandleStates(t, asked, m.ids)
    BY <1>6, <2>1, <2>2 DEF Handled
  <2>4. Serves(s, t, f)
    BY <1>6, <2>2, RequestsAckedServes DEF HasCallback
  <2>5. Quietly(s, t)
    BY <1>0, <2>2, RequestsAckedLess
  <2>6. Sound(t, a, f, x) /\ Fits(t)
    BY <2>5, SoundQuietly, LessFits DEF Quietly, Less
  <2> QED BY <2>3, <2>4, <2>6, HandleStatesServes, ServesOn
<1>7. CASE m.kind = "detailed"
  <2>1. PICK t : t = RequestsAcked(s, {m.about}, FALSE)
    OBVIOUS
  <2>2. PICK u : u = [t EXCEPT !.acks = @ \cup (m.ids \cap s.received),
                               !.resendReq = @ \cup (m.ids \ s.received)]
    OBVIOUS
  <2>3. Handled(s, m) = u
    BY <1>7, <2>1, <2>2 DEF Handled
  <2>4. Serves(s, t, f)
    BY <2>1, RequestsAckedServes
  <2>5. t \in Sessions
    BY <1>0, <2>1, RequestsAckedLess DEF Quietly, Less
  <2>6. t.received = s.received
    BY <2>4 DEF Serves
  <2>7. /\ u.pingMsgId = t.pingMsgId /\ u.received = t.received
        /\ u.acks = t.acks \cup (m.ids \cap s.received)
        /\ u.haveReceived = t.haveReceived /\ u.toSend = t.toSend /\ u.delayed = t.delayed
        /\ u.haveSent = t.haveSent /\ u.msgId = t.msgId /\ u.resending = t.resending
    BY <2>2, <2>5 DEF Sessions
  <2>8. Serves(t, u, f)
    BY <2>6, <2>7, AsideServes
  <2> QED BY <2>3, <2>4, <2>8, ServesOn
<1>8. CASE m.kind = "answer"
  <2>1. CASE HasCallback(SlotOf(m.about))
    <3>1. SlotOf(m.about) \in Requests /\ Tracks(s, f, SlotOf(m.about))
      BY <2>1 DEF Waiting, HasCallback
    <3>2. a \in SUBSET Requests
      OBVIOUS
    <3> QED BY <1>0, <1>8, <2>1, <3>1, <3>2, AnswerServes
  <2>2. CASE ~HasCallback(SlotOf(m.about))
    <3>1. PICK t : t = RequestsAcked(s, {m.about}, TRUE)
      OBVIOUS
    <3>2. PICK r : r = WasSent(t, m.about)
      OBVIOUS
    <3>3. PICK e : e = [kind |-> "answer", about |-> r]
      OBVIOUS
    <3>4. Handled(s, m) = IF r \in {0, Special} THEN t ELSE Receive(t, e)
      BY <1>8, <3>1, <3>2, <3>3 DEF Handled
    <3>5. Serves(s, t, f)
      BY <2>2, <3>1, RequestsAckedServes
    <3>6. Quietly(s, t)
      BY <1>0, <3>1, RequestsAckedLess
    <3>7. Sound(t, a, f, x) /\ t \in Sessions
      BY <3>6, SoundQuietly DEF Quietly, Less
    <3>8. CASE r \in {0, Special}
      BY <3>4, <3>5, <3>8
    <3>9. CASE r \notin {0, Special}
      <4>1. r \in Requests
        BY <3>2, <3>7, <3>9, WasSentIs
      <4>2. e \in Response
        BY <3>3, <4>1 DEF Response, Requests
      <4>3. Serves(t, Receive(t, e), f)
        BY <3>7, <4>2, ReceiveServes
      <4> QED BY <3>4, <3>5, <3>9, <4>3, ServesOn
    <3> QED BY <3>8, <3>9
  <2> QED BY <2>1, <2>2
<1>9. CASE m.kind = "session"
  <2>1. PICK before : before = {id \in Ids(s.haveSent) : id < m.about}
    OBVIOUS
  <2>2. PICK more : more = (s.wantSend \/ before # {})
    OBVIOUS
  <2>3. PICK t : t = [s EXCEPT !.wantSend = more]
    OBVIOUS
  <2>4. PICK u : u = ResendIds(t, before)
    OBVIOUS
  <2>5. PICK e : e = [kind |-> "update", about |-> m.id]
    OBVIOUS
  <2>6. Handled(s, m) = Receive(u, e)
    BY <1>9, <2>1, <2>2, <2>3, <2>4, <2>5 DEF Handled
  <2>7. more \in BOOLEAN
    BY <2>2
  <2>8. t \in Sessions
    BY <1>0, <2>3, <2>7, ZenonT(60) DEF Sessions
  <2>9. Quietly(s, t)
    BY <1>0, <2>3, <2>8 DEF Quietly, Less, Sessions, AllPairs
  <2>10. Serves(s, t, f)
    <3>1. /\ t.received = s.received /\ t.acks = s.acks /\ t.pingMsgId = s.pingMsgId
          /\ t.haveReceived = s.haveReceived /\ t.toSend = s.toSend /\ t.delayed = s.delayed
          /\ t.haveSent = s.haveSent /\ t.msgId = s.msgId /\ t.resending = s.resending
      BY <1>0, <2>3 DEF Sessions
    <3> QED BY <3>1, AsideServes
  <2>11. Serves(t, u, f)
    BY <2>4, <2>9, SoundQuietly, ResendIdsServes
  <2>12. u \in Sessions
    BY <2>4, <2>8, ResendIdsLess DEF Quietly, Less
  <2>13. e \in Response
    BY <1>0, <2>5 DEF Response
  <2>14. Serves(u, Receive(u, e), f)
    BY <2>12, <2>13, ReceiveServes
  <2> QED BY <2>6, <2>10, <2>11, <2>14, ServesOn
<1>10. CASE m.kind = "update"
  <2>1. PICK e : e = [kind |-> "update", about |-> m.id]
    OBVIOUS
  <2>2. Handled(s, m) = Receive(s, e)
    BY <1>10, <2>1 DEF Handled
  <2>3. e \in Response
    BY <1>0, <2>1 DEF Response
  <2> QED BY <1>0, <2>2, <2>3, ReceiveServes
<1>11. CASE m.kind = "pong"
  <2>1. Handled(s, m) = RequestsAcked(s, {m.about}, TRUE)
    BY <1>11 DEF Handled
  <2> QED BY <1>11, <2>1, RequestsAckedServes DEF HasCallback
<1> QED BY <1>0, <1>3, <1>4, <1>5, <1>6, <1>7, <1>8, <1>9, <1>10, <1>11 DEF ServerMessage

\* The requests that wait for an answer and have none.
OpenIn(s, f, w) == {r \in w : r \notin f /\ ~AnsweredIn(s, r)}

\* What is said of a batch that was handled up to some message, when K are the answers that the
\* server keeps: those that are acked have settled their requests, unless the session ends.
Served(b, s, f, last, K) ==
    /\ SlotOf(b.s.pingMsgId) = PingSlot
    /\ \A r \in Waiting : Tracks(b.s, f, r)
    /\ \A r \in Requests : AnsweredIn(s, r) => AnsweredIn(b.s, r)
    /\ \A id \in b.s.acks \cup b.s.received : id <= last
    /\ b.outcome # "reset" =>
          \A k \in K : k.id \in b.s.acks \cup b.s.received =>
             SlotOf(k.about) \notin OpenIn(b.s, f, Waiting)

\* A message of a container.
LEMMA NextIsServed ==
    ASSUME NEW b, NEW s, NEW L, NEW last, NEW a, NEW f, NEW x, NEW m, NEW K,
           a \subseteq Requests, Fine(b, s, L, last, a, f, x), Fits(s), Told(m, f, x), m.id <= last,
           m.kind \in {"pong", "states"} => SlotOf(m.about) \notin Requests,
           \A k \in K : /\ k.kind = "answer" /\ Current(k.about, SlotOf(k.about), s, f)
                        /\ k.id = m.id => m.kind = "answer" /\ m.about = k.about,
           Served(b, s, f, last, K)
    PROVE  Served(HandleNext(b, m), s, f, last, K)
<1> DEFINE acks == IF Stored(m) THEN b.s.acks \cup {m.id} ELSE b.s.acks
           t == [b.s EXCEPT !.acks = acks]
           seen == [t EXCEPT !.received = @ \cup {m.id}]
           registered == Registers(t.received, m.id)
           out == Outcome(seen, m)
<1>0. b.s \in Sessions /\ m.id \in Nat /\ b.s.acks \in SUBSET Nat /\ IsFiniteSet(b.s.received)
      /\ b.s.received \in SUBSET Nat /\ Sound(b.s, a, f, x) /\ b.s.delayed \subseteq f
      /\ b.s.msgId = s.msgId /\ AllPairs(b.s) \subseteq AllPairs(s) /\ m \in ServerMessage
  BY DEF Fine, Sound, Sessions, Told, ServerMessage, Stays
<1>1. acks \in SUBSET Nat /\ acks \subseteq b.s.acks \cup {m.id}
  BY <1>0
<1>2. HandleNext(b, m) =
        CASE b.outcome # "success" -> b
          [] OTHER -> CASE registered = "tooOld" -> [s |-> t, outcome |-> "reset"]
                        [] registered = "duplicate" -> [s |-> t, outcome |-> "success"]
                        [] OTHER -> [s |-> IF out = "ignored" THEN seen ELSE Handled(seen, m),
                                     outcome |-> out]
  BY DEF HandleNext
<1> HIDE DEF acks
<1>3. t \in Sessions
  BY <1>0, <1>1, ZenonT(60) DEF Sessions
<1>4. Quietly(b.s, t)
  BY <1>0, <1>3 DEF Quietly, Less, Sessions, AllPairs
<1>5. Sound(t, a, f, x)
  BY <1>0, <1>4, SoundQuietly
<1>6. /\ t.haveReceived = b.s.haveReceived /\ t.toSend = b.s.toSend /\ t.delayed = b.s.delayed
      /\ t.haveSent = b.s.haveSent /\ t.msgId = b.s.msgId /\ t.resending = b.s.resending
      /\ t.pingMsgId = b.s.pingMsgId /\ t.received = b.s.received /\ t.acks = acks
      /\ t.acked = b.s.acked
  BY <1>0 DEF Sessions
<1>7. registered \in {"success", "duplicate", "tooOld"}
  BY DEF Registers
<1>8. registered = "duplicate" => m.id \in t.received
  BY DEF Registers
<1>9. \A r : (AnsweredIn(t, r) <=> AnsweredIn(b.s, r)) /\ (Tracks(t, f, r) <=> Tracks(b.s, f, r))
  <2> HIDE DEF t
  <2> QED BY <1>6, AsideTracks
<1>10. PICK u : u = seen
  OBVIOUS
<1>11. /\ u.haveReceived = t.haveReceived /\ u.toSend = t.toSend /\ u.delayed = t.delayed
       /\ u.haveSent = t.haveSent /\ u.msgId = t.msgId /\ u.resending = t.resending
       /\ u.pingMsgId = t.pingMsgId /\ u.received = t.received \cup {m.id} /\ u.acks = t.acks
       /\ u.acked = t.acked /\ u \in Sessions
  <2>1. PICK w : w = t.received \cup {m.id}
    OBVIOUS
  <2>2. w \in SUBSET Nat
    BY <1>0, <1>6, <2>1
  <2>3. u = [t EXCEPT !.received = w]
    BY <1>10, <2>1
  <2> HIDE DEF t
  <2> QED BY <1>3, <2>1, <2>2, <2>3, ZenonT(60) DEF Sessions
<1>12. \A r : (AnsweredIn(u, r) <=> AnsweredIn(b.s, r)) /\ (Tracks(u, f, r) <=> Tracks(b.s, f, r))
  BY <1>9, <1>11, AsideTracks
<1>13. Sound(u, a, f, x)
  <2>1. IsFiniteSet(u.received)
    BY <1>0, <1>6, <1>11, FS_AddElement
  <2>2. AllPairs(u) = AllPairs(t)
    BY <1>11 DEF AllPairs
  <2> HIDE DEF t
  <2> QED BY <1>5, <1>11, <2>1, <2>2 DEF Sound
<1>14. Fits(u)
  <2>1. AllPairs(u) \subseteq AllPairs(s)
    BY <1>0, <1>6, <1>11 DEF AllPairs
  <2> QED BY <2>1, LessFits
<1>15. u.acks \cup u.received \subseteq b.s.acks \cup b.s.received \cup {m.id}
  BY <1>1, <1>6, <1>11
<1>16. Serves(u, Handled(u, m), f)
  BY <1>6, <1>11, <1>12, <1>13, <1>14, HandledServes DEF Served
<1>17. ASSUME NEW v, Serves(u, v, f), b.outcome # "reset",
              NEW k \in K, k.id \in v.acks \cup v.received, k.id # m.id
       PROVE  SlotOf(k.about) \notin OpenIn(v, f, Waiting)
  <2>1. k.id \in b.s.acks \cup b.s.received
    BY <1>15, <1>17 DEF Serves
  <2>2. SlotOf(k.about) \notin OpenIn(b.s, f, Waiting)
    BY <1>17, <2>1 DEF Served
  <2>3. \A r \in Waiting : AnsweredIn(b.s, r) => AnsweredIn(v, r)
    BY <1>12, <1>17 DEF Serves, Waiting
  <2> QED BY <2>2, <2>3 DEF OpenIn
<1>18. ASSUME NEW v, Serves(u, v, f)
       PROVE  /\ SlotOf(v.pingMsgId) = PingSlot
              /\ \A r \in Waiting : Tracks(v, f, r)
              /\ \A r \in Requests : AnsweredIn(s, r) => AnsweredIn(v, r)
              /\ \A id \in v.acks \cup v.received : id <= last
  <2>1. SlotOf(v.pingMsgId) = PingSlot
    BY <1>6, <1>11, <1>18, SlotOfZero DEF Serves, Served, PingSlot
  <2>2. \A r \in Waiting : Tracks(v, f, r)
    BY <1>12, <1>18 DEF Serves, Served, Waiting
  <2>3. \A r \in Requests : AnsweredIn(s, r) => AnsweredIn(v, r)
    BY <1>12, <1>18 DEF Serves, Served
  <2>4. \A id \in v.acks \cup v.received : id <= last
    BY <1>15, <1>18 DEF Serves, Served
  <2> QED BY <2>1, <2>2, <2>3, <2>4
<1>19. ASSUME NEW k \in K, k.id = m.id
       PROVE  SlotOf(k.about) \notin OpenIn(Handled(u, m), f, Waiting)
  <2> SUFFICES ASSUME SlotOf(k.about) \in Waiting, SlotOf(k.about) \notin f
               PROVE  AnsweredIn(Handled(u, m), SlotOf(k.about))
    BY DEF OpenIn
  <2>1. m.kind = "answer" /\ m.about = k.about /\ k.about = s.msgId[SlotOf(k.about)]
    BY <1>19 DEF Current
  <2>2. SlotOf(m.about) \in Requests /\ HasCallback(SlotOf(m.about)) /\ Tracks(u, f, SlotOf(m.about))
    BY <1>12, <2>1 DEF Waiting, Served
  <2>3. SlotOf(u.pingMsgId) = PingSlot /\ u.msgId = s.msgId /\ u.delayed \subseteq f
    BY <1>0, <1>6, <1>11 DEF Served
  <2>4. a \in SUBSET Requests
    OBVIOUS
  <2> QED BY <1>0, <1>13, <1>14, <2>1, <2>2, <2>3, <2>4, AnswerServes
<1>20. CASE b.outcome # "success"
  <2>1. HandleNext(b, m) = b
    BY <1>2, <1>20
  <2> QED BY <2>1
<1>21. CASE b.outcome = "success" /\ registered = "tooOld"
  <2>1. HandleNext(b, m) = [s |-> t, outcome |-> "reset"]
    BY <1>2, <1>21
  <2>2. \A id \in t.acks \cup t.received : id <= last
    BY <1>1, <1>6 DEF Served
  <2> HIDE DEF t
  <2> QED BY <1>6, <1>9, <2>1, <2>2 DEF Served
<1>22. CASE b.outcome = "success" /\ registered = "duplicate"
  <2>1. HandleNext(b, m) = [s |-> t, outcome |-> "success"]
    BY <1>2, <1>22
  <2>2. \A id \in t.acks \cup t.received : id \in b.s.acks \cup b.s.received
    BY <1>1, <1>6, <1>8, <1>22
  <2> HIDE DEF t
  <2>3. OpenIn(t, f, Waiting) = OpenIn(b.s, f, Waiting)
    BY <1>9 DEF OpenIn
  <2> QED BY <1>6, <1>9, <1>22, <2>1, <2>2, <2>3 DEF Served
<1>23. CASE b.outcome = "success" /\ registered = "success" /\ out = "ignored"
  <2>1. HandleNext(b, m) = [s |-> u, outcome |-> "ignored"]
    BY <1>2, <1>10, <1>23
  <2>2. Serves(u, u, f)
    BY AsideServes
  <2>3. m.kind = "pong"
    BY <1>23 DEF Outcome
  <2>4. \A k \in K : k.id # m.id
    BY <2>3
  <2> HIDE DEF t, seen, out, registered
  <2>5. \A k \in K : k.id \in u.acks \cup u.received => SlotOf(k.about) \notin OpenIn(u, f, Waiting)
    BY <1>17, <1>23, <2>2, <2>4
  <2> QED BY <1>18, <2>1, <2>2, <2>5 DEF Served
<1>24. CASE b.outcome = "success" /\ registered = "success" /\ out # "ignored"
  <2>1. HandleNext(b, m) = [s |-> Handled(u, m), outcome |-> out]
    BY <1>2, <1>10, <1>24
  <2> HIDE DEF t, seen, out, registered
  <2>2. \A k \in K : k.id \in Handled(u, m).acks \cup Handled(u, m).received
                        => SlotOf(k.about) \notin OpenIn(Handled(u, m), f, Waiting)
    BY <1>16, <1>17, <1>19, <1>24
  <2> QED BY <1>16, <1>18, <2>1, <2>2 DEF Served
<1> QED BY <1>7, <1>20, <1>21, <1>22, <1>23, <1>24

\* handleReceived(): a packet of messages.
LEMMA BatchIsServed ==
    ASSUME NEW s, NEW L \in SUBSET Nat, NEW last \in Nat, NEW a, NEW f, NEW x, NEW K,
           NEW batch, Len(batch) \in Nat \ {0}, a \subseteq Requests,
           Sound(s, a, f, x), Once(s, L, last), Fits(s),
           SlotOf(s.pingMsgId) = PingSlot, \A r \in Waiting : Tracks(s, f, r),
           \A id \in s.acks \cup s.received : id <= last,
           \A i \in 1..Len(batch) :
              /\ Told(batch[i], f, x) /\ batch[i].id <= last
              /\ batch[i].kind \in {"update", "session"} => batch[i].id \in L
              /\ batch[i].kind \in {"pong", "states"} => SlotOf(batch[i].about) \notin Requests,
           \A k \in K :
              /\ k.kind = "answer" /\ Current(k.about, SlotOf(k.about), s, f)
              /\ k.id \in s.acks \cup s.received => SlotOf(k.about) \notin OpenIn(s, f, Waiting)
              /\ \A i \in 1..Len(batch) :
                    k.id = batch[i].id => batch[i].kind = "answer" /\ batch[i].about = k.about
    PROVE  Served(HandledBatch(s, batch), s, f, last, K)
<1> DEFINE start == IF batch[1].salt = s.salt THEN s ELSE SaltKnown(s, batch[1].salt)
           n == Len(batch)
<1>1. PICK g : /\ g[0] = [s |-> start, outcome |-> "success"]
               /\ g[n] = HandledBatch(s, batch)
               /\ \A i \in 1..n : g[i] = HandleNext(g[i - 1], batch[i])
  BY BatchRuns
<1>2. Quietly(s, start) /\ Serves(s, start, f)
  <2>1. s \in Sessions /\ batch[1].salt \in Nat
    BY DEF Sound, Told, ServerMessage
  <2>2. Quietly(s, SaltKnown(s, batch[1].salt)) /\ Serves(s, SaltKnown(s, batch[1].salt), f)
    BY <2>1, SaltKnownLess, SaltKnownServes
  <2>3. Quietly(s, s) /\ Serves(s, s, f)
    BY <2>1, AsideServes DEF Quietly, Less
  <2> QED BY <2>2, <2>3
<1> HIDE DEF start
<1> DEFINE T == {i \in 0..n : Fine(g[i], s, L, last, a, f, x) /\ Served(g[i], s, f, last, K)}
<1>3. 0 \in T
  <2>1. Sound(start, a, f, x) /\ Stays(s, start)
    BY <1>2, SoundQuietly, LessStays DEF Quietly
  <2>2. Once(start, L, last)
    BY <1>2 DEF Once, Quietly, Less, TakenBy, Apart
  <2>3. PICK b : b = g[0]
    OBVIOUS
  <2>4. b.s = start /\ b.outcome = "success"
    BY <1>1, <2>3
  <2>5. /\ SlotOf(start.pingMsgId) = PingSlot
        /\ \A r \in Waiting : Tracks(start, f, r)
        /\ \A r \in Requests : AnsweredIn(s, r) => AnsweredIn(start, r)
        /\ start.acks \cup start.received \subseteq s.acks \cup s.received
    BY <1>2, SlotOfZero DEF Serves, Waiting, PingSlot
  <2>6. OpenIn(start, f, Waiting) \subseteq OpenIn(s, f, Waiting)
    BY <2>5 DEF OpenIn, Waiting
  <2>7. Served(b, s, f, last, K)
    BY <2>4, <2>5, <2>6 DEF Served
  <2>8. Fine(b, s, L, last, a, f, x)
    BY <2>1, <2>2, <2>4 DEF Fine
  <2> QED BY <2>3, <2>7, <2>8
<1>4. ASSUME NEW i \in 0..n, i \in T, i < n PROVE i + 1 \in T
  <2>1. i + 1 \in 1..n /\ (i + 1) - 1 = i
    BY <1>4
  <2>2. PICK b, m : b = g[i] /\ m = batch[i + 1]
    OBVIOUS
  <2>3. g[i + 1] = HandleNext(b, m)
    BY <1>1, <2>1, <2>2
  <2>4. Fine(b, s, L, last, a, f, x) /\ Served(b, s, f, last, K)
    BY <1>4, <2>2
  <2>5. /\ Told(m, f, x) /\ m.id <= last
        /\ m.kind \in {"update", "session"} => m.id \in L
        /\ m.kind \in {"pong", "states"} => SlotOf(m.about) \notin Requests
        /\ \A k \in K : k.id = m.id => m.kind = "answer" /\ m.about = k.about
    BY <2>1, <2>2
  <2>6. Fine(HandleNext(b, m), s, L, last, a, f, x)
    BY <2>4, <2>5, NextIsFine
  <2>7. Served(HandleNext(b, m), s, f, last, K)
    BY <2>4, <2>5, NextIsServed
  <2> QED BY <2>1, <2>3, <2>6, <2>7
<1> HIDE DEF T
<1>5. \A i \in 0..n : i \in T
  BY <1>3, <1>4, Upwards
<1> QED BY <1>1, <1>5 DEF T

-----------------------------------------------------------------------------
(* What the server keeps of the answers, when the client has acked the ids *)
(* in A, or will, and the requests in P have no answer yet.                *)

Keeps(v, d, A, P) ==
    /\ \A m, k \in v.stored \cup Range(d) : m.id = k.id => m.kind = k.kind /\ m.about = k.about
    /\ \A m \in v.stored \cup Range(d) : m.kind \in {"pong", "states"} => SlotOf(m.about) \notin Requests
    /\ \A id \in A : id <= v.last
    /\ v.pending \subseteq Ids(v.ran)
    /\ \A m \in v.stored : m.kind = "answer" =>
          m.about \in Ids(v.ran) /\ (m.id \in A => SlotOf(m.about) \notin P)
    /\ \A p \in v.ran : p[2] \in P =>
          p[1] \in v.pending \/ \E m \in v.stored : m.kind = "answer" /\ m.about = p[1]

\* The service messages of a packet are not about requests.
Serving(p) == \A m \in p.messages : m.kind \in {"ping", "state"} => SlotOf(m.id) \notin Requests

\* The requests whose answer the server has to keep.
OpenAt(s, v, w) == IF v.session = s.number THEN OpenIn(s, v.refused, w) ELSE {}

Keeping ==
    /\ Waits(session, server.refused, Waiting)
    /\ \A p \in Range(up) : Serving(p)
    /\ Keeps(server, down, AcksToTell, OpenAt(session, server, Waiting))

\* The invariant, said of the two ends.
LEMMA RequestInvariantIs ==
    ASSUME Holds
    PROVE  RequestInvariant <=> Keeping
<1>1. \A r : AnsweredIn(session, r) <=> Answered(r)
  BY DEF AnsweredIn, Answered
<1>2. session.delayed \subseteq server.refused
  BY SessionIs DEF Sound
<1>3. \A r \in Requests : r \in OpenIn(session, server.refused, Waiting) <=> ~Settled(r)
  BY <1>1 DEF OpenIn, Settled, Waiting
<1>4. \A m \in server.stored : m.kind = "answer" => SlotOf(m.about) \in Requests
  <2>1. \A m \in server.stored : m.kind = "answer" => SlotOf(m.about) \in server.executed
    BY HereIs DEF ServerFine, Told
  <2> QED BY <2>1, SessionIs DEF Servers
<1>5. \A p \in server.ran : p[2] \in Requests
  BY SessionIs, HereIs DEF ServerFine
<1>6. ASSUME RequestInvariant PROVE Keeping
  <2>1. Waits(session, server.refused, Waiting)
    <3>1. IsFiniteSet(AllPairs(session)) /\ SlotOf(session.pingMsgId) = PingSlot
      BY <1>6 DEF RequestInvariant, ServiceTells
    <3>2. ASSUME NEW r \in Waiting PROVE Tracks(session, server.refused, r)
      <4>1. r \in Requests /\ HasCallback(r)
        BY DEF Waiting
      <4>2. r \in session.toSend \cup session.delayed \cup Owners(session.haveSent) \/ Answered(r)
        BY <1>6, <4>1 DEF RequestInvariant, NoRequestLost
      <4>3. ASSUME r \in session.toSend, r \notin server.refused, ~Answered(r), session.msgId[r] # 0
            PROVE  <<session.msgId[r], r>> \in session.resending
        BY <1>6, <4>1, <4>3 DEF RequestInvariant, AnswersSettle, Settled
      <4> QED BY <1>1, <4>2, <4>3 DEF Tracks
    <3> QED BY <3>1, <3>2 DEF Waits
  <2>2. \A p \in Range(up) : Serving(p)
    BY <1>6 DEF RequestInvariant, ServiceTells, Serving
  <2>3. Keeps(server, down, AcksToTell, OpenAt(session, server, Waiting))
    <3>1. \A m, k \in server.stored \cup Range(down) :
             m.id = k.id => m.kind = k.kind /\ m.about = k.about
      BY <1>6 DEF RequestInvariant, AnswersSettle, OnTheWay
    <3>2. /\ \A m \in server.stored \cup Range(down) :
             m.kind \in {"pong", "states"} => SlotOf(m.about) \notin Requests
          /\ \A id \in AcksToTell : id <= server.last
          /\ server.pending \subseteq Ids(server.ran)
      BY <1>6 DEF RequestInvariant, AnswersSettle, ServiceTells, OnTheWay
    <3>3. \A m \in server.stored : m.kind = "answer" =>
             m.about \in Ids(server.ran)
             /\ (m.id \in AcksToTell => SlotOf(m.about) \notin OpenAt(session, server, Waiting))
      BY <1>3, <1>4, <1>6 DEF RequestInvariant, AnswersSettle, OpenAt
    <3>4. ASSUME NEW p \in server.ran, p[2] \in OpenAt(session, server, Waiting)
          PROVE  \/ p[1] \in server.pending
                 \/ \E m \in server.stored : m.kind = "answer" /\ m.about = p[1]
      <4>1. /\ server.session = session.number /\ HasCallback(p[2])
            /\ p[2] \notin server.refused /\ ~Answered(p[2])
        BY <1>1, <3>4 DEF OpenAt, OpenIn, Waiting
      <4> QED BY <1>2, <1>6, <4>1 DEF RequestInvariant, AnswerKept
    <3> QED BY <3>1, <3>2, <3>3, <3>4 DEF Keeps
  <2> QED BY <2>1, <2>2, <2>3 DEF Keeping
<1>7. ASSUME Keeping PROVE RequestInvariant
  <2>1. \A r \in Waiting : Tracks(session, server.refused, r)
    BY <1>7 DEF Keeping, Waits
  <2>2. ServiceTells /\ IsFiniteSet(AllPairs(session))
    BY <1>7 DEF Keeping, Waits, Serving, ServiceTells, Keeps, OnTheWay
  <2>3. NoRequestLost
    BY <1>1, <2>1 DEF NoRequestLost, Tracks, Waiting
  <2>4. AnswersSettle
    <3>1. \A m, k \in OnTheWay : m.id = k.id => m.kind = k.kind /\ m.about = k.about
      BY <1>7 DEF Keeping, Keeps, OnTheWay
    <3>2. /\ \A id \in AcksToTell : id <= server.last
          /\ server.pending \subseteq Ids(server.ran)
          /\ \A m \in server.stored : m.kind = "answer" => m.about \in Ids(server.ran)
      BY <1>7 DEF Keeping, Keeps
    <3>3. server.session = session.number =>
             \A m \in server.stored :
                m.kind = "answer" /\ m.id \in AcksToTell => Settled(SlotOf(m.about))
      BY <1>3, <1>4, <1>7 DEF Keeping, Keeps, OpenAt
    <3>4. \A r \in session.toSend : ~Settled(r) /\ session.msgId[r] # 0 =>
             <<session.msgId[r], r>> \in session.resending
      <4>1. session.toSend \subseteq Requests
        BY SessionIs DEF Sessions
      <4> QED BY <1>1, <2>1, <4>1 DEF Tracks, Waiting, Settled
    <3> QED BY <3>1, <3>2, <3>3, <3>4 DEF AnswersSettle
  <2>5. AnswerKept
    <3> SUFFICES ASSUME server.session = session.number, NEW p \in server.ran,
                        HasCallback(p[2]), p[2] \notin server.refused, ~Answered(p[2])
                 PROVE  \/ p[1] \in server.pending
                        \/ \E m \in server.stored : m.kind = "answer" /\ m.about = p[1]
      BY DEF AnswerKept
    <3>1. p[2] \in OpenAt(session, server, Waiting)
      BY <1>1, <1>5 DEF OpenAt, OpenIn, Waiting
    <3> QED BY <1>7, <3>1 DEF Keeping, Keeps
  <2> QED BY <2>2, <2>3, <2>4, <2>5 DEF RequestInvariant
<1> QED BY <1>6, <1>7

\* Less is to be kept when less is acked and less waits.
LEMMA KeepsLess ==
    ASSUME NEW v, NEW d, NEW c, NEW A, NEW B, NEW P, NEW Q, Keeps(v, d, A, P),
           Range(c) \subseteq Range(d), B \subseteq A, Q \subseteq P
    PROVE  Keeps(v, c, B, Q)
BY DEF Keeps

\* Only the client moves, and no more is acked than before.
LEMMA ClientKeeps ==
    ASSUME Keeping, UNCHANGED <<up, down, server>>,
           Waits(session', server.refused, Waiting'), session'.number = session.number,
           session'.acks \cup session'.received \subseteq session.acks \cup session.received,
           OpenIn(session', server.refused, Waiting') \subseteq OpenIn(session, server.refused, Waiting)
    PROVE  Keeping'
<1>1. AcksToTell' \subseteq AcksToTell
  BY DEF AcksToTell
<1>2. OpenAt(session', server, Waiting') \subseteq OpenAt(session, server, Waiting)
  BY DEF OpenAt
<1>3. Keeps(server, down, AcksToTell', OpenAt(session', server, Waiting'))
  BY <1>1, <1>2, KeepsLess DEF Keeping
<1> QED BY <1>3 DEF Keeping

\* The requests that wait are the same while no callback changes.
LEMMA WaitingIs ==
    ASSUME UNCHANGED callback
    PROVE  Waiting' = Waiting
BY DEF Waiting, HasCallback

\* A step that serves the requests leaves them where they can be found.
LEMMA ServedWaits ==
    ASSUME NEW s, NEW t, NEW f, Waits(s, f, Waiting), Serves(s, t, f), AllPairs(t) \subseteq AllPairs(s)
    PROVE  Waits(t, f, Waiting) /\ OpenIn(t, f, Waiting) \subseteq OpenIn(s, f, Waiting)
<1>1. IsFiniteSet(AllPairs(t))
  BY FS_Subset DEF Waits
<1>2. SlotOf(t.pingMsgId) = PingSlot
  BY SlotOfZero DEF Waits, Serves, PingSlot
<1>3. \A r \in Waiting : Tracks(t, f, r)
  BY DEF Waits, Serves, Waiting
<1>4. OpenIn(t, f, Waiting) \subseteq OpenIn(s, f, Waiting)
  BY DEF OpenIn, Serves, Waiting
<1> QED BY <1>1, <1>2, <1>3, <1>4 DEF Waits

\* Only the client moves, and serves the requests.
LEMMA ServingStep ==
    ASSUME Keeping, UNCHANGED <<callback, up, down, server>>,
           Serves(session, session', server.refused), session'.number = session.number,
           AllPairs(session') \subseteq AllPairs(session)
    PROVE  Keeping'
<1>1. Waiting' = Waiting
  BY WaitingIs
<1>2. /\ Waits(session', server.refused, Waiting)
      /\ OpenIn(session', server.refused, Waiting) \subseteq OpenIn(session, server.refused, Waiting)
  BY ServedWaits DEF Keeping
<1>3. session'.acks \cup session'.received \subseteq session.acks \cup session.received
  BY DEF Serves
<1> QED BY <1>1, <1>2, <1>3, ClientKeeps

-----------------------------------------------------------------------------
(* The steps of the client                                                 *)

\* tryToSend(), when there is nothing to send.
LEMMA TryInVainKeeps ==
    ASSUME Holds, Keeping, TryInVain
    PROVE  Keeping'
<1>1. session' = [session EXCEPT !.wantSend = FALSE,
                    !.started = session.started \/ session.state = "connected"]
      /\ UNCHANGED <<callback, up, down, server>> /\ session \in Sessions
  BY SessionIs DEF TryInVain
<1>2. /\ session'.received = session.received /\ session'.acks = session.acks
      /\ session'.pingMsgId = session.pingMsgId /\ session'.haveReceived = session.haveReceived
      /\ session'.toSend = session.toSend /\ session'.delayed = session.delayed
      /\ session'.haveSent = session.haveSent /\ session'.msgId = session.msgId
      /\ session'.resending = session.resending /\ session'.acked = session.acked
      /\ session'.number = session.number
  BY <1>1 DEF Sessions
<1>3. Serves(session, session', server.refused) /\ AllPairs(session') = AllPairs(session)
  BY <1>2, AsideServes DEF AllPairs
<1> QED BY <1>1, <1>2, <1>3, ServingStep

\* clearOldContainers().
LEMMA ClearOldContainerKeeps ==
    ASSUME Holds, Keeping, ClearOldContainer
    PROVE  Keeping'
<1>1. PICK box \in session.containers : session' = Cleared(session, box)
  BY DEF ClearOldContainer
<1>2. PICK t : t = ResendIds(session, box.ids)
  OBVIOUS
<1>3. Quietly(session, t) /\ Serves(session, t, server.refused)
  BY <1>2, ResendIdsLess, ResendIdsServes, SessionIs
<1>4. t \in Sessions /\ AllPairs(t) \subseteq AllPairs(session) /\ t.number = session.number
  BY <1>3 DEF Quietly, Less
<1>5. session' = [t EXCEPT !.containers = @ \ {box}, !.wantSend = @ \/ box.ids # {}]
  BY <1>1, <1>2 DEF Cleared
<1>6. /\ session'.received = t.received /\ session'.acks = t.acks
      /\ session'.pingMsgId = t.pingMsgId /\ session'.haveReceived = t.haveReceived
      /\ session'.toSend = t.toSend /\ session'.delayed = t.delayed
      /\ session'.haveSent = t.haveSent /\ session'.msgId = t.msgId
      /\ session'.resending = t.resending /\ session'.acked = t.acked
      /\ session'.number = t.number
  BY <1>4, <1>5 DEF Sessions
<1>7. Serves(t, session', server.refused) /\ AllPairs(session') = AllPairs(t)
  BY <1>6, AsideServes DEF AllPairs
<1>8. Serves(session, session', server.refused)
  BY <1>3, <1>7, ServesOn
<1> QED BY <1>4, <1>6, <1>7, <1>8, ServingStep DEF ClearOldContainer

\* authKeyChecked(): the connection is there.
LEMMA ConnectKeeps ==
    ASSUME Holds, Keeping, Connect
    PROVE  Keeping'
<1>0. session \in Sessions /\ UNCHANGED <<callback, up, down, server>>
  BY SessionIs DEF Connect
<1>1. PICK fresh : fresh = [session EXCEPT !.pingMsgId = 0, !.pingToSend = TRUE, !.wantSend = TRUE]
  OBVIOUS
<1>2. PICK t : t = [fresh EXCEPT !.state = IF session.salt = NoSalt THEN "connecting" ELSE "connected"]
  OBVIOUS
<1>3. session' = IF session.salt = NoSalt THEN t ELSE ResendAll(t)
  BY <1>1, <1>2 DEF Connect
<1>4. /\ t.received = session.received /\ t.acks = session.acks
      /\ t.pingMsgId = 0 /\ t.haveReceived = session.haveReceived
      /\ t.toSend = session.toSend /\ t.delayed = session.delayed
      /\ t.haveSent = session.haveSent /\ t.msgId = session.msgId
      /\ t.resending = session.resending /\ t.acked = session.acked
      /\ t.number = session.number
  BY <1>0, <1>1, <1>2 DEF Sessions
<1>5. fresh \in Sessions
  BY <1>0, <1>1, ZenonT(60) DEF Sessions
<1>6. t \in Sessions
  <2>1. PICK st : st = IF session.salt = NoSalt THEN "connecting" ELSE "connected"
    OBVIOUS
  <2>2. st \in {"disconnected", "connecting", "connected", "stopped"}
    BY <2>1
  <2>3. t = [fresh EXCEPT !.state = st]
    BY <1>2, <2>1
  <2> QED BY <1>5, <2>2, <2>3, ZenonT(60) DEF Sessions
<1>7. Serves(session, t, server.refused) /\ AllPairs(t) = AllPairs(session)
  BY <1>4, AsideServes DEF AllPairs
<1>8. CASE session.salt = NoSalt
  BY <1>0, <1>3, <1>4, <1>7, <1>8, ServingStep
<1>9. CASE session.salt # NoSalt
  <2>1. session' = ResendAll(t)
    BY <1>3, <1>9
  <2>2. Sound(t, Asked, server.refused, server.executed)
    BY <1>4, <1>6, <1>7, SessionIs DEF Sound
  <2>3. Quietly(t, session')
    BY <1>6, <2>1, ResendAllLess
  <2>4. Serves(t, session', server.refused)
    BY <2>1, <2>2, ResendAllServes
  <2>5. Serves(session, session', server.refused)
    BY <1>7, <2>4, ServesOn
  <2>6. AllPairs(session') \subseteq AllPairs(session) /\ session'.number = session.number
    BY <1>4, <1>7, <2>3 DEF Quietly, Less
  <2> QED BY <1>0, <2>5, <2>6, ServingStep
<1> QED BY <1>8, <1>9

\* needToResumeAndSend().
LEMMA ResumeKeeps ==
    ASSUME Holds, Keeping, Resume
    PROVE  Keeping'
<1>1. session' = [session EXCEPT !.state = "disconnected"]
      /\ UNCHANGED <<callback, up, down, server>> /\ session \in Sessions
  BY SessionIs DEF Resume, Disconnected
<1>2. /\ session'.received = session.received /\ session'.acks = session.acks
      /\ session'.pingMsgId = session.pingMsgId /\ session'.haveReceived = session.haveReceived
      /\ session'.toSend = session.toSend /\ session'.delayed = session.delayed
      /\ session'.haveSent = session.haveSent /\ session'.msgId = session.msgId
      /\ session'.resending = session.resending /\ session'.acked = session.acked
      /\ session'.number = session.number
  BY <1>1 DEF Sessions
<1>3. Serves(session, session', server.refused) /\ AllPairs(session') = AllPairs(session)
  BY <1>2, AsideServes DEF AllPairs
<1> QED BY <1>1, <1>2, <1>3, ServingStep

\* checkSentRequests().
LEMMA CheckSentRequestsKeeps ==
    ASSUME Holds, Keeping, CheckSentRequests
    PROVE  Keeping'
<1>1. PICK old : session' = [session EXCEPT !.stateReq = @ \cup old,
                               !.wantSend = @ \/ ~(old \subseteq session.stateReq),
                               !.checkTimer = old # Ids(session.haveSent)]
  BY DEF CheckSentRequests
<1>2. session \in Sessions /\ UNCHANGED <<callback, up, down, server>>
  BY SessionIs DEF CheckSentRequests
<1>3. /\ session'.received = session.received /\ session'.acks = session.acks
      /\ session'.pingMsgId = session.pingMsgId /\ session'.haveReceived = session.haveReceived
      /\ session'.toSend = session.toSend /\ session'.delayed = session.delayed
      /\ session'.haveSent = session.haveSent /\ session'.msgId = session.msgId
      /\ session'.resending = session.resending /\ session'.acked = session.acked
      /\ session'.number = session.number
  BY <1>1, <1>2 DEF Sessions
<1>4. Serves(session, session', server.refused) /\ AllPairs(session') = AllPairs(session)
  BY <1>3, AsideServes DEF AllPairs
<1> QED BY <1>2, <1>3, <1>4, ServingStep, SMTT(30)

\* cancel(), in the Instance and in the Session: it ends no other request.
LEMMA CancelKeeps ==
    ASSUME Holds, Keeping, NEW r \in Requests, Cancel(r)
    PROVE  Keeping'
<1>0. session \in Sessions /\ callback \in [Requests -> {"none", "waiting", "called", "cancelled"}]
      /\ UNCHANGED <<up, down, server>>
  BY SessionIs DEF Cancel
<1>1. PICK sent : sent = {p \in session.haveSent : p[1] # session.msgId[r]}
  OBVIOUS
<1>2. session' = [session EXCEPT !.toSend = session.toSend \ {r}, !.delayed = session.delayed \ {r},
                                 !.haveSent = sent]
  BY <1>1 DEF Cancel
<1>3. /\ session'.received = session.received /\ session'.acks = session.acks
      /\ session'.pingMsgId = session.pingMsgId /\ session'.haveReceived = session.haveReceived
      /\ session'.toSend = session.toSend \ {r} /\ session'.delayed = session.delayed \ {r}
      /\ session'.haveSent = sent /\ session'.msgId = session.msgId
      /\ session'.resending = session.resending /\ session'.acked = session.acked
      /\ session'.number = session.number
  BY <1>0, <1>2 DEF Sessions
<1>4. Waiting' \subseteq Waiting \ {r}
  BY <1>0 DEF Waiting, HasCallback, Cancel
<1>5. \A q : AnsweredIn(session', q) <=> AnsweredIn(session, q)
  BY <1>3 DEF AnsweredIn
<1>6. ASSUME NEW q \in Waiting, q # r PROVE Tracks(session', server.refused, q)
  <2>1. Tracks(session, server.refused, q) /\ q \in Requests
    BY DEF Keeping, Waits, Waiting
  <2>2. q \in Owners(session.haveSent) => q \in Owners(sent)
    <3> SUFFICES ASSUME NEW p \in session.haveSent, p[2] = q PROVE p \in sent
      BY DEF Owners
    <3>1. SlotOf(p[1]) = q
      BY SessionIs DEF Sound, AllPairs
    <3>2. SlotOf(session.msgId[r]) \in {0, r}
      BY SessionIs, SlotOfZero DEF Sound
    <3>3. q # 0
      BY <2>1 DEF Requests
    <3> QED BY <1>1, <1>6, <3>1, <3>2, <3>3
  <2> QED BY <1>3, <1>5, <1>6, <2>1, <2>2 DEF Tracks
<1>7. AllPairs(session') \subseteq AllPairs(session)
  BY <1>1, <1>3 DEF AllPairs
<1>8. Waits(session', server.refused, Waiting')
  <2>1. IsFiniteSet(AllPairs(session'))
    BY <1>7, FS_Subset DEF Keeping, Waits
  <2> QED BY <1>3, <1>4, <1>6, <2>1 DEF Keeping, Waits
<1>9. OpenIn(session', server.refused, Waiting') \subseteq OpenIn(session, server.refused, Waiting)
  BY <1>4, <1>5 DEF OpenIn
<1> QED BY <1>0, <1>3, <1>8, <1>9, ClientKeeps

\* sendPrepared(), of a request that was refused or has no callback yet.
LEMMA SendPreparedWaits ==
    ASSUME NEW s \in Sessions, NEW f, NEW w, NEW r \in Requests, NEW t, t = SendPrepared(s, r),
           IsFiniteSet(AllPairs(s)), SlotOf(s.pingMsgId) = PingSlot,
           \A q \in w \ {r} : Tracks(s, f, q), w \subseteq Requests
    PROVE  /\ Waits(t, f, w) /\ \A q : AnsweredIn(t, q) <=> AnsweredIn(s, q)
           /\ t.acks = s.acks /\ t.received = s.received /\ t.number = s.number
<1>1. PICK ids : ids = [s.msgId EXCEPT ![r] = 0]
  OBVIOUS
<1>2. ids[r] = 0 /\ \A q \in Requests \ {r} : ids[q] = s.msgId[q]
  BY <1>1 DEF Sessions
<1>3. t = [s EXCEPT !.toSend = s.toSend \cup {r}, !.msgId = ids, !.wantSend = TRUE]
  BY <1>1 DEF SendPrepared
<1>4. /\ t.toSend = s.toSend \cup {r} /\ t.msgId = ids /\ t.haveSent = s.haveSent
      /\ t.resending = s.resending /\ t.acked = s.acked /\ t.number = s.number
      /\ t.received = s.received /\ t.acks = s.acks /\ t.pingMsgId = s.pingMsgId
      /\ t.haveReceived = s.haveReceived /\ t.delayed = s.delayed
  BY <1>3 DEF Sessions
<1>5. \A q : AnsweredIn(t, q) <=> AnsweredIn(s, q)
  BY <1>4 DEF AnsweredIn
<1>6. Tracks(t, f, r)
  BY <1>2, <1>4 DEF Tracks
<1>7. \A q \in w \ {r} : Tracks(t, f, q)
  BY <1>2, <1>4, <1>5 DEF Tracks
<1>8. AllPairs(t) = AllPairs(s)
  BY <1>4 DEF AllPairs
<1> QED BY <1>4, <1>5, <1>6, <1>7, <1>8 DEF Waits

\* sendRequest(): the server does not know the request.
LEMMA SendRequestKeeps ==
    ASSUME Holds, Keeping, NEW r \in Requests, SendRequest(r)
    PROVE  Keeping'
<1>1. callback[r] = "none" /\ session' = SendPrepared(session, r) /\ session \in Sessions
      /\ callback' = [callback EXCEPT ![r] = "waiting"] /\ UNCHANGED <<up, down, server>>
      /\ callback \in [Requests -> {"none", "waiting", "called", "cancelled"}]
  BY SessionIs DEF SendRequest
<1>2. Waiting' = Waiting \cup {r} /\ r \notin Asked
  BY <1>1 DEF Waiting, HasCallback, Asked
<1>3. /\ Waits(session', server.refused, Waiting')
      /\ \A q : AnsweredIn(session', q) <=> AnsweredIn(session, q)
      /\ session'.acks = session.acks /\ session'.received = session.received
      /\ session'.number = session.number
  <2>1. IsFiniteSet(AllPairs(session)) /\ SlotOf(session.pingMsgId) = PingSlot
        /\ \A q \in Waiting' \ {r} : Tracks(session, server.refused, q)
    BY <1>2 DEF Keeping, Waits
  <2>2. Waiting' \subseteq Requests
    BY <1>2 DEF Waiting
  <2>3. PICK w, t : w = Waiting' /\ t = session'
    OBVIOUS
  <2> QED BY <1>1, <2>1, <2>2, <2>3, SendPreparedWaits
<1>4. AcksToTell' = AcksToTell
  BY <1>1, <1>3 DEF AcksToTell
<1>5. OpenAt(session', server, Waiting') \subseteq OpenAt(session, server, Waiting) \cup {r}
  BY <1>2, <1>3 DEF OpenAt, OpenIn
<1>6. Keeps(server, down, AcksToTell, OpenAt(session', server, Waiting'))
  <2>1. Keeps(server, down, AcksToTell, OpenAt(session, server, Waiting))
    BY DEF Keeping
  <2>2. \A m \in server.stored : m.kind = "answer" => SlotOf(m.about) # r
    <3>1. \A m \in server.stored : m.kind = "answer" => SlotOf(m.about) \in Asked
      BY HereIs DEF ServerFine, Told
    <3> QED BY <1>2, <3>1
  <2>3. \A p \in server.ran : p[2] # r
    BY <1>2, HereIs DEF ServerFine
  <2> QED BY <1>5, <2>1, <2>2, <2>3 DEF Keeps
<1> QED BY <1>1, <1>3, <1>4, <1>6 DEF Keeping

\* checkDelayedRequests(): a request that was refused is sent once more.
LEMMA RetryKeeps ==
    ASSUME Holds, Keeping, Retry
    PROVE  Keeping'
<1>1. PICK r \in session.delayed :
         session' = SendPrepared([session EXCEPT !.delayed = @ \ {r}], r)
  BY DEF Retry
<1>2. PICK t : t = [session EXCEPT !.delayed = session.delayed \ {r}]
  OBVIOUS
<1>3. session \in Sessions /\ r \in Requests /\ UNCHANGED <<callback, up, down, server>>
  BY SessionIs DEF Sessions, Retry
<1>4. t \in Sessions
  BY <1>2, <1>3, ZenonT(60) DEF Sessions
<1>5. /\ t.received = session.received /\ t.acks = session.acks
      /\ t.pingMsgId = session.pingMsgId /\ t.haveReceived = session.haveReceived
      /\ t.toSend = session.toSend /\ t.delayed = session.delayed \ {r}
      /\ t.haveSent = session.haveSent /\ t.msgId = session.msgId
      /\ t.resending = session.resending /\ t.acked = session.acked
      /\ t.number = session.number
  BY <1>2, <1>3 DEF Sessions
<1>6. \A q : AnsweredIn(t, q) <=> AnsweredIn(session, q)
  BY <1>5 DEF AnsweredIn
<1>7. \A q \in Waiting \ {r} : Tracks(t, server.refused, q)
  BY <1>5, <1>6 DEF Keeping, Waits, Tracks
<1>8. IsFiniteSet(AllPairs(t)) /\ SlotOf(t.pingMsgId) = PingSlot /\ Waiting \subseteq Requests
  BY <1>5 DEF Keeping, Waits, AllPairs, Waiting
<1>9. PICK u : u = SendPrepared(t, r)
  OBVIOUS
<1>10. /\ Waits(u, server.refused, Waiting) /\ \A q : AnsweredIn(u, q) <=> AnsweredIn(t, q)
       /\ u.acks = t.acks /\ u.received = t.received /\ u.number = t.number
  <2>1. PICK w, f : w = Waiting /\ f = server.refused
    OBVIOUS
  <2>2. /\ t \in Sessions /\ r \in Requests /\ u = SendPrepared(t, r)
        /\ IsFiniteSet(AllPairs(t)) /\ SlotOf(t.pingMsgId) = PingSlot
        /\ (\A q \in w \ {r} : Tracks(t, f, q)) /\ w \subseteq Requests
    BY <1>3, <1>4, <1>7, <1>8, <1>9, <2>1
  <2>3. /\ Waits(u, f, w) /\ \A q : AnsweredIn(u, q) <=> AnsweredIn(t, q)
        /\ u.acks = t.acks /\ u.received = t.received /\ u.number = t.number
    BY <2>2, SendPreparedWaits
  <2> QED BY <2>1, <2>3
<1>11. session' = u
  BY <1>1, <1>2, <1>9
<1>12. Waiting' = Waiting
  BY <1>3, WaitingIs
<1>13. OpenIn(session', server.refused, Waiting) \subseteq OpenIn(session, server.refused, Waiting)
  BY <1>6, <1>10, <1>11 DEF OpenIn
<1> QED BY <1>3, <1>5, <1>10, <1>11, <1>12, <1>13, ClientKeeps

\* tryToReceive(): a request that was answered does not wait any more, and one that was refused
\* is sent again.
LEMMA DeliverKeeps ==
    ASSUME Holds, Keeping, Deliver
    PROVE  Keeping'
<1>1. PICK q, m : q = session.haveReceived /\ m = Head(session.haveReceived)
  OBVIOUS
<1>2. session \in Sessions /\ q \in Seq(Response) /\ q # <<>>
      /\ UNCHANGED <<up, down, server>>
  BY <1>1, SessionIs DEF Deliver, Sessions
<1>3. m \in Response /\ m \in Range(q) /\ Range(q) \subseteq {m} \cup Range(Tail(q))
  <2>1. /\ m \in Response /\ m \in Range(q) /\ m = q[1]
        /\ DOMAIN q = 1..Len(q) /\ DOMAIN Tail(q) = 1..(Len(q) - 1) /\ Len(q) \in Nat \ {0}
        /\ \A i \in DOMAIN Tail(q) : Tail(q)[i] = q[i + 1]
    BY <1>1, <1>2, RangeOfTail
  <2>2. ASSUME NEW i \in DOMAIN q PROVE q[i] \in {m} \cup Range(Tail(q))
    <3>1. CASE i = 1
      BY <2>1, <3>1
    <3>2. CASE i # 1
      <4>1. i - 1 \in DOMAIN Tail(q) /\ (i - 1) + 1 = i
        BY <2>1, <3>2
      <4>2. Tail(q)[i - 1] = q[i]
        BY <2>1, <4>1
      <4> QED BY <4>1, <4>2 DEF Range
    <3> QED BY <3>1, <3>2
  <2> QED BY <2>1, <2>2 DEF Range
<1>4. m.kind = "error" /\ m.about \in Requests => m.about \in server.refused
  BY <1>1, <1>3, SessionIs, SMTT(30) DEF Sound
<1>5. PICK handled, delayed :
         /\ session' = [session EXCEPT !.haveReceived = Tail(q), !.handled = handled,
                                       !.delayed = delayed]
         /\ delayed = IF m.kind = "error" /\ HasCallback(m.about)
                      THEN session.delayed \cup {m.about} ELSE session.delayed
         /\ callback' = IF m.kind = "answer" /\ HasCallback(m.about)
                        THEN [callback EXCEPT ![m.about] = "called"] ELSE callback
  BY <1>1, DeliverIs
<1>6. /\ session'.received = session.received /\ session'.acks = session.acks
      /\ session'.pingMsgId = session.pingMsgId /\ session'.haveReceived = Tail(q)
      /\ session'.toSend = session.toSend /\ session'.delayed = delayed
      /\ session'.haveSent = session.haveSent /\ session'.msgId = session.msgId
      /\ session'.resending = session.resending /\ session'.acked = session.acked
      /\ session'.number = session.number
  BY <1>2, <1>5 DEF Sessions
<1>7. ASSUME NEW r \in Waiting'
      PROVE  /\ r \in Waiting
             /\ ~(m.kind = "answer" /\ m.about = r)
             /\ m.kind = "error" /\ m.about = r => r \in delayed /\ r \in server.refused
  <2>1. r \in Requests /\ callback'[r] = "waiting"
    BY DEF Waiting, HasCallback
  <2>2. callback \in [Requests -> {"none", "waiting", "called", "cancelled"}]
    BY SessionIs
  <2>3. callback[r] = "waiting" /\ ~(m.kind = "answer" /\ m.about = r)
    BY <1>5, <2>1, <2>2 DEF HasCallback
  <2> QED BY <1>4, <1>5, <2>1, <2>3 DEF Waiting, HasCallback
<1>8. ASSUME NEW r \in Waiting', AnsweredIn(session, r)
      PROVE  AnsweredIn(session', r) \/ (r \in delayed /\ r \in server.refused)
  <2>1. PICK k \in Range(q) : k.kind # "update" /\ k.about = r
    BY <1>1, <1>8 DEF AnsweredIn
  <2>2. CASE k \in Range(Tail(q))
    BY <1>6, <2>1, <2>2 DEF AnsweredIn
  <2>3. CASE k = m
    <3>1. m.kind \in {"answer", "error"}
      BY <1>3, <2>1, <2>3 DEF Response
    <3> QED BY <1>7, <2>1, <2>3, <3>1
  <2> QED BY <1>3, <2>1, <2>2, <2>3
<1>9. \A r \in Waiting' : Tracks(session', server.refused, r)
  <2> SUFFICES ASSUME NEW r \in Waiting' PROVE Tracks(session', server.refused, r)
    OBVIOUS
  <2>1. Tracks(session, server.refused, r) /\ session.delayed \subseteq delayed
    BY <1>5, <1>7 DEF Keeping, Waits
  <2> QED BY <1>6, <1>8, <2>1 DEF Tracks
<1>10. Waits(session', server.refused, Waiting')
  BY <1>6, <1>9 DEF Keeping, Waits, AllPairs
<1>11. OpenIn(session', server.refused, Waiting') \subseteq OpenIn(session, server.refused, Waiting)
  BY <1>7, <1>8 DEF OpenIn
<1> QED BY <1>2, <1>6, <1>10, <1>11, ClientKeeps

-----------------------------------------------------------------------------
(* The connection is closed                                                *)

\* The connection is closed: the server keeps its answers, unless the client begins a session.
LEMMA CloseKeeps ==
    ASSUME Holds, Keeping, CloseConnection, UNCHANGED callback,
           Waits(session', server.refused, Waiting),
           \/ /\ session'.number = session.number
              /\ session'.acks \cup session'.received \subseteq session.acks \cup session.received
              /\ OpenIn(session', server.refused, Waiting) \subseteq OpenIn(session, server.refused, Waiting)
           \/ session'.number > session.number /\ session'.acks \cup session'.received = {}
    PROVE  Keeping'
<1>1. /\ server'.stored = server.stored /\ server'.ran = server.ran
      /\ server'.pending = server.pending /\ server'.last = server.last
      /\ server'.refused = server.refused /\ server'.session = server.session
      /\ up' = <<>> /\ down' = <<>>
  BY SessionIs DEF CloseConnection, Servers
<1>2. Range(up') = {} /\ Range(down') = {}
  BY <1>1 DEF Range
<1>3. Waiting' = Waiting
  BY WaitingIs
<1>4. AcksToTell' \subseteq AcksToTell
  BY <1>2 DEF AcksToTell, AcksOf
<1>5. OpenAt(session', server', Waiting') \subseteq OpenAt(session, server, Waiting)
  <2>1. server.session <= session.number /\ session.number \in Nat /\ server.session \in Nat
    BY HereIs, SessionIs DEF ServerFine, Sessions, Servers
  <2>2. CASE session'.number > session.number
    BY <1>1, <2>1, <2>2 DEF OpenAt
  <2>3. CASE ~(session'.number > session.number)
    BY <1>1, <1>3, <2>3 DEF OpenAt
  <2> QED BY <2>2, <2>3
<1>6. Keeps(server', down', AcksToTell', OpenAt(session', server', Waiting'))
  BY <1>1, <1>2, <1>4, <1>5 DEF Keeping, Keeps
<1>7. Waits(session', server'.refused, Waiting')
  BY <1>1, <1>3
<1> QED BY <1>2, <1>6, <1>7 DEF Keeping

\* changeSessionId() after the connection was closed.
LEMMA NewSessionWaits ==
    ASSUME NEW s \in Sessions, NEW f, NEW w, Waits(s, f, w)
    PROVE  LET u == NewSessionId(Disconnected(s))
           IN  Waits(u, f, w) /\ u.acks \cup u.received = {}
<1>1. PICK u : u = NewSessionId(Disconnected(s))
  OBVIOUS
<1>2. u = [s EXCEPT !.state = "disconnected", !.number = @ + 1, !.started = FALSE, !.acks = {},
                    !.resendReq = {}, !.stateReq = {}, !.received = {}]
  BY <1>1 DEF NewSessionId, Disconnected, Sessions
<1>3. /\ u.toSend = s.toSend /\ u.delayed = s.delayed /\ u.haveSent = s.haveSent
      /\ u.msgId = s.msgId /\ u.resending = s.resending /\ u.acked = s.acked
      /\ u.haveReceived = s.haveReceived /\ u.pingMsgId = s.pingMsgId
      /\ u.acks = {} /\ u.received = {}
  BY <1>2 DEF Sessions
<1>4. \A r : Tracks(u, f, r) <=> Tracks(s, f, r)
  BY <1>3, AsideTracks
<1>5. AllPairs(u) = AllPairs(s)
  BY <1>3 DEF AllPairs
<1>6. Waits(u, f, w) /\ u.acks \cup u.received = {}
  BY <1>3, <1>4, <1>5 DEF Waits
<1> QED BY <1>1, <1>6

\* onDisconnected().
LEMMA DropKeeps ==
    ASSUME Holds, Keeping, Drop
    PROVE  Keeping'
<1>1. session \in Sessions /\ session' = [session EXCEPT !.state = "disconnected"]
      /\ CloseConnection /\ UNCHANGED callback
  BY SessionIs DEF Drop, Disconnected
<1>2. PICK t : t = session'
  OBVIOUS
<1>3. /\ t.toSend = session.toSend /\ t.delayed = session.delayed
      /\ t.haveSent = session.haveSent /\ t.msgId = session.msgId
      /\ t.resending = session.resending /\ t.acked = session.acked
      /\ t.haveReceived = session.haveReceived /\ t.pingMsgId = session.pingMsgId
      /\ t.acks = session.acks /\ t.received = session.received /\ t.number = session.number
  BY <1>1, <1>2 DEF Sessions
<1>4. PICK f : f = server.refused
  OBVIOUS
<1>5. \A r : (AnsweredIn(t, r) <=> AnsweredIn(session, r)) /\ (Tracks(t, f, r) <=> Tracks(session, f, r))
  BY <1>3, AsideTracks
<1>6. Waits(t, f, Waiting) /\ OpenIn(t, f, Waiting) = OpenIn(session, f, Waiting)
  BY <1>3, <1>4, <1>5 DEF Keeping, Waits, OpenIn, AllPairs
<1> QED BY <1>1, <1>2, <1>3, <1>4, <1>6, CloseKeeps

\* applyAuthKey(), with another key.
LEMMA RekeyKeeps ==
    ASSUME Holds, Keeping, Rekey
    PROVE  Keeping'
<1>1. session' = NewSessionId(Disconnected(session)) /\ CloseConnection /\ UNCHANGED callback
  BY DEF Rekey
<1>2. Waits(session', server.refused, Waiting) /\ session'.acks \cup session'.received = {}
  BY <1>1, SessionIs, NewSessionWaits DEF Keeping
<1>3. session'.number = session.number + 1
  BY <1>1, SessionIs, NewSessionSound
<1>4. session'.number > session.number
  BY <1>3, SessionIs DEF Sessions
<1> QED BY <1>1, <1>2, <1>4, CloseKeeps

\* stop(), and a new SessionPrivate: no request waits.
LEMMA StopKeeps ==
    ASSUME Holds, Keeping, Stop
    PROVE  Keeping'
<1>1. session \in Sessions /\ CloseConnection /\ UNCHANGED callback
      /\ session' = [NewPrivate(session) EXCEPT !.state = "stopped", !.number = @ + 1]
  BY SessionIs DEF Stop
<1>2. PICK t : t = session'
  OBVIOUS
<1>3. /\ t.haveSent = session.haveSent /\ t.resending = {} /\ t.acked = {}
      /\ t.pingMsgId = 0 /\ t.acks = {} /\ t.received = {} /\ t.number = session.number + 1
  BY <1>1, <1>2, ZenonT(60) DEF NewPrivate, Sessions
<1>4. Waiting = {}
  BY DEF Waiting, Stop
<1>5. IsFiniteSet(AllPairs(t))
  BY <1>3, FS_Subset DEF AllPairs, Keeping, Waits
<1>6. Waits(t, server.refused, Waiting)
  BY <1>3, <1>4, <1>5, SlotOfZero DEF Waits, PingSlot
<1>7. t.number > session.number
  BY <1>1, <1>3 DEF Sessions
<1> QED BY <1>1, <1>2, <1>3, <1>6, <1>7, CloseKeeps

-----------------------------------------------------------------------------
(* A packet of the server is handled                                       *)

\* The ids of the session fit.
LEMMA SessionFits ==
    ASSUME Keeping, IdsFit
    PROVE  Fits(session)
<1>1. IsFiniteSet(AllPairs(session))
  BY DEF Keeping, Waits
<1>2. PICK S, T : S = AllPairs(session) /\ T = Ids(S)
  OBVIOUS
<1>3. [p \in S |-> p[1]] \in Surjection(S, T)
  BY <1>2 DEF Surjection, Ids
<1>4. IsFiniteSet(T)
  BY <1>1, <1>2, <1>3, FS_Surjection
<1> QED BY <1>2, <1>4 DEF Fits, IdsFit

\* handleReceived(): what is acked then has settled its request.
LEMMA HandleReceivedKeeps ==
    ASSUME Holds, Keeping, IdsFit, HandleReceived
    PROVE  Keeping'
<1>1. PICK done, batch, t : HandlesBatch(done, batch, t)
  BY HandlesABatch
<1>2. PICK f, last, K : /\ f = server.refused /\ last = server.last
                        /\ K = {k \in server.stored : k.kind = "answer" /\ server.session = session.number}
  OBVIOUS
<1>3. UNCHANGED callback /\ Waiting' = Waiting /\ session \in Sessions /\ last \in Nat
  BY <1>2, WaitingIs, SessionIs DEF HandleReceived, Servers
<1>4. Fine(done, session, LiveOf(session, server, down), last, Asked, f, server.executed)
  BY <1>1, <1>2 DEF HandlesBatch
<1>5. Keeps(server, down, AcksToTell, OpenAt(session, server, Waiting)) /\ Waits(session, f, Waiting)
  BY <1>2 DEF Keeping
<1>6. session.acks \cup session.received \subseteq AcksToTell
  BY DEF AcksToTell
<1>7. Served(done, session, f, last, K)
  <2>1. PICK L : L = LiveOf(session, server, down)
    OBVIOUS
  <2>2. PICK a, x : a = Asked /\ x = server.executed
    OBVIOUS
  <2>3. L \in SUBSET Nat /\ a \subseteq Requests /\ Sound(session, a, f, x) /\ Once(session, L, last)
    BY <1>2, <2>1, <2>2, SessionIs, LiveIs
  <2>4. Fits(session)
    BY SessionFits
  <2>5. SlotOf(session.pingMsgId) = PingSlot /\ \A r \in Waiting : Tracks(session, f, r)
    BY <1>5 DEF Waits
  <2>6. \A id \in session.acks \cup session.received : id <= last
    BY <1>2, <1>5, <1>6 DEF Keeps
  <2>7. \A m \in Range(down) :
           /\ Told(m, f, x) /\ m.id <= last
           /\ m.kind \in {"update", "session"} => m.id \in L
           /\ m.kind \in {"pong", "states"} => SlotOf(m.about) \notin Requests
    BY <1>2, <1>5, <2>1, <2>2 DEF Holds, Both, DownFine, LiveOf, Keeps
  <2>8. ASSUME NEW k \in K
        PROVE  /\ k.kind = "answer" /\ Current(k.about, SlotOf(k.about), session, f)
               /\ k.id \in session.acks \cup session.received =>
                     SlotOf(k.about) \notin OpenIn(session, f, Waiting)
               /\ \A m \in Range(down) : k.id = m.id => m.kind = "answer" /\ m.about = k.about
    <3>1. k \in server.stored /\ k.kind = "answer" /\ server.session = session.number
      BY <1>2
    <3>2. PICK p \in server.ran : p[1] = k.about
      BY <1>5, <3>1 DEF Keeps, Ids
    <3>3. SlotOf(p[1]) = p[2] /\ Current(p[1], p[2], session, f)
      BY <1>2, <3>1, HereIs DEF ServerFine
    <3>4. OpenAt(session, server, Waiting) = OpenIn(session, f, Waiting)
      BY <1>2, <3>1 DEF OpenAt
    <3>5. k.id \in session.acks \cup session.received =>
             SlotOf(k.about) \notin OpenIn(session, f, Waiting)
      BY <1>5, <1>6, <3>1, <3>4 DEF Keeps
    <3>6. \A m \in Range(down) : k.id = m.id => m.kind = "answer" /\ m.about = k.about
      BY <1>5, <3>1 DEF Keeps
    <3> QED BY <3>1, <3>2, <3>3, <3>5, <3>6
  <2>9. /\ Len(batch) \in Nat \ {0} /\ \A i \in 1..Len(batch) : batch[i] \in Range(down)
        /\ done = HandledBatch(session, batch)
    BY <1>1 DEF HandlesBatch
  <2>10. \A i \in 1..Len(batch) :
            /\ Told(batch[i], f, x) /\ batch[i].id <= last
            /\ batch[i].kind \in {"update", "session"} => batch[i].id \in L
            /\ batch[i].kind \in {"pong", "states"} => SlotOf(batch[i].about) \notin Requests
    BY <2>7, <2>9
  <2>11. \A k \in K :
            /\ k.kind = "answer" /\ Current(k.about, SlotOf(k.about), session, f)
            /\ k.id \in session.acks \cup session.received => SlotOf(k.about) \notin OpenIn(session, f, Waiting)
            /\ \A i \in 1..Len(batch) :
                  k.id = batch[i].id => batch[i].kind = "answer" /\ batch[i].about = k.about
    BY <2>8, <2>9
  <2> QED BY <1>3, <2>3, <2>4, <2>5, <2>6, <2>9, <2>10, <2>11, BatchIsServed
<1>8. PICK w, more : w = Largest(done.s.received) /\ more = (done.s.wantSend \/ done.s.acks # {})
  OBVIOUS
<1>9. t = [done.s EXCEPT !.received = w, !.wantSend = more]
  BY <1>1, <1>8 DEF HandlesBatch
<1>10. done.s \in Sessions /\ Sound(done.s, Asked, f, server.executed)
       /\ AllPairs(done.s) \subseteq AllPairs(session) /\ done.s.number = session.number
  BY <1>4 DEF Fine, Sound, Stays
<1>11. w \in SUBSET Nat /\ w \subseteq done.s.received /\ more \in BOOLEAN
  BY <1>8, <1>10 DEF Largest, Sessions
<1>12. t \in Sessions
  BY <1>9, <1>10, <1>11, ZenonT(60) DEF Sessions
<1>13. /\ t.toSend = done.s.toSend /\ t.delayed = done.s.delayed
       /\ t.haveSent = done.s.haveSent /\ t.msgId = done.s.msgId
       /\ t.resending = done.s.resending /\ t.acked = done.s.acked
       /\ t.haveReceived = done.s.haveReceived /\ t.pingMsgId = done.s.pingMsgId
       /\ t.acks = done.s.acks /\ t.received = w /\ t.number = done.s.number
  BY <1>9, <1>10 DEF Sessions
<1>14. \A r : (AnsweredIn(t, r) <=> AnsweredIn(done.s, r)) /\ (Tracks(t, f, r) <=> Tracks(done.s, f, r))
  BY <1>13, AsideTracks
<1>15. Waits(t, f, Waiting)
  <2>1. AllPairs(t) \subseteq AllPairs(session)
    BY <1>10, <1>13 DEF AllPairs
  <2>2. IsFiniteSet(AllPairs(t))
    BY <1>5, <2>1, FS_Subset DEF Waits
  <2> QED BY <1>7, <1>13, <1>14, <2>2 DEF Waits, Served
<1>16. CASE done.outcome = "reset"
  <2>1. session' = NewSessionId(Disconnected(t)) /\ CloseConnection
    BY <1>1, <1>16 DEF HandlesBatch
  <2>2. Waits(session', f, Waiting) /\ session'.acks \cup session'.received = {}
    BY <1>12, <1>15, <2>1, NewSessionWaits
  <2>3. session'.number = t.number + 1
    BY <1>12, <2>1 DEF NewSessionId, Disconnected, Sessions
  <2>4. session'.number > session.number
    BY <1>3, <1>10, <1>13, <2>3 DEF Sessions
  <2> QED BY <1>2, <1>3, <2>1, <2>2, <2>4, CloseKeeps
<1>17. CASE done.outcome # "reset"
  <2>1. PICK u : u = session'
    OBVIOUS
  <2>2. /\ u = [t EXCEPT !.wantSend = @ \/ (session.state # "connected" /\ t.state = "connected")]
        /\ Range(down') \subseteq Range(down) /\ UNCHANGED <<up, server>>
    BY <1>1, <1>17, <2>1 DEF HandlesBatch
  <2>3. /\ u.toSend = t.toSend /\ u.delayed = t.delayed
        /\ u.haveSent = t.haveSent /\ u.msgId = t.msgId
        /\ u.resending = t.resending /\ u.acked = t.acked
        /\ u.haveReceived = t.haveReceived /\ u.pingMsgId = t.pingMsgId
        /\ u.acks = t.acks /\ u.received = t.received /\ u.number = t.number
    BY <1>12, <2>2 DEF Sessions
  <2>4. \A r : (AnsweredIn(u, r) <=> AnsweredIn(t, r)) /\ (Tracks(u, f, r) <=> Tracks(t, f, r))
    BY <2>3, AsideTracks
  <2>5. Waits(u, f, Waiting)
    BY <1>15, <2>3, <2>4 DEF Waits, AllPairs
  <2>6. \A r : AnsweredIn(u, r) <=> AnsweredIn(done.s, r)
    BY <1>14, <2>4
  <2>7. OpenIn(u, f, Waiting) = OpenIn(done.s, f, Waiting)
        /\ OpenIn(u, f, Waiting) \subseteq OpenIn(session, f, Waiting)
    BY <1>7, <2>6 DEF OpenIn, Served, Waiting
  <2>8. PICK A, P : A = AcksToTell' /\ P = OpenAt(u, server, Waiting)
    OBVIOUS
  <2>9. A \subseteq AcksToTell \cup done.s.acks \cup done.s.received
    BY <1>11, <1>13, <2>1, <2>2, <2>3, <2>8 DEF AcksToTell
  <2>10. P \subseteq OpenAt(session, server, Waiting) /\ (server.session # session.number => P = {})
         /\ P \subseteq OpenIn(done.s, f, Waiting)
    BY <1>2, <1>10, <1>13, <2>3, <2>7, <2>8 DEF OpenAt
  <2>11. \A id \in A : id <= server.last
    BY <1>2, <1>5, <1>7, <2>9 DEF Keeps, Served
  <2>12. ASSUME NEW m \in server.stored, m.kind = "answer", m.id \in A
         PROVE  SlotOf(m.about) \notin P
    <3>1. CASE m.id \in AcksToTell
      BY <1>5, <2>10, <2>12, <3>1 DEF Keeps
    <3>2. CASE server.session = session.number /\ m.id \in done.s.acks \cup done.s.received
      <4>1. m \in K
        BY <1>2, <2>12, <3>2
      <4> QED BY <1>7, <1>17, <2>10, <3>2, <4>1 DEF Served
    <3> QED BY <2>9, <2>10, <2>12, <3>1, <3>2
  <2>13. Keeps(server, down', A, P)
    BY <1>5, <2>2, <2>10, <2>11, <2>12 DEF Keeps
  <2> QED BY <1>2, <1>3, <2>1, <2>2, <2>5, <2>8, <2>13 DEF Keeping
<1> QED BY <1>16, <1>17

-----------------------------------------------------------------------------
(* A packet of the client                                                  *)

\* The requests can be found where they were, or in haveSent.
Goes(s, t, f) ==
    /\ t.pingMsgId = s.pingMsgId /\ t.acks = s.acks /\ t.received = s.received
    /\ t.haveReceived = s.haveReceived
    /\ IsFiniteSet(AllPairs(s)) => IsFiniteSet(AllPairs(t))
    /\ \A q \in Requests : Tracks(s, f, q) => Tracks(t, f, q)

\* Two such steps are one.
LEMMA GoesOn ==
    ASSUME NEW s, NEW t, NEW u, NEW f, Goes(s, t, f), Goes(t, u, f)
    PROVE  Goes(s, u, f)
BY DEF Goes

\* replaceMsgId(): the pairs have the same requests.
LEMMA RenamedIs ==
    ASSUME NEW pairs, NEW old, NEW new
    PROVE  /\ Owners(Renamed(pairs, old, new)) = Owners(pairs)
           /\ IsFiniteSet(pairs) => IsFiniteSet(Renamed(pairs, old, new))
<1>1. PICK T : T = Renamed(pairs, old, new)
  OBVIOUS
<1>2. PICK g : g = [p \in pairs |-> IF p[1] = old THEN <<new, p[2]>> ELSE p]
  OBVIOUS
<1>3. \A p \in pairs : g[p] \in T /\ g[p][2] = p[2]
  BY <1>1, <1>2 DEF Renamed
<1>4. \A k \in T : \E p \in pairs : k = g[p]
  BY <1>1, <1>2 DEF Renamed
<1>5. Owners(T) = Owners(pairs)
  BY <1>3, <1>4 DEF Owners
<1>6. IsFiniteSet(pairs) => IsFiniteSet(T)
  <2>1. g \in Surjection(pairs, T)
    BY <1>2, <1>3, <1>4 DEF Surjection
  <2> QED BY <2>1, FS_Surjection
<1> QED BY <1>1, <1>5, <1>6

\* From s to t the request r gets the id; the pairs in sent and acked get it too when it had
\* another one.
IsPrepared(s, t, r, old, id, sent, acked) ==
    /\ \/ (old = 0 \/ old = id) /\ sent = s.haveSent /\ acked = s.acked
       \/ /\ old # 0
          /\ sent = Renamed(s.haveSent, old, id) /\ acked = Renamed(s.acked, old, id)
    /\ t.resending = {p \in s.resending : p[1] # old}
    /\ t.haveSent = sent \cup {<<id, r>>} /\ t.acked = acked
    /\ t.msgId = [s.msgId EXCEPT ![r] = id] /\ t.toSend = s.toSend \ {r}
    /\ t.delayed = s.delayed /\ t.haveReceived = s.haveReceived /\ t.pingMsgId = s.pingMsgId
    /\ t.acks = s.acks /\ t.received = s.received

\* prepareToSend() gives the request an id.
LEMMA PreparedIs ==
    ASSUME NEW s \in Sessions, NEW r \in Requests, NEW n, NEW force
    PROVE  \E sent, acked : IsPrepared(s, Prepared(s, r, n, force), r, s.msgId[r],
                                       IdToSend(s, r, n, force), sent, acked)
<1>1. PICK old, id : old = s.msgId[r] /\ id = IdToSend(s, r, n, force)
  OBVIOUS
<1>2. PICK again : again = {p \in s.resending : p[1] # old}
  OBVIOUS
<1>3. PICK found : found = [s EXCEPT !.resending = again]
  OBVIOUS
<1>4. PICK moved : moved = IF old = 0 THEN found ELSE Replaced(found, old, id)
  OBVIOUS
<1>5. PICK t : t = Prepared(s, r, n, force)
  OBVIOUS
<1>6. t = [moved EXCEPT !.msgId[r] = id, !.haveSent = @ \cup {<<id, r>>}, !.toSend = @ \ {r}]
  BY <1>1, <1>2, <1>3, <1>4, <1>5 DEF Prepared
<1>7. /\ found.acked = s.acked /\ found.haveSent = s.haveSent /\ found.containers = s.containers
      /\ found.resending = again
  BY <1>3 DEF Sessions
<1>8. PICK sent, acked, boxes :
         /\ moved = [s EXCEPT !.resending = again, !.haveSent = sent, !.acked = acked,
                              !.containers = boxes]
         /\ \/ (old = 0 \/ old = id) /\ sent = s.haveSent /\ acked = s.acked
            \/ /\ old # 0
               /\ sent = Renamed(s.haveSent, old, id) /\ acked = Renamed(s.acked, old, id)
  <2>1. CASE old = 0 \/ old = id
    <3>1. moved = found
      BY <1>4, <2>1 DEF Replaced
    <3>2. moved = [s EXCEPT !.resending = again, !.haveSent = s.haveSent, !.acked = s.acked,
                            !.containers = s.containers]
      BY <1>3, <3>1 DEF Sessions
    <3> QED BY <2>1, <3>2
  <2>2. CASE ~(old = 0 \/ old = id)
    <3>1. PICK boxes : boxes = {[box EXCEPT !.ids = {IF i = old THEN id ELSE i : i \in @}]
                                : box \in s.containers}
      OBVIOUS
    <3>2. PICK acked, sent : acked = Renamed(s.acked, old, id) /\ sent = Renamed(s.haveSent, old, id)
      OBVIOUS
    <3>3. moved = [found EXCEPT !.acked = acked, !.haveSent = sent, !.containers = boxes]
      BY <1>4, <1>7, <2>2, <3>1, <3>2 DEF Replaced
    <3>4. moved = [s EXCEPT !.resending = again, !.haveSent = sent, !.acked = acked,
                            !.containers = boxes]
      BY <1>3, <3>3 DEF Sessions
    <3> QED BY <2>2, <3>2, <3>4
  <2> QED BY <2>1, <2>2
<1>9. /\ moved.resending = again /\ moved.haveSent = sent /\ moved.acked = acked
      /\ moved.msgId = s.msgId /\ moved.toSend = s.toSend /\ moved.delayed = s.delayed
      /\ moved.haveReceived = s.haveReceived /\ moved.pingMsgId = s.pingMsgId
      /\ moved.acks = s.acks /\ moved.received = s.received
  BY <1>8 DEF Sessions
<1>10. PICK ids : ids = [s.msgId EXCEPT ![r] = id]
  OBVIOUS
<1>11. t = [moved EXCEPT !.msgId = ids, !.haveSent = sent \cup {<<id, r>>}, !.toSend = s.toSend \ {r}]
  BY <1>6, <1>9, <1>10
<1>12. /\ t.resending = again /\ t.haveSent = sent \cup {<<id, r>>} /\ t.acked = acked
       /\ t.msgId = ids /\ t.toSend = s.toSend \ {r} /\ t.delayed = s.delayed
       /\ t.haveReceived = s.haveReceived /\ t.pingMsgId = s.pingMsgId
       /\ t.acks = s.acks /\ t.received = s.received
  BY <1>8, <1>9, <1>11 DEF Sessions
<1>13. IsPrepared(s, t, r, old, id, sent, acked)
  BY <1>2, <1>8, <1>10, <1>12 DEF IsPrepared
<1> QED BY <1>1, <1>5, <1>13

\* prepareToSend(), and the request goes to haveSent: it is found there.
LEMMA PreparedGoes ==
    ASSUME NEW s, NEW a \in SUBSET Requests, NEW f, NEW x, Sound(s, a, f, x),
           NEW r \in a, NEW n \in Nat, NEW force
    PROVE  Goes(s, Prepared(s, r, n, force), f)
<1>0. s \in Sessions /\ r \in Requests
  BY DEF Sound
<1>1. PICK old, id : old = s.msgId[r] /\ id = IdToSend(s, r, n, force)
  OBVIOUS
<1>2. PICK again : again = {p \in s.resending : p[1] # old}
  OBVIOUS
<1>3. PICK t : t = Prepared(s, r, n, force)
  OBVIOUS
<1>4. PICK sent, acked : IsPrepared(s, t, r, old, id, sent, acked)
  BY <1>0, <1>1, <1>3, PreparedIs
<1>5. Owners(sent) = Owners(s.haveSent) /\ (IsFiniteSet(s.haveSent) => IsFiniteSet(sent))
      /\ (IsFiniteSet(s.acked) => IsFiniteSet(acked))
  BY <1>4, RenamedIs DEF IsPrepared
<1>6. PICK ids : ids = [s.msgId EXCEPT ![r] = id]
  OBVIOUS
<1>7. \A q \in Requests \ {r} : ids[q] = s.msgId[q]
  BY <1>0, <1>6 DEF Sessions
<1>8. /\ t.resending = again /\ t.haveSent = sent \cup {<<id, r>>} /\ t.acked = acked
       /\ t.msgId = ids /\ t.toSend = s.toSend \ {r} /\ t.delayed = s.delayed
       /\ t.haveReceived = s.haveReceived /\ t.pingMsgId = s.pingMsgId
       /\ t.acks = s.acks /\ t.received = s.received
  BY <1>2, <1>4, <1>6 DEF IsPrepared
<1>9. \A q : AnsweredIn(t, q) <=> AnsweredIn(s, q)
  BY <1>8 DEF AnsweredIn
<1>10. Owners(t.haveSent) = Owners(s.haveSent) \cup {r}
  <2>1. Owners(sent \cup {<<id, r>>}) = Owners(sent) \cup {r}
    <3>1. PICK p : p = <<id, r>>
      OBVIOUS
    <3>2. p[2] = r
      BY <3>1
    <3>3. Owners(sent \cup {p}) = Owners(sent) \cup {p[2]}
      BY Zenon DEF Owners
    <3> QED BY <3>1, <3>2, <3>3
  <2> QED BY <1>5, <1>8, <2>1
<1>11. ASSUME NEW q \in Requests, Tracks(s, f, q) PROVE Tracks(t, f, q)
  <2>1. q \in t.toSend \cup t.delayed \cup Owners(t.haveSent) \/ AnsweredIn(t, q)
    BY <1>8, <1>9, <1>10, <1>11 DEF Tracks
  <2>2. ASSUME q \in t.toSend, q \notin f, ~AnsweredIn(t, q), t.msgId[q] # 0
        PROVE  <<t.msgId[q], q>> \in t.resending
    <3>1. q # r /\ q \in s.toSend /\ t.msgId[q] = s.msgId[q]
      BY <1>7, <1>8, <2>2
    <3>2. <<s.msgId[q], q>> \in s.resending
      BY <1>9, <1>11, <2>2, <3>1 DEF Tracks
    <3>3. s.msgId[q] # old
      BY <1>0, <1>1, <2>2, <3>1 DEF Sound
    <3> QED BY <1>2, <1>8, <3>1, <3>2, <3>3
  <2> QED BY <2>1, <2>2 DEF Tracks
<1>12. ASSUME IsFiniteSet(AllPairs(s)) PROVE IsFiniteSet(AllPairs(t))
  <2>1. IsFiniteSet(s.haveSent) /\ IsFiniteSet(again) /\ IsFiniteSet(s.acked)
    <3>1. /\ s.haveSent \subseteq AllPairs(s) /\ again \subseteq AllPairs(s)
          /\ s.acked \subseteq AllPairs(s)
      BY <1>2 DEF AllPairs
    <3> QED BY <1>12, <3>1, FS_Subset
  <2>2. IsFiniteSet(sent) /\ IsFiniteSet(acked)
    BY <1>5, <2>1
  <2>3. IsFiniteSet(sent \cup {<<id, r>>})
    BY <2>2, FS_AddElement, Zenon
  <2>4. IsFiniteSet((sent \cup {<<id, r>>}) \cup again)
    BY <2>1, <2>3, FS_Union, Zenon
  <2>5. IsFiniteSet(((sent \cup {<<id, r>>}) \cup again) \cup acked)
    BY <2>2, <2>4, FS_Union, Zenon
  <2>6. AllPairs(t) = ((sent \cup {<<id, r>>}) \cup again) \cup acked
    BY <1>8 DEF AllPairs
  <2> QED BY <2>5, <2>6
<1>13. Goes(s, t, f)
  BY <1>8, <1>11, <1>12 DEF Goes
<1> QED BY <1>3, <1>13

\* tryToSend(): all requests of a packet are prepared.
LEMMA PreparedAllGoes ==
    ASSUME NEW s, NEW a \in SUBSET Requests, NEW f, NEW x, Sound(s, a, f, x),
           NEW first, first \subseteq s.toSend, NEW n \in Nat
    PROVE  Goes(s, PreparedAll(s, first, n), f)
<1>0. s \in Sessions /\ first \subseteq a
  BY DEF Sound
<1>1. PICK begun, force : /\ begun = [s EXCEPT !.started = @ \/ s.state = "connected", !.wantSend = FALSE]
                          /\ force = ForceNewMsgId(s)
  OBVIOUS
<1>2. PICK g : PreparesTurns(g, s, first, n)
  BY PreparesRun
<1>3. g[0] = begun /\ g[NumRequests] = PreparedAll(s, first, n)
  BY <1>1, <1>2 DEF PreparesTurns
<1>4. /\ begun.toSend = s.toSend /\ begun.delayed = s.delayed /\ begun.haveSent = s.haveSent
      /\ begun.msgId = s.msgId /\ begun.resending = s.resending /\ begun.acked = s.acked
      /\ begun.haveReceived = s.haveReceived /\ begun.pingMsgId = s.pingMsgId
      /\ begun.acks = s.acks /\ begun.received = s.received
  BY <1>0, <1>1 DEF Sessions
<1>5. Sound(begun, a, f, x)
  <2>1. PICK go : go = (s.started \/ s.state = "connected")
    OBVIOUS
  <2>2. go \in BOOLEAN
    BY <2>1
  <2>3. begun = [s EXCEPT !.started = go, !.wantSend = FALSE]
    BY <1>1, <2>1
  <2>4. begun \in Sessions
    BY <1>0, <2>2, <2>3, ZenonT(60) DEF Sessions
  <2> QED BY <1>4, <2>4 DEF Sound, AllPairs
<1>6. Goes(s, begun, f)
  <2>1. \A r : Tracks(begun, f, r) <=> Tracks(s, f, r)
    BY <1>4, AsideTracks
  <2> QED BY <1>4, <2>1 DEF Goes, AllPairs
<1> DEFINE T == {i \in 0..NumRequests : Sound(g[i], a, f, x) /\ Goes(s, g[i], f)}
<1>7. 0 \in T
  BY <1>3, <1>5, <1>6, SessionAssumption
<1>8. ASSUME NEW i \in 0..NumRequests, i \in T, i < NumRequests PROVE i + 1 \in T
  <2>1. i + 1 \in 1..NumRequests /\ (i + 1) - 1 = i /\ i + 1 \in 0..NumRequests
    BY <1>8, SessionAssumption
  <2>2. PICK b, c : b = g[i] /\ c = g[i + 1]
    OBVIOUS
  <2>3. c = IF i + 1 \in first THEN Prepared(b, i + 1, n, force) ELSE b
    BY <1>1, <1>2, <2>1, <2>2 DEF PreparesTurns
  <2>4. Sound(b, a, f, x) /\ Goes(s, b, f)
    BY <1>8, <2>2
  <2>5. CASE i + 1 \in first
    <3>1. i + 1 \in a /\ c = Prepared(b, i + 1, n, force)
      BY <1>0, <2>3, <2>5
    <3>2. Sound(c, a, f, x)
      BY <2>4, <3>1, PreparedSound
    <3>3. Goes(b, c, f)
      BY <2>4, <3>1, PreparedGoes
    <3>4. Goes(s, c, f)
      BY <2>4, <3>3, GoesOn
    <3> QED BY <2>1, <2>2, <3>2, <3>4
  <2>6. CASE i + 1 \notin first
    BY <2>1, <2>2, <2>3, <2>4, <2>6
  <2> QED BY <2>5, <2>6
<1> HIDE DEF T
<1>9. NumRequests \in T
  <2>1. NumRequests \in Nat
    BY SessionAssumption
  <2>2. \A i \in 0..NumRequests : i \in T
    BY <1>7, <1>8, <2>1, Upwards
  <2> QED BY <2>1, <2>2
<1> QED BY <1>3, <1>9 DEF T

\* The acks are sent in one message.
LEMMA ServiceAcks ==
    ASSUME NEW s, NEW n, NEW m \in Service(s, n), m.kind = "ack"
    PROVE  m.ids = s.acks
<1> DEFINE message(kind, slot, ids) == [id |-> MsgId(n, slot), kind |-> kind, ids |-> ids]
<1>1. m \in {message("ack", AckSlot, s.acks), message("resend", ResendSlot, s.resendReq),
             message("state", StateSlot, s.stateReq), message("ping", PingSlot, {})}
  BY DEF Service
<1> QED BY <1>1

\* tryToSend(): a packet goes on its way, and with it the acks.
LEMMA TryToSendKeeps ==
    ASSUME Holds, Keeping, TryToSend
    PROVE  Keeping'
<1>1. PICK n : n = session.packets + 1
  OBVIOUS
<1>2. session \in Sessions /\ UNCHANGED <<callback, down, server>> /\ n \in Nat
  <2>1. session \in Sessions /\ UNCHANGED <<callback, down, server>>
    BY SessionIs DEF TryToSend
  <2> QED BY <1>1, <2>1 DEF Sessions
<1>3. PICK first \in FirstToSend(session) :
         \E t : t = PreparedAll(session, first, n) /\ SendsPacket(first, t, n)
  BY <1>1 DEF TryToSend
<1>4. PICK t : t = PreparedAll(session, first, n) /\ SendsPacket(first, t, n)
  BY <1>3
<1>5. first \subseteq session.toSend
  <2>1. CASE session.state # "connected" \/ session.toSend = {}
    <3>1. first = {}
      BY <2>1 DEF FirstToSend
    <3> QED BY <3>1
  <2>2. CASE ~(session.state # "connected" \/ session.toSend = {})
    BY <2>2 DEF FirstToSend
  <2> QED BY <2>1, <2>2
<1>6. PICK f : f = server.refused
  OBVIOUS
<1>7. /\ Sound(t, Asked, f, server.executed) /\ Goes(session, t, f)
      /\ t.number = session.number
  <2>1. PICK begun : begun = [session EXCEPT !.started = @ \/ session.state = "connected", !.wantSend = FALSE]
    OBVIOUS
  <2>2. begun.number = session.number
    BY <1>2, <2>1 DEF Sessions
  <2>3. Asked \in SUBSET Requests /\ Sound(session, Asked, f, server.executed)
    BY <1>6, SessionIs
  <2>4. Sound(t, Asked, f, server.executed) /\ Prepares(begun, t, first, ForceNewMsgId(session))
    BY <1>2, <1>4, <1>5, <2>1, <2>3, PreparedAllSound
  <2>5. Goes(session, t, f)
    BY <1>2, <1>4, <1>5, <2>3, PreparedAllGoes
  <2> QED BY <2>2, <2>4, <2>5 DEF Prepares
<1>8. t \in Sessions
  BY <1>7 DEF Sound
<1> DEFINE service == Service(session, n)
           requests == {[id |-> t.msgId[r], kind |-> "request", ids |-> {r}] : r \in first}
           messages == service \cup requests
           alone == Cardinality(messages) = 1 /\ first \cap session.inContainer = {}
           packetId == IF alone THEN (CHOOSE m \in messages : TRUE).id
                       ELSE MsgId(n, ContainerSlot)
           inside == {m.id : m \in {k \in messages : k.kind \in {"ping", "request"}}}
           clear(ids) == IF session.state = "connected" THEN {} ELSE ids
           p == [session |-> session.number, salt |-> session.salt,
                 id |-> packetId, messages |-> messages]
<1>9. PICK wantSend, ping, acks, resend, state, sent, containers, timer :
         /\ wantSend = (first # {} /\ t.toSend # {})
         /\ ping = (IF session.pingToSend THEN MsgId(n, PingSlot) ELSE t.pingMsgId)
         /\ acks = clear(t.acks) /\ resend = clear(t.resendReq) /\ state = clear(t.stateReq)
         /\ sent = t.stateReqsSent \cup {m \in service : m.kind = "state"}
         /\ containers = (IF alone THEN t.containers
                          ELSE t.containers \cup {[id |-> packetId, ids |-> inside]})
         /\ timer = (t.checkTimer \/ (~alone /\ first # {}))
  BY ZenonT(60)
<1>10. session' = [t EXCEPT !.packets = n, !.wantSend = wantSend, !.pingToSend = FALSE,
                            !.pingMsgId = ping, !.acks = acks, !.resendReq = resend,
                            !.stateReq = state, !.stateReqsSent = sent,
                            !.containers = containers, !.checkTimer = timer]
  BY <1>4, <1>9, ZenonT(60) DEF SendsPacket
<1>11. up' = Append(up, p) /\ p.messages = messages
  BY <1>4 DEF SendsPacket
<1>12. PICK u : u = session'
  OBVIOUS
<1>13. /\ u.toSend = t.toSend /\ u.delayed = t.delayed /\ u.haveSent = t.haveSent
       /\ u.msgId = t.msgId /\ u.resending = t.resending /\ u.acked = t.acked
       /\ u.haveReceived = t.haveReceived /\ u.pingMsgId = ping /\ u.acks = acks
       /\ u.received = t.received /\ u.number = t.number
  BY <1>8, <1>10, <1>12 DEF Sessions
<1>14. /\ \A m \in messages : m.kind \in {"ping", "state"} => SlotOf(m.id) \notin Requests
       /\ \A m \in messages : m.kind = "ack" => m.ids = session.acks
  <2>1. \A m \in service : SlotOf(m.id) \notin Requests
    BY <1>2, ServiceIs
  <2>2. \A m \in service : m.kind = "ack" => m.ids = session.acks
    BY ServiceAcks
  <2>3. \A m \in requests : m.kind = "request"
    OBVIOUS
  <2> HIDE DEF service, requests
  <2> QED BY <2>1, <2>2, <2>3
<1> HIDE DEF messages
<1>15. SlotOf(ping) = PingSlot /\ acks \subseteq session.acks
  <2>1. SlotOf(MsgId(n, PingSlot)) = PingSlot
    BY <1>2, SlotOfMsgId, SessionAssumption DEF PingSlot
  <2>2. SlotOf(t.pingMsgId) = PingSlot /\ t.acks = session.acks
    BY <1>7 DEF Goes, Keeping, Waits
  <2> QED BY <1>9, <2>1, <2>2
<1> HIDE DEF service, requests, alone, packetId, inside, clear, p
<1>16. Range(up') = Range(up) \cup {p}
  <2>1. up \in Seq(Range(up) \cup {p})
    <3>1. up \in Seq(Packet)
      BY SessionIs
    <3>2. Len(up) \in Nat /\ up \in [1..Len(up) -> Packet] /\ DOMAIN up = 1..Len(up)
      BY <3>1, LenProperties
    <3>3. up \in [1..Len(up) -> Range(up) \cup {p}]
      BY <3>2 DEF Range
    <3> QED BY <3>2, <3>3
  <2>2. PICK S : S = Range(up) \cup {p}
    OBVIOUS
  <2> QED BY <1>11, <2>1, <2>2, RangeOfAppend
<1>17. \A r : (AnsweredIn(u, r) <=> AnsweredIn(t, r)) /\ (Tracks(u, f, r) <=> Tracks(t, f, r))
  BY <1>13, AsideTracks
<1>18. \A r : AnsweredIn(t, r) <=> AnsweredIn(session, r)
  BY <1>7 DEF Goes, AnsweredIn
<1>19. Waits(u, f, Waiting)
  <2>1. IsFiniteSet(AllPairs(session)) /\ \A r \in Waiting : Tracks(session, f, r)
    BY <1>6 DEF Keeping, Waits
  <2>2. IsFiniteSet(AllPairs(t)) /\ \A r \in Waiting : Tracks(t, f, r)
    BY <1>7, <2>1 DEF Goes, Waiting
  <2>3. AllPairs(u) = AllPairs(t)
    BY <1>13 DEF AllPairs
  <2> QED BY <1>13, <1>15, <1>17, <2>2, <2>3 DEF Waits
<1>20. \A k \in Range(up') : Serving(k)
  BY <1>11, <1>14, <1>16 DEF Serving, Keeping
<1>21. AcksToTell' \subseteq AcksToTell
  <2>1. AcksOf(up') \subseteq AcksOf(up) \cup session.acks
    <3>1. ASSUME NEW id \in AcksOf(up') PROVE id \in AcksOf(up) \cup session.acks
      <4>1. PICK k \in Range(up') : \E m \in k.messages : m.kind = "ack" /\ id \in m.ids
        BY <3>1 DEF AcksOf
      <4>2. PICK m \in k.messages : m.kind = "ack" /\ id \in m.ids
        BY <4>1
      <4>3. CASE k = p
        BY <1>11, <1>14, <4>2, <4>3
      <4>4. CASE k \in Range(up)
        BY <4>2, <4>4 DEF AcksOf
      <4> QED BY <1>16, <4>3, <4>4
    <3> QED BY <3>1
  <2>2. session'.acks \subseteq session.acks /\ session'.received = session.received
    BY <1>7, <1>12, <1>13, <1>15 DEF Goes
  <2> QED BY <2>1, <2>2 DEF AcksToTell
<1>22. OpenAt(u, server, Waiting) = OpenAt(session, server, Waiting)
  BY <1>7, <1>13, <1>17, <1>18 DEF OpenAt, OpenIn
<1>23. Waiting' = Waiting
  BY <1>2, WaitingIs
<1>24. Keeps(server, down, AcksToTell', OpenAt(u, server, Waiting))
  BY <1>21, <1>22, KeepsLess DEF Keeping
<1> QED BY <1>2, <1>6, <1>12, <1>19, <1>20, <1>23, <1>24 DEF Keeping

-----------------------------------------------------------------------------
(* The steps of the server                                                 *)

\* The server and what it keeps, apart from what it has still to do.
SameKept(v, w) ==
    /\ w \in Servers /\ w.stored = v.stored /\ w.ran = v.ran /\ w.last = v.last
    /\ w.session = v.session /\ v.refused \subseteq w.refused /\ w.pending \subseteq v.pending

\* What the server may say when w has become of it.
MaySay(v, w, kind, about, ids) ==
    /\ kind \in {"answer", "update", "session", "pong", "states", "badSalt", "resend", "reset",
                 "fatal", "detailed", "accepted"}
    /\ about \in Nat /\ ids \in SUBSET Nat
    /\ \A id \in v.pending : id \in w.pending \/ (kind = "answer" /\ id = about)
    /\ kind \in {"pong", "states"} => SlotOf(about) \notin Requests
    /\ kind = "answer" => about \in Ids(v.ran)

\* The ids of its messages are those up to the last.
Numbered(v, d) == v.last \in Nat /\ \A m \in v.stored \cup Range(d) : m.id \in Nat /\ m.id <= v.last

\* The messages are numbered.
LEMMA BothNumbered ==
    ASSUME NEW s, NEW v, NEW d, NEW a, Both(s, v, d, a)
    PROVE  Numbered(v, d)
<1>1. v \in Servers /\ ServerFine(v, s, a) /\ DownFine(d, v)
  BY DEF Both
<1>2. \A m \in v.stored \cup Range(d) : m \in ServerMessage /\ m.id <= v.last
  BY <1>1 DEF ServerFine, DownFine, Told
<1> QED BY <1>1, <1>2 DEF Numbered, Servers, ServerMessage

\* The ids that are acked are numbers.
LEMMA AcksAreIds ==
    ASSUME Holds
    PROVE  AcksToTell \in SUBSET Nat
<1>1. session.acks \subseteq Nat /\ session.received \subseteq Nat
  BY SessionIs DEF Sessions
<1>2. \A p \in Range(up) : p \in Packet
  <2>1. up \in Seq(Packet)
    BY SessionIs
  <2>2. \A i \in DOMAIN up : up[i] \in Packet
    BY <2>1, LenProperties
  <2> QED BY <2>2 DEF Range
<1>3. \A p \in Range(up) : \A m \in p.messages : m.ids \subseteq Nat
  BY <1>2 DEF Packet, Message
<1>4. AcksOf(up) \subseteq Nat
  BY <1>3 DEF AcksOf
<1> QED BY <1>1, <1>4 DEF AcksToTell

\* The server says something: its message is new, so that no ack is for it.
LEMMA SaidKeeps ==
    ASSUME NEW v, NEW d \in Seq(ServerMessage), NEW A \in SUBSET Nat, NEW P, Keeps(v, d, A, P),
           Numbered(v, d), NEW w, SameKept(v, w),
           NEW kind, NEW about, NEW ids, MaySay(v, w, kind, about, ids),
           NEW g, g = Said([v |-> w, d |-> d], kind, about, ids)
    PROVE  Keeps(g.v, g.d, A, P) /\ g.v.session = v.session /\ v.refused \subseteq g.v.refused
<1>1. PICK m : m = [id |-> w.last + 1, salt |-> w.salt, kind |-> kind, about |-> about, ids |-> ids]
  OBVIOUS
<1>2. PICK stored, sent : /\ stored = (IF Stored(m) THEN w.stored \cup {m} ELSE w.stored)
                          /\ sent = w.sent \cup {m.id}
  OBVIOUS
<1>3. PICK u, c : u = [w EXCEPT !.last = m.id, !.sent = sent, !.stored = stored] /\ c = Append(d, m)
  OBVIOUS
<1>4. Said([v |-> w, d |-> d], kind, about, ids) = [v |-> u, d |-> c]
  BY <1>1, <1>2, <1>3 DEF Said
<1>5. /\ m.id = v.last + 1 /\ m.kind = kind /\ m.about = about /\ m \in ServerMessage
      /\ v.last \in Nat
  BY <1>1 DEF SameKept, Servers, ServerMessage, Numbered, MaySay
<1>6. /\ u.last = m.id /\ u.stored = stored /\ u.ran = v.ran /\ u.pending = w.pending
      /\ u.session = v.session /\ v.refused \subseteq u.refused
  BY <1>3 DEF SameKept, Servers
<1>7. Range(c) = Range(d) \cup {m}
  BY <1>3, <1>5, RangeOfAppend
<1>8. v.stored \subseteq stored /\ stored \subseteq v.stored \cup {m}
      /\ (kind = "answer" => m \in stored)
  BY <1>2, <1>5 DEF SameKept, Stored
<1>9. \A k \in v.stored \cup Range(d) : k.id # m.id
  BY <1>5 DEF Numbered
<1>10. \A k, l \in u.stored \cup Range(c) : k.id = l.id => k.kind = l.kind /\ k.about = l.about
  <2>1. \A k \in u.stored \cup Range(c) : k \in v.stored \cup Range(d) \/ k = m
    BY <1>6, <1>7, <1>8
  <2> QED BY <1>9, <2>1 DEF Keeps
<1>11. \A k \in u.stored \cup Range(c) :
          k.kind \in {"pong", "states"} => SlotOf(k.about) \notin Requests
  BY <1>5, <1>6, <1>7, <1>8 DEF Keeps, MaySay
<1>12. \A id \in A : id <= u.last /\ id # m.id
  <2> SUFFICES ASSUME NEW id \in A PROVE id <= u.last /\ id # m.id
    OBVIOUS
  <2>1. id <= v.last /\ id \in Nat
    BY DEF Keeps
  <2> QED BY <1>5, <1>6, <2>1
<1>13. u.pending \subseteq Ids(u.ran)
  BY <1>6 DEF Keeps, SameKept
<1>14. \A k \in u.stored : k.kind = "answer" =>
          k.about \in Ids(u.ran) /\ (k.id \in A => SlotOf(k.about) \notin P)
  BY <1>5, <1>6, <1>8, <1>12 DEF Keeps, MaySay
<1>15. \A p \in u.ran : p[2] \in P =>
          p[1] \in u.pending \/ \E k \in u.stored : k.kind = "answer" /\ k.about = p[1]
  BY <1>5, <1>6, <1>8 DEF Keeps, MaySay
<1>16. Keeps(u, c, A, P)
  BY <1>10, <1>11, <1>12, <1>13, <1>14, <1>15 DEF Keeps
<1> QED BY <1>4, <1>6, <1>16

\* Only the server moves.
LEMMA ServerKeeps ==
    ASSUME Holds, Keeping, UNCHANGED <<callback, session>>,
           server.refused \subseteq server'.refused,
           Keeps(server', down', AcksToTell, OpenAt(session, server', Waiting)),
           \/ up' = up
           \/ up # <<>> /\ up' = Tail(up)
    PROVE  Keeping'
<1>1. Range(up') \subseteq Range(up)
  <2>1. up \in Seq(Packet)
    BY SessionIs
  <2>2. CASE up' = up
    BY <2>2
  <2>3. CASE up # <<>> /\ up' = Tail(up)
    <3>1. Range(Tail(up)) \subseteq Range(up)
      BY <2>1, <2>3, RangeOfTail
    <3> QED BY <2>3, <3>1
  <2> QED BY <2>2, <2>3
<1>2. AcksToTell' \subseteq AcksToTell
  BY <1>1 DEF AcksToTell, AcksOf
<1>3. Waiting' = Waiting
  BY WaitingIs
<1>4. Waits(session, server'.refused, Waiting)
  BY DEF Keeping, Waits, Tracks
<1>5. Keeps(server', down', AcksToTell', OpenAt(session, server', Waiting))
  BY <1>2, KeepsLess
<1> QED BY <1>1, <1>3, <1>4, <1>5 DEF Keeping

\* The server says something after w has become of it.
LEMMA SaysKeeps ==
    ASSUME Holds, Keeping, UNCHANGED <<callback, session>>, NEW w, SameKept(server, w),
           NEW kind, NEW about, NEW ids, MaySay(server, w, kind, about, ids),
           ServerIs(Said([v |-> w, d |-> down], kind, about, ids)),
           \/ up' = up
           \/ up # <<>> /\ up' = Tail(up)
    PROVE  Keeping'
<1>1. PICK v, d, A, P : /\ v = server /\ d = down /\ A = AcksToTell
                        /\ P = OpenAt(session, server, Waiting)
  OBVIOUS
<1>2. /\ Keeps(v, d, A, P) /\ A \in SUBSET Nat /\ d \in Seq(ServerMessage) /\ Numbered(v, d)
      /\ SameKept(v, w) /\ MaySay(v, w, kind, about, ids)
  BY <1>1, SessionIs, HereIs, AcksAreIds, BothNumbered DEF Keeping
<1>3. PICK g : g = Said([v |-> w, d |-> d], kind, about, ids)
  OBVIOUS
<1>4. Keeps(g.v, g.d, A, P) /\ g.v.session = v.session /\ v.refused \subseteq g.v.refused
  BY <1>2, <1>3, SaidKeeps
<1>5. server' = g.v /\ down' = g.d
  BY <1>1, <1>3 DEF ServerIs
<1>6. OpenAt(session, server', Waiting) \subseteq P
  BY <1>1, <1>4, <1>5 DEF OpenAt, OpenIn
<1>7. Keeps(server', down', A, OpenAt(session, server', Waiting))
  BY <1>4, <1>5, <1>6, KeepsLess
<1> QED BY <1>1, <1>4, <1>5, <1>7, ServerKeeps

\* The server refuses a packet.
LEMMA ServerRefusesKeeps ==
    ASSUME Holds, Keeping, ServerRefuses
    PROVE  Keeping'
<1>0. up # <<>> /\ up' = Tail(up) /\ UNCHANGED <<callback, session>>
  BY DEF ServerRefuses
<1>1. PICK p : p = Head(up)
  OBVIOUS
<1>2. PacketFine(p, session, Asked, server.refused) /\ p.id \in Nat /\ p.messages \subseteq Message
  BY <1>0, <1>1, HeadOfUp
<1>3. PICK ids : ids = UNION {m.ids : m \in {k \in p.messages : k.kind = "request"}}
  OBVIOUS
<1>4. ids \subseteq Requests
  <2>1. \A m \in p.messages : m.kind = "request" => m.ids \subseteq Requests
    BY <1>2, SessionIs DEF PacketFine
  <2> QED BY <1>3, <2>1
<1>5. PICK kind \in {"resend", "reset", "fatal"} :
         ServerIs(Said([Here EXCEPT !.v.refused = IF kind # "fatal" THEN @ ELSE @ \cup ids],
                       kind, p.id, {}))
  BY <1>1, <1>3 DEF ServerRefuses
<1>6. PICK refused : refused = IF kind # "fatal" THEN server.refused ELSE server.refused \cup ids
  OBVIOUS
<1>7. refused \in SUBSET Requests /\ server.refused \subseteq refused
  BY <1>4, <1>6, SessionIs DEF Servers
<1>8. PICK w : w = [server EXCEPT !.refused = refused]
  OBVIOUS
<1>9. SameKept(server, w) /\ w.pending = server.pending
  BY <1>7, <1>8, SessionIs DEF Servers, SameKept
<1>10. [Here EXCEPT !.v.refused = IF kind # "fatal" THEN @ ELSE @ \cup ids] = [v |-> w, d |-> down]
  BY <1>6, <1>8 DEF Here
<1>11. ServerIs(Said([v |-> w, d |-> down], kind, p.id, {}))
  BY <1>5, <1>10
<1>12. PICK none : none = {}
  OBVIOUS
<1>13. MaySay(server, w, kind, p.id, none)
  BY <1>2, <1>9, <1>12 DEF MaySay
<1> QED BY <1>0, <1>9, <1>11, <1>12, <1>13, SaysKeeps

\* The server answers, and stores the answer for what it had to answer.
LEMMA ServerAnswersKeeps ==
    ASSUME Holds, Keeping, ServerAnswers
    PROVE  Keeping'
<1>0. UNCHANGED <<callback, session, up>>
  BY DEF ServerAnswers
<1>1. PICK id \in server.pending :
         ServerIs(Said([Here EXCEPT !.v.pending = @ \ {id}], "answer", id, {}))
  BY DEF ServerAnswers
<1>2. PICK w : w = [server EXCEPT !.pending = server.pending \ {id}]
  OBVIOUS
<1>3. SameKept(server, w) /\ w.pending = server.pending \ {id}
  BY <1>2, SessionIs DEF Servers, SameKept
<1>4. [Here EXCEPT !.v.pending = @ \ {id}] = [v |-> w, d |-> down]
  BY <1>2 DEF Here
<1>5. id \in Nat /\ id \in Ids(server.ran)
  BY HereIs DEF Keeping, Keeps
<1>6. PICK none, kind : none = {} /\ kind = "answer"
  OBVIOUS
<1>7. MaySay(server, w, kind, id, none)
  BY <1>3, <1>5, <1>6 DEF MaySay
<1>8. ServerIs(Said([v |-> w, d |-> down], kind, id, none))
  BY <1>1, <1>4, <1>6
<1> QED BY <1>0, <1>3, <1>7, <1>8, SaysKeeps

\* The server only mentions an answer.
LEMMA ServerMentionsKeeps ==
    ASSUME Holds, Keeping, ServerMentions
    PROVE  Keeping'
<1>0. UNCHANGED <<callback, session, up>>
  BY DEF ServerMentions
<1>1. PICK m \in server.stored :
         ServerIs(Said([Here EXCEPT !.v.sent = @ \cup {m.id}], "detailed", m.about, {m.id}))
  BY DEF ServerMentions, ToRepeat
<1>2. m.id \in Nat /\ m.about \in Nat
  BY HereIs DEF ServerMessage
<1>3. PICK w : w = [server EXCEPT !.sent = server.sent \cup {m.id}]
  OBVIOUS
<1>4. SameKept(server, w) /\ w.pending = server.pending
  BY <1>2, <1>3, SessionIs DEF Servers, SameKept
<1>5. [Here EXCEPT !.v.sent = @ \cup {m.id}] = [v |-> w, d |-> down]
  BY <1>3 DEF Here
<1>6. PICK ids, about, kind : ids = {m.id} /\ about = m.about /\ kind = "detailed"
  OBVIOUS
<1>7. MaySay(server, w, kind, about, ids)
  BY <1>2, <1>4, <1>6 DEF MaySay
<1>8. ServerIs(Said([v |-> w, d |-> down], kind, about, ids))
  BY <1>1, <1>5, <1>6
<1> QED BY <1>0, <1>4, <1>7, <1>8, SaysKeeps

\* The server acks a request.
LEMMA ServerAcceptsKeeps ==
    ASSUME Holds, Keeping, ServerAccepts
    PROVE  Keeping'
<1>0. UNCHANGED <<callback, session, up>>
  BY DEF ServerAccepts
<1>1. PICK id \in server.pending : ServerIs(Said(Here, "accepted", id, {}))
  BY DEF ServerAccepts
<1>2. PICK none, kind : none = {} /\ kind = "accepted"
  OBVIOUS
<1>3. id \in Nat /\ SameKept(server, server)
  BY SessionIs, HereIs DEF SameKept
<1>4. MaySay(server, server, kind, id, none)
  BY <1>2, <1>3 DEF MaySay
<1>5. ServerIs(Said([v |-> server, d |-> down], kind, id, none))
  BY <1>1, <1>2 DEF Here
<1> QED BY <1>0, <1>3, <1>4, <1>5, SaysKeeps

\* The server sends an update.
LEMMA ServerPushesKeeps ==
    ASSUME Holds, Keeping, ServerPushes
    PROVE  Keeping'
<1>0. UNCHANGED <<callback, session, up>>
  BY DEF ServerPushes
<1>1. PICK none, kind, about : none = {} /\ kind = "update" /\ about = 0
  OBVIOUS
<1>2. SameKept(server, server)
  BY SessionIs DEF SameKept
<1>3. MaySay(server, server, kind, about, none)
  BY <1>1 DEF MaySay
<1>4. ServerIs(Said([v |-> server, d |-> down], kind, about, none))
  BY <1>1 DEF ServerPushes, Here
<1> QED BY <1>0, <1>2, <1>3, <1>4, SaysKeeps

\* What the server repeats is what it has stored.
LEMMA ServerRepeatsKeeps ==
    ASSUME Holds, Keeping, ServerRepeats
    PROVE  Keeping'
<1>0. UNCHANGED <<callback, session, up>>
  BY DEF ServerRepeats
<1>1. PICK m \in server.stored :
         /\ down' = Append(down, [m EXCEPT !.salt = server.salt])
         /\ server' = [server EXCEPT !.sent = @ \cup {m.id}]
  BY DEF ServerRepeats, ToRepeat
<1>2. PICK k : k = [m EXCEPT !.salt = server.salt]
  OBVIOUS
<1>3. k \in ServerMessage /\ k.id = m.id /\ k.kind = m.kind /\ k.about = m.about
  BY <1>2, SessionIs, HereIs DEF ServerMessage, Servers
<1>4. Range(down') = Range(down) \cup {k}
  <2>1. down' = Append(down, k) /\ down \in Seq(ServerMessage) /\ k \in ServerMessage
    BY <1>1, <1>2, <1>3, SessionIs
  <2> QED BY <2>1, RangeOfAppend
<1>5. /\ server'.ran = server.ran /\ server'.pending = server.pending
      /\ server'.session = server.session /\ server'.refused = server.refused
      /\ server'.stored = server.stored /\ server'.last = server.last
  BY <1>1, SessionIs DEF Servers
<1>6. PICK P : P = OpenAt(session, server, Waiting)
  OBVIOUS
<1>7. Keeps(server, down, AcksToTell, P)
  BY <1>6 DEF Keeping
<1>8. Keeps(server', down', AcksToTell, P)
  <2>1. \A i \in server'.stored \cup Range(down') : \E j \in server.stored \cup Range(down) :
             i.id = j.id /\ i.kind = j.kind /\ i.about = j.about
    BY <1>3, <1>4, <1>5
  <2>2. \A i, j \in server'.stored \cup Range(down') :
           i.id = j.id => i.kind = j.kind /\ i.about = j.about
    BY <1>7, <2>1 DEF Keeps
  <2>3. \A i \in server'.stored \cup Range(down') :
           i.kind \in {"pong", "states"} => SlotOf(i.about) \notin Requests
    BY <1>7, <2>1 DEF Keeps
  <2> QED BY <1>4, <1>5, <1>7, <2>2, <2>3 DEF Keeps
<1>9. OpenAt(session, server', Waiting) = P
  BY <1>5, <1>6 DEF OpenAt
<1> QED BY <1>0, <1>5, <1>8, <1>9, ServerKeeps

\* The server forgets the session, and keeps no answers then.
LEMMA ServerForgetsKeeps ==
    ASSUME Holds, Keeping, ServerForgets
    PROVE  Keeping'
<1>0. /\ UNCHANGED <<callback, session, up, down>>
      /\ server' = [server EXCEPT !.session = NoSession, !.ran = {}, !.pending = {}, !.stored = {}]
  BY DEF ServerForgets
<1>1. /\ server'.ran = {} /\ server'.pending = {} /\ server'.session = 0
      /\ server'.refused = server.refused /\ server'.stored = {} /\ server'.last = server.last
  BY <1>0, SessionIs DEF Servers, NoSession
<1>2. session.number # 0
  BY SessionIs DEF Sessions
<1>3. OpenAt(session, server', Waiting) = {}
  BY <1>1, <1>2 DEF OpenAt
<1>4. Keeps(server', down', AcksToTell, OpenAt(session, server', Waiting))
  BY <1>0, <1>1, <1>3 DEF Keeping, Keeps, Ids
<1> QED BY <1>0, <1>1, <1>4, ServerKeeps

\* The server changes the salt.
LEMMA ServerChangesSaltKeeps ==
    ASSUME Holds, Keeping, ServerChangesSalt
    PROVE  Keeping'
<1>0. UNCHANGED <<callback, session, up, down>> /\ server' = [server EXCEPT !.salt = @ + 1]
  BY DEF ServerChangesSalt
<1>1. /\ server'.ran = server.ran /\ server'.pending = server.pending
      /\ server'.session = server.session /\ server'.refused = server.refused
      /\ server'.stored = server.stored /\ server'.last = server.last
  BY <1>0, SessionIs DEF Servers
<1>2. Keeps(server', down', AcksToTell, OpenAt(session, server', Waiting))
  BY <1>0, <1>1 DEF Keeping, Keeps, OpenAt
<1> QED BY <1>0, <1>1, <1>2, ServerKeeps

\* A message of a packet that the server can take, when the client acks the ids in A.
MayTake(m, A) ==
    /\ m \in Message
    /\ m.kind = "request" => m.ids = {SlotOf(m.id)}
    /\ m.kind \in {"ping", "state"} => SlotOf(m.id) \notin Requests
    /\ m.kind = "ack" => m.ids \subseteq A

\* The server says something of its own.
LEMMA TellsKeeps ==
    ASSUME NEW e \in Ends, NEW A \in SUBSET Nat, NEW P, Keeps(e.v, e.d, A, P),
           Numbered(e.v, e.d), NEW kind \in {"pong", "states", "session"}, NEW about \in Nat,
           kind # "session" => SlotOf(about) \notin Requests, NEW ids \in SUBSET Nat,
           NEW g, g = Said(e, kind, about, ids)
    PROVE  Keeps(g.v, g.d, A, P)
<1>1. PICK v, d : v = e.v /\ d = e.d
  OBVIOUS
<1>2. e = [v |-> v, d |-> d] /\ v \in Servers /\ d \in Seq(ServerMessage)
  BY <1>1 DEF Ends
<1>3. SameKept(v, v)
  BY <1>2 DEF SameKept
<1>4. MaySay(v, v, kind, about, ids)
  BY DEF MaySay
<1>5. Keeps(v, d, A, P) /\ Numbered(v, d) /\ g = Said([v |-> v, d |-> d], kind, about, ids)
  BY <1>1, <1>2
<1> QED BY <1>2, <1>3, <1>4, <1>5, SaidKeeps

\* The server takes a message of a packet, and keeps the answers for all requests in P.
LEMMA TakeKeeps ==
    ASSUME NEW s, NEW e \in Ends, NEW a, Both(s, e.v, e.d, a), NEW m, NEW A \in SUBSET Nat,
           MayTake(m, A), NEW P, Keeps(e.v, e.d, A, P)
    PROVE  Keeps(Take(e, m).v, Take(e, m).d, A, P)
<1>0. e.v \in Servers /\ e.d \in Seq(ServerMessage) /\ m \in Message
      /\ m.id \in Nat /\ m.ids \in SUBSET Nat
  BY DEF Ends, Message, MayTake
<1>1. CASE m.kind = "request" /\ m.id \in Ids(e.v.ran)
  BY <1>1 DEF Take
<1>2. CASE m.kind = "request" /\ m.id \notin Ids(e.v.ran)
  <2>1. PICK r : r = SlotOf(m.id)
    OBVIOUS
  <2>2. PICK ran, executed, pending :
           /\ ran = e.v.ran \cup {<<m.id, r>>} /\ executed = e.v.executed \cup {r}
           /\ pending = e.v.pending \cup {m.id}
    OBVIOUS
  <2>3. PICK w : w = [e.v EXCEPT !.ran = ran, !.executed = executed, !.pending = pending]
    OBVIOUS
  <2>4. Take(e, m) = [v |-> w, d |-> e.d]
    <3>1. Take(e, m) = [e EXCEPT !.v.ran = @ \cup {<<m.id, q>> : q \in m.ids},
                                 !.v.executed = @ \cup m.ids, !.v.pending = @ \cup {m.id}]
      BY <1>2 DEF Take
    <3>2. m.ids = {r} /\ {<<m.id, q>> : q \in m.ids} = {<<m.id, r>>}
      BY <1>2, <2>1 DEF MayTake
    <3> QED BY <2>2, <2>3, <3>1, <3>2 DEF Ends, Servers
  <2>5. w.ran = ran /\ w.pending = pending /\ w.stored = e.v.stored /\ w.last = e.v.last
    BY <1>0, <2>3 DEF Servers
  <2>6. Ids(w.ran) = Ids(e.v.ran) \cup {m.id}
    <3>1. PICK q : q = <<m.id, r>>
      OBVIOUS
    <3>2. q[1] = m.id /\ w.ran = e.v.ran \cup {q}
      BY <2>2, <2>5, <3>1
    <3> QED BY <3>2 DEF Ids
  <2>7. \A p \in w.ran : p[2] \in P =>
           p[1] \in w.pending \/ \E k \in w.stored : k.kind = "answer" /\ k.about = p[1]
    BY <2>2, <2>5 DEF Keeps
  <2>8. Keeps(w, e.d, A, P)
    BY <2>2, <2>5, <2>6, <2>7 DEF Keeps
  <2> QED BY <2>4, <2>8
<1>3. CASE m.kind = "ping"
  <2>1. PICK g, kind, none : g = Take(e, m) /\ kind = "pong" /\ none = {}
    OBVIOUS
  <2>2. g = Said(e, kind, m.id, none)
    BY <1>3, <2>1 DEF Take
  <2>3. SlotOf(m.id) \notin Requests
    BY <1>3 DEF MayTake
  <2>4. Keeps(g.v, g.d, A, P)
    BY <1>0, <2>1, <2>2, <2>3, BothNumbered, TellsKeeps
  <2> QED BY <2>1, <2>4
<1>4. CASE m.kind = "ack"
  <2>1. PICK stored : stored = {k \in e.v.stored : k.id \notin m.ids}
    OBVIOUS
  <2>2. PICK w : w = [e.v EXCEPT !.stored = stored]
    OBVIOUS
  <2>3. Take(e, m) = [v |-> w, d |-> e.d]
    BY <1>4, <2>1, <2>2 DEF Take, Ends, Servers
  <2>4. w.ran = e.v.ran /\ w.pending = e.v.pending /\ w.stored = stored /\ w.last = e.v.last
    BY <1>0, <2>2 DEF Servers
  <2>5. ASSUME NEW p \in w.ran, p[2] \in P, p[1] \notin w.pending
        PROVE  \E k \in w.stored : k.kind = "answer" /\ k.about = p[1]
    <3>1. PICK k \in e.v.stored : k.kind = "answer" /\ k.about = p[1]
      BY <2>4, <2>5 DEF Keeps
    <3>2. SlotOf(p[1]) = p[2]
      BY <2>4 DEF Both, ServerFine
    <3>3. k.id \notin A
      BY <2>5, <3>1, <3>2 DEF Keeps
    <3>4. m.ids \subseteq A
      BY <1>4 DEF MayTake
    <3> QED BY <2>1, <2>4, <3>1, <3>3, <3>4
  <2>6. Keeps(w, e.d, A, P)
    BY <2>1, <2>4, <2>5 DEF Keeps
  <2> QED BY <2>3, <2>6
<1>5. CASE m.kind = "resend"
  <2>1. PICK w : w = [e.v EXCEPT !.sent = e.v.sent \ m.ids]
    OBVIOUS
  <2>2. Take(e, m) = [v |-> w, d |-> e.d]
    BY <1>5, <2>1 DEF Take, Ends, Servers
  <2>3. w.ran = e.v.ran /\ w.pending = e.v.pending /\ w.stored = e.v.stored /\ w.last = e.v.last
    BY <1>0, <2>1 DEF Servers
  <2>4. Keeps(w, e.d, A, P)
    BY <2>3 DEF Keeps
  <2> QED BY <2>2, <2>4
<1>6. CASE m.kind = "state"
  <2>1. PICK g, kind, ids : g = Take(e, m) /\ kind = "states" /\ ids = m.ids \cap Ids(e.v.ran)
    OBVIOUS
  <2>2. g = Said(e, kind, m.id, ids)
    BY <1>6, <2>1 DEF Take
  <2>3. SlotOf(m.id) \notin Requests /\ ids \in SUBSET Nat
    BY <1>0, <1>6, <2>1 DEF MayTake
  <2>4. Keeps(g.v, g.d, A, P)
    BY <1>0, <2>1, <2>2, <2>3, BothNumbered, TellsKeeps
  <2> QED BY <2>1, <2>4
<1> QED BY <1>0, <1>1, <1>2, <1>3, <1>4, <1>5, <1>6 DEF Message

\* The server takes a packet.
LEMMA TakeAllKeeps ==
    ASSUME NEW s, NEW e \in Ends, NEW a \in SUBSET Requests, Both(s, e.v, e.d, a),
           e.v.heard, e.v.session = s.number,
           NEW p \in Packet, PacketFine(p, s, a, e.v.refused),
           NEW A \in SUBSET Nat, \A m \in p.messages : MayTake(m, A),
           NEW P, Keeps(e.v, e.d, A, P), NEW g, g = TakeAll(e, p.messages)
    PROVE  Keeps(g.v, g.d, A, P)
<1>1. PICK n : n = Cardinality(p.messages)
  OBVIOUS
<1>2. n \in Nat /\ \E h : TakesEach(h, s, e, a, p.messages)
  BY <1>1, TakeAllTakesEach
<1>3. PICK h : TakesEach(h, s, e, a, p.messages)
  BY <1>2
<1>4. /\ h[0] = e /\ h[n] = g
      /\ \A i \in 0..n : TakesOn(s, e, h[i], a)
      /\ \A i \in 1..n : \E m \in p.messages : h[i] = Take(h[i - 1], m)
  BY <1>1, <1>3 DEF TakesEach
<1> DEFINE T == {i \in 0..n : Keeps(h[i].v, h[i].d, A, P)}
<1>5. 0 \in T
  BY <1>2, <1>4
<1>6. ASSUME NEW i \in 0..n, i \in T, i < n PROVE i + 1 \in T
  <2>1. i + 1 \in 1..n /\ (i + 1) - 1 = i
    BY <1>2, <1>6
  <2>2. PICK b, c : b = h[i] /\ c = h[i + 1]
    OBVIOUS
  <2>3. PICK m \in p.messages : c = Take(b, m)
    BY <1>4, <2>1, <2>2
  <2>4. b \in Ends /\ Both(s, b.v, b.d, a)
    BY <1>4, <2>2 DEF TakesOn
  <2>5. MayTake(m, A) /\ Keeps(b.v, b.d, A, P)
    BY <1>6, <2>2
  <2>6. Keeps(c.v, c.d, A, P)
    BY <2>3, <2>4, <2>5, TakeKeeps
  <2> QED BY <2>1, <2>2, <2>6
<1> HIDE DEF T
<1>7. n \in T
  <2>1. \A i \in 0..n : i \in T
    BY <1>2, <1>5, <1>6, Upwards
  <2> QED BY <1>2, <2>1
<1> QED BY <1>4, <1>7 DEF T

\* The server takes a packet: what it acks has settled its request, and what it asks for is
\* answered in some time.
LEMMA ServerReceivesKeeps ==
    ASSUME Holds, Keeping, ServerReceives
    PROVE  Keeping'
<1>1. up # <<>> /\ up' = Tail(up) /\ UNCHANGED <<callback, session>>
  BY DEF ServerReceives
<1>2. PICK p, heard, fresh, first, start : TakesPacket(p, heard, fresh, first, start)
  BY ServerTakesPacket
<1>3. server \in Servers /\ down \in Seq(ServerMessage) /\ server.last \in Nat
  BY SessionIs, HereIs
<1>4. /\ heard \in Servers /\ heard.ran = server.ran /\ heard.pending = server.pending
      /\ heard.stored = server.stored /\ heard.last = server.last
      /\ heard.session = server.session /\ heard.refused = server.refused
  BY <1>2, <1>3 DEF TakesPacket, Servers
<1>5. CASE p.salt # server.salt
  <2>1. PICK kind, about, none : kind = "badSalt" /\ about = p.id /\ none = {}
    OBVIOUS
  <2>2. ServerIs(Said([v |-> heard, d |-> down], kind, about, none))
    BY <1>2, <1>5, <2>1 DEF TakesPacket
  <2>3. about \in Nat
    BY <1>2, <2>1 DEF TakesPacket, Packet
  <2>4. SameKept(server, heard) /\ MaySay(server, heard, kind, about, none)
    BY <1>4, <2>1, <2>3 DEF SameKept, MaySay
  <2> QED BY <1>1, <2>2, <2>4, SaysKeeps
<1>6. CASE p.salt = server.salt
  <2>1. PICK A, P : A = AcksToTell /\ P = OpenIn(session, server.refused, Waiting)
    OBVIOUS
  <2>2. A \in SUBSET Nat
    BY <2>1, AcksAreIds
  <2>3. p \in Packet /\ p \in Range(up) /\ p.session = session.number
        /\ PacketFine(p, session, Asked, server.refused) /\ p.messages \subseteq Message
    BY <1>1, <1>2, SessionIs, RangeOfTail DEF TakesPacket, PacketFine, Packet
  <2>4. \A m \in p.messages : MayTake(m, A)
    <3>1. \A m \in p.messages : m.kind = "ack" => m.ids \subseteq A
      BY <2>1, <2>3 DEF AcksToTell, AcksOf
    <3>2. Serving(p)
      BY <2>3 DEF Keeping
    <3> QED BY <2>3, <3>1, <3>2 DEF MayTake, Serving, PacketFine
  <2>5. Keeps(start.v, start.d, A, P)
    <3>1. CASE p.session = server.session
      <4>1. start.v = heard /\ start.d = down
        BY <1>2, <3>1 DEF TakesPacket
      <4>2. Keeps(server, down, A, P)
        BY <2>1, <2>3, <3>1 DEF Keeping, OpenAt
      <4>3. Keeps(heard, down, A, P)
        BY <1>4, <4>2 DEF Keeps
      <4> QED BY <4>1, <4>3
    <3>2. CASE p.session # server.session
      <4>1. /\ fresh \in Servers /\ fresh.ran = {} /\ fresh.pending = {} /\ fresh.stored = {}
            /\ fresh.last = server.last /\ first \in Nat
        BY <1>2, <1>3 DEF TakesPacket, Servers
      <4>2. PICK e, kind, none : e = [v |-> fresh, d |-> down] /\ kind = "session" /\ none = {}
        OBVIOUS
      <4>3. e \in Ends /\ e.v = fresh /\ e.d = down
        BY <1>3, <4>1, <4>2 DEF Ends
      <4>4. start = Said(e, kind, first, none)
        BY <1>2, <3>2, <4>2 DEF TakesPacket
      <4>5. Keeps(e.v, e.d, A, P)
        BY <2>1, <4>1, <4>3 DEF Keeping, Keeps, Ids
      <4>6. Numbered(server, down)
        BY HereIs, BothNumbered
      <4>7. Numbered(e.v, e.d)
        BY <4>1, <4>3, <4>6 DEF Numbered
      <4> QED BY <2>2, <4>1, <4>2, <4>3, <4>4, <4>5, <4>7, TellsKeeps
    <3> QED BY <3>1, <3>2
  <2>6. PICK g : g = TakeAll(start, p.messages)
    OBVIOUS
  <2>7. /\ start \in Ends /\ Both(session, start.v, start.d, Asked)
        /\ start.v.heard /\ start.v.session = session.number
        /\ PacketFine(p, session, Asked, start.v.refused) /\ start.v.refused = server.refused
        /\ Asked \in SUBSET Requests
    BY <1>2, <2>3 DEF TakesPacket, Asked
  <2>8. Keeps(g.v, g.d, A, P)
    BY <2>2, <2>3, <2>4, <2>5, <2>6, <2>7, TakeAllKeeps
  <2>9. server' = g.v /\ down' = g.d
    BY <1>2, <1>6, <2>6 DEF ServerIs, TakesPacket
  <2>10. g.v.refused = server.refused
    <3>1. TakesOn(session, start, g, Asked)
      BY <2>3, <2>6, <2>7, TakeAllFine
    <3> QED BY <2>7, <3>1 DEF TakesOn
  <2>11. OpenAt(session, server', Waiting) \subseteq P
    BY <2>1, <2>9, <2>10 DEF OpenAt
  <2>12. Keeps(server', down', AcksToTell, OpenAt(session, server', Waiting))
    BY <2>1, <2>8, <2>9, <2>11, KeepsLess
  <2> QED BY <1>1, <2>9, <2>10, <2>12, ServerKeeps
<1> QED BY <1>5, <1>6

-----------------------------------------------------------------------------
(* The theorems, as long as the ids of requests in use fit into the window *)

\* It is kept at first ...
LEMMA KeepingAtFirst ==
    ASSUME Init
    PROVE  Keeping
<1>1. Range(<<>>) = {}
  BY DEF Range
<1>2. up = <<>> /\ down = <<>> /\ server.session = 0
  BY DEF Init, NoSession
<1>3. /\ server.stored = {} /\ server.pending = {} /\ server.ran = {} /\ server.last = 0
      /\ session.acks = {} /\ session.received = {} /\ session.pingMsgId = 0 /\ session.number = 1
      /\ session.haveSent = {} /\ session.resending = {} /\ session.acked = {}
  BY DEF Init
<1>4. Waiting = {}
  BY DEF Init, Waiting, HasCallback, Requests
<1>5. Waits(session, server.refused, Waiting)
  <2>1. AllPairs(session) = {}
    BY <1>3 DEF AllPairs
  <2> QED BY <1>3, <1>4, <2>1, SlotOfZero, FS_EmptySet DEF Waits, PingSlot
<1>6. AcksToTell = {}
  BY <1>1, <1>2, <1>3 DEF AcksToTell, AcksOf
<1>7. Keeps(server, down, AcksToTell, OpenAt(session, server, Waiting))
  BY <1>1, <1>2, <1>3, <1>6 DEF Keeps, Ids
<1> QED BY <1>1, <1>2, <1>5, <1>7 DEF Keeping

\* ... and through every step.
LEMMA KeepingOn ==
    ASSUME Holds, Keeping, IdsFit, [Next]_vars
    PROVE  Keeping'
<1>1. CASE MainThread
  BY <1>1, SendRequestKeeps, CancelKeeps, DeliverKeeps, RetryKeeps DEF MainThread
<1>2. CASE SessionThread
  BY <1>2, TryInVainKeeps, TryToSendKeeps, HandleReceivedKeeps, ConnectKeeps, ResumeKeeps
  DEF SessionThread
<1>3. CASE Timers
  BY <1>3, CheckSentRequestsKeeps, ClearOldContainerKeeps DEF Timers
<1>4. CASE Connection
  BY <1>4, DropKeeps, RekeyKeeps, StopKeeps DEF Connection
<1>5. CASE Server
  BY <1>5, ServerReceivesKeeps, ServerRefusesKeeps, ServerAnswersKeeps, ServerRepeatsKeeps,
     ServerMentionsKeeps, ServerAcceptsKeeps, ServerPushesKeeps, ServerForgetsKeeps,
     ServerChangesSaltKeeps
  DEF Server
<1>6. CASE UNCHANGED vars
  <2>1. UNCHANGED <<callback, session, up, down, server>>
    BY <1>6 DEF vars
  <2>2. Waiting' = Waiting /\ AcksToTell' = AcksToTell
    BY <2>1 DEF Waiting, HasCallback, AcksToTell
  <2> QED BY <2>1, <2>2 DEF Keeping
<1> QED BY <1>1, <1>2, <1>3, <1>4, <1>5, <1>6 DEF Next

\* What a request and its answer rest on: a request that waits is found by the id it was sent
\* with, and the client acks an answer only when it has settled its request, or is found to be
\* of no request any more.  tryToSend() and resend() keep it as long as no id was trimmed.
THEOREM RequestInvariantHolds == Spec /\ []IdsFit => []RequestInvariant
<1>1. Init => Holds /\ Keeping
  BY HoldsAtFirst, KeepingAtFirst
<1>2. Holds /\ Keeping /\ IdsFit /\ [Next]_vars => (Holds /\ Keeping)'
  BY HoldsOn, KeepingOn
<1>3. Holds /\ Keeping => RequestInvariant
  BY RequestInvariantIs
<1> QED BY <1>1, <1>2, <1>3, PTL DEF Spec

\* sendRequest(), resend(), the errors of the server and a new connection lose no request: while
\* its handler is there it waits to be sent, or to be sent again, or for its answer.
THEOREM NoRequestIsLost == Spec /\ []IdsFit => []NoRequestLost
<1>1. RequestInvariant => NoRequestLost
  BY DEF RequestInvariant
<1> QED BY <1>1, RequestInvariantHolds, PTL

\* The client acks no answer that it has not used: what the server has run it still has to
\* answer, or it keeps the answer, until the request is settled.
THEOREM AnswersAreKept == Spec /\ []IdsFit => []AnswerKept
<1>1. RequestInvariant => AnswerKept
  BY DEF RequestInvariant
<1> QED BY <1>1, RequestInvariantHolds, PTL

-----------------------------------------------------------------------------
(* Counting in a queue                                                     *)

CountUpTo(q, n, kind) == Cardinality({i \in 1..n : q[i].kind = kind})
One(m, kind) == IF m.kind = kind THEN 1 ELSE 0

\* A count in a queue is one of the numbers 1 to n.
LEMMA CountGoes ==
    ASSUME NEW q, NEW kind, NEW n \in Nat
    PROVE  /\ CountUpTo(q, 0, kind) = 0 /\ CountUpTo(q, n, kind) \in Nat
           /\ CountUpTo(q, n + 1, kind) = CountUpTo(q, n, kind) + One(q[n + 1], kind)
<1> DEFINE S(k) == {i \in 1..k : q[i].kind = kind}
<1>1. S(0) = {} /\ Cardinality({}) = 0
  BY FS_EmptySet
<1>2. IsFiniteSet(S(n)) /\ n + 1 \notin S(n)
  <2>1. IsFiniteSet(1..n) /\ S(n) \subseteq 1..n /\ n + 1 \notin 1..n
    BY FS_Interval
  <2> QED BY <2>1, FS_Subset
<1>3. Cardinality(S(n)) \in Nat
  BY <1>2, FS_CardinalityType
<1>4. \A i : i \in 1..(n + 1) <=> i \in 1..n \/ i = n + 1
  OBVIOUS
<1>5. CASE q[n + 1].kind = kind
  <2>1. S(n + 1) = S(n) \cup {n + 1}
    BY <1>4, <1>5, Zenon
  <2>2. Cardinality(S(n) \cup {n + 1}) = Cardinality(S(n)) + 1
    BY <1>2, FS_AddElement
  <2> HIDE DEF S
  <2>3. Cardinality(S(n + 1)) = Cardinality(S(n)) + 1
    BY <2>1, <2>2
  <2> QED BY <1>1, <1>3, <1>5, <2>3 DEF CountUpTo, One, S
<1>6. CASE q[n + 1].kind # kind
  <2>1. S(n + 1) = S(n)
    BY <1>4, <1>6, Zenon
  <2> HIDE DEF S
  <2>2. Cardinality(S(n + 1)) = Cardinality(S(n)) + 0
    BY <1>3, <2>1
  <2> QED BY <1>1, <1>3, <1>6, <2>2 DEF CountUpTo, One, S
<1> QED BY <1>5, <1>6

\* The count of a queue is that up to its end.
LEMMA CountIs ==
    ASSUME NEW S, NEW q \in Seq(S), NEW kind
    PROVE  Len(q) \in Nat /\ CountOf(q, kind) = CountUpTo(q, Len(q), kind) /\ CountOf(q, kind) \in Nat
<1>1. Len(q) \in Nat /\ DOMAIN q = 1..Len(q)
  BY LenProperties
<1>2. CountOf(q, kind) = CountUpTo(q, Len(q), kind)
  BY <1>1 DEF CountOf, CountUpTo
<1> QED BY <1>1, <1>2, CountGoes

\* Nothing is counted in an empty queue.
LEMMA CountOfNone ==
    ASSUME NEW kind
    PROVE  CountOf(<<>>, kind) = 0
<1>1. {i \in DOMAIN <<>> : <<>>[i].kind = kind} = {}
  OBVIOUS
<1> QED BY <1>1, FS_EmptySet DEF CountOf

\* What is appended is counted.
LEMMA CountOfAppend ==
    ASSUME NEW S, NEW q \in Seq(S), NEW x \in S, NEW kind
    PROVE  /\ CountOf(Append(q, x), kind) = CountOf(q, kind) + One(x, kind)
           /\ CountOf(q, kind) \in Nat
<1>1. PICK u, n : u = Append(q, x) /\ n = Len(q)
  OBVIOUS
<1>2. /\ n \in Nat /\ u \in Seq(S) /\ DOMAIN u = 1..n + 1 /\ u[n + 1] = x
      /\ \A i \in 1..n : u[i] = q[i]
  <2>1. /\ Append(q, x) \in Seq(S) /\ DOMAIN Append(q, x) = 1..Len(q) + 1 /\ DOMAIN q = 1..Len(q)
        /\ Len(q) \in Nat /\ Append(q, x)[Len(q) + 1] = x
        /\ \A i \in DOMAIN q : Append(q, x)[i] = q[i]
    BY RangeOfAppend
  <2> QED BY <1>1, <2>1
<1>3. CountOf(u, kind) = CountUpTo(u, n + 1, kind)
  BY <1>2 DEF CountOf, CountUpTo
<1>4. CountOf(q, kind) = CountUpTo(q, n, kind) /\ CountOf(q, kind) \in Nat
  BY <1>1, CountIs
<1>5. CountUpTo(u, n, kind) = CountUpTo(q, n, kind)
  BY <1>2 DEF CountUpTo
<1>6. CountUpTo(u, n + 1, kind) = CountUpTo(u, n, kind) + One(u[n + 1], kind)
  BY <1>2, CountGoes
<1> QED BY <1>1, <1>2, <1>3, <1>4, <1>5, <1>6

\* The rest of a queue after the first n.
LEMMA CountOfRest ==
    ASSUME NEW S, NEW q \in Seq(S), NEW u \in Seq(S), NEW n \in Nat, NEW kind,
           n <= Len(q), Len(u) = Len(q) - n, \A j \in 1..Len(u) : u[j] = q[n + j]
    PROVE  /\ CountOf(u, kind) + CountUpTo(q, n, kind) = CountOf(q, kind)
           /\ CountOf(u, kind) \in Nat /\ CountUpTo(q, n, kind) \in Nat
<1>1. PICK m : m = Len(u)
  OBVIOUS
<1>2. m \in Nat /\ n + m = Len(q) /\ \A j \in 1..m : u[j] = q[n + j]
  BY <1>1, CountIs
<1> DEFINE T == {j \in 0..m : CountUpTo(u, j, kind) + CountUpTo(q, n, kind) = CountUpTo(q, n + j, kind)}
<1>3. 0 \in T
  <2>1. CountUpTo(u, 0, kind) = 0 /\ CountUpTo(q, n, kind) \in Nat
    BY CountGoes
  <2> QED BY <1>2, <2>1
<1>4. ASSUME NEW j \in 0..m, j \in T, j < m PROVE j + 1 \in T
  <2>1. j \in Nat /\ n + j \in Nat /\ j + 1 \in 1..m /\ (n + j) + 1 = n + (j + 1)
    BY <1>2, <1>4
  <2>2. u[j + 1] = q[n + (j + 1)]
    BY <1>2, <2>1
  <2>3. /\ CountUpTo(u, j + 1, kind) = CountUpTo(u, j, kind) + One(u[j + 1], kind)
        /\ CountUpTo(u, j, kind) \in Nat
    BY <2>1, CountGoes
  <2>4. PICK k : k = n + j
    OBVIOUS
  <2>5. /\ CountUpTo(q, k + 1, kind) = CountUpTo(q, k, kind) + One(q[k + 1], kind)
        /\ CountUpTo(q, k, kind) \in Nat
    BY <2>1, <2>4, CountGoes
  <2>6. k + 1 = n + (j + 1)
    BY <2>1, <2>4
  <2>7. CountUpTo(u, j, kind) + CountUpTo(q, n, kind) = CountUpTo(q, k, kind)
        /\ CountUpTo(q, n, kind) \in Nat
    BY <1>4, <2>4, CountGoes
  <2>8. One(u[j + 1], kind) \in Nat
    BY DEF One
  <2>9. CountUpTo(u, j + 1, kind) + CountUpTo(q, n, kind) = CountUpTo(q, n + (j + 1), kind)
    BY <2>2, <2>3, <2>5, <2>6, <2>7, <2>8
  <2> QED BY <2>1, <2>9
<1> HIDE DEF T
<1>5. m \in T
  <2>1. \A j \in 0..m : j \in T
    BY <1>2, <1>3, <1>4, Upwards
  <2> QED BY <1>2, <2>1
<1>6. CountUpTo(u, m, kind) + CountUpTo(q, n, kind) = CountUpTo(q, n + m, kind)
  BY <1>5 DEF T
<1>7. CountOf(u, kind) = CountUpTo(u, m, kind) /\ CountOf(u, kind) \in Nat
      /\ CountOf(q, kind) = CountUpTo(q, n + m, kind)
  BY <1>1, <1>2, CountIs
<1> QED BY <1>6, <1>7, CountGoes

\* The first of a queue is taken.
LEMMA CountOfTail ==
    ASSUME NEW S, NEW q \in Seq(S), q # <<>>, NEW kind
    PROVE  /\ CountOf(Tail(q), kind) + One(Head(q), kind) = CountOf(q, kind)
           /\ CountOf(Tail(q), kind) \in Nat
<1>1. PICK u, n : u = Tail(q) /\ n = Len(q)
  OBVIOUS
<1>2. /\ u \in Seq(S) /\ n \in Nat \ {0} /\ Head(q) = q[1]
      /\ DOMAIN u = 1..(n - 1) /\ \A j \in DOMAIN u : u[j] = q[j + 1]
  BY <1>1, RangeOfTail
<1>3. PICK z : z = 1
  OBVIOUS
<1>4. /\ CountOf(u, kind) + CountUpTo(q, z, kind) = CountOf(q, kind)
      /\ CountOf(u, kind) \in Nat
  <2>1. Len(u) \in Nat /\ DOMAIN u = 1..Len(u)
    BY <1>2, LenProperties
  <2>2. Len(u) = n - 1
    BY <1>2, <2>1
  <2>3. ASSUME NEW j \in 1..Len(u) PROVE u[j] = q[z + j]
    <3>1. u[j] = q[j + 1] /\ j + 1 = z + j
      BY <1>2, <1>3, <2>1
    <3> QED BY <3>1
  <2>4. z \in Nat /\ z <= Len(q) /\ Len(u) = Len(q) - z
    BY <1>1, <1>2, <1>3, <2>2
  <2> QED BY <1>2, <2>3, <2>4, CountOfRest
<1>5. CountUpTo(q, 1, kind) = One(q[1], kind)
  <2>1. PICK y : y = 0
    OBVIOUS
  <2>2. CountUpTo(q, y, kind) = 0 /\ CountUpTo(q, y + 1, kind) = CountUpTo(q, y, kind) + One(q[y + 1], kind)
    BY <2>1, CountGoes
  <2>3. y + 1 = 1 /\ One(q[1], kind) \in Nat
    BY <2>1 DEF One
  <2> QED BY <2>2, <2>3
<1> QED BY <1>1, <1>2, <1>3, <1>4, <1>5

-----------------------------------------------------------------------------
(* The ids in use                                                          *)

\* The session may come to have b ids in use.
Within(s, b) == IsFiniteSet(UsedIds(s)) /\ IdsToCome(s) <= b

\* What is counted in IdsToCome.
LEMMA IdsToComeIs ==
    ASSUME NEW s \in Sessions, IsFiniteSet(UsedIds(s))
    PROVE  /\ Cardinality(UsedIds(s)) \in Nat /\ Cardinality(Unsent(s)) \in Nat
           /\ Cardinality(s.delayed) \in Nat /\ CountOf(s.haveReceived, "error") \in Nat
           /\ IdsToCome(s) = Cardinality(UsedIds(s)) + Cardinality(Unsent(s))
                               + Cardinality(s.delayed) + CountOf(s.haveReceived, "error")
           /\ IdsToCome(s) \in Nat
           /\ IsFiniteSet(Unsent(s)) /\ IsFiniteSet(s.delayed)
<1>1. IsFiniteSet(Requests)
  BY SessionAssumption, FS_Interval DEF Requests
<1>2. IsFiniteSet(Unsent(s)) /\ IsFiniteSet(s.delayed)
  BY <1>1, FS_Subset DEF Unsent, Sessions
<1>3. s.haveReceived \in Seq(Response)
  BY DEF Sessions
<1>4. CountOf(s.haveReceived, "error") \in Nat
  BY <1>3, CountIs
<1>5. PICK i, j, k, l : /\ i = Cardinality(UsedIds(s)) /\ j = Cardinality(Unsent(s))
                        /\ k = Cardinality(s.delayed) /\ l = CountOf(s.haveReceived, "error")
  OBVIOUS
<1>6. i \in Nat /\ j \in Nat /\ k \in Nat /\ l \in Nat
  BY <1>2, <1>4, <1>5, FS_CardinalityType
<1>7. IdsToCome(s) = i + j + k + l
  BY <1>5 DEF IdsToCome
<1> QED BY <1>2, <1>5, <1>6, <1>7

\* The ids in use: those of the pairs, and those of the requests.
LEMMA UsedIdsLess ==
    ASSUME NEW s, NEW t, AllPairs(t) \subseteq AllPairs(s), t.msgId = s.msgId
    PROVE  UsedIds(t) \subseteq UsedIds(s) /\ Unsent(t) = Unsent(s)
BY DEF UsedIds, Unsent, Ids

\* A step that brings no pairs, and delays no request, leaves room for as many ids.
LEMMA LessWithin ==
    ASSUME NEW s \in Sessions, NEW t \in Sessions, NEW b, NEW c \in Nat, Within(s, b), b \in Nat,
           AllPairs(t) \subseteq AllPairs(s), t.msgId = s.msgId, t.delayed \subseteq s.delayed,
           CountOf(t.haveReceived, "error") <= CountOf(s.haveReceived, "error") + c
    PROVE  Within(t, b + c)
<1>1. UsedIds(t) \subseteq UsedIds(s) /\ Unsent(t) = Unsent(s) /\ IsFiniteSet(UsedIds(s))
  BY UsedIdsLess DEF Within
<1>2. IsFiniteSet(UsedIds(t)) /\ Cardinality(UsedIds(t)) <= Cardinality(UsedIds(s))
  BY <1>1, FS_Subset, Zenon
<1>3. IsFiniteSet(s.delayed)
  BY <1>1, IdsToComeIs
<1>4. Cardinality(t.delayed) <= Cardinality(s.delayed)
  BY <1>3, FS_Subset, Zenon
<1>5. PICK i, j, k, l : /\ i = Cardinality(UsedIds(s)) /\ j = Cardinality(Unsent(s))
                        /\ k = Cardinality(s.delayed) /\ l = CountOf(s.haveReceived, "error")
  OBVIOUS
<1>6. i \in Nat /\ j \in Nat /\ k \in Nat /\ l \in Nat /\ i + j + k + l <= b
  BY <1>1, <1>5, IdsToComeIs DEF Within
<1>7. PICK u, v, w : /\ u = Cardinality(UsedIds(t)) /\ v = Cardinality(t.delayed)
                     /\ w = CountOf(t.haveReceived, "error")
  OBVIOUS
<1>8. u \in Nat /\ v \in Nat /\ w \in Nat /\ u <= i /\ v <= k /\ w <= l + c
      /\ IdsToCome(t) = u + j + v + w
  BY <1>1, <1>2, <1>4, <1>5, <1>7, IdsToComeIs
<1>9. IdsToCome(t) <= b + c
  BY <1>6, <1>8
<1> QED BY <1>2, <1>9 DEF Within

\* ... when nothing is received.
LEMMA AsideWithin ==
    ASSUME NEW s \in Sessions, NEW t \in Sessions, NEW b \in Nat, Within(s, b),
           AllPairs(t) \subseteq AllPairs(s), t.msgId = s.msgId, t.delayed \subseteq s.delayed,
           t.haveReceived = s.haveReceived
    PROVE  Within(t, b)
<1>1. CountOf(s.haveReceived, "error") \in Nat
  BY IdsToComeIs DEF Within
<1>2. PICK c : c = 0
  OBVIOUS
<1>3. c \in Nat /\ b + c = b
      /\ CountOf(t.haveReceived, "error") <= CountOf(s.haveReceived, "error") + c
  BY <1>1, <1>2
<1>4. Within(t, b + c)
  BY <1>3, LessWithin
<1> QED BY <1>3, <1>4

\* An error is received for a fatal notification only.
LEMMA GivenWithin ==
    ASSUME NEW s \in Sessions, NEW t \in Sessions, NEW b \in Nat, Within(s, b),
           AllPairs(t) \subseteq AllPairs(s), t.msgId = s.msgId, t.delayed \subseteq s.delayed,
           NEW m, NEW f, NEW x, Given(s, t, m, f, x)
    PROVE  Within(t, b + One(m, "fatal"))
<1>1. PICK c : c = One(m, "fatal")
  OBVIOUS
<1>2. c \in Nat
  BY <1>1 DEF One
<1>3. CountOf(s.haveReceived, "error") \in Nat /\ s.haveReceived \in Seq(Response)
  BY IdsToComeIs DEF Within, Sessions
<1>4. CountOf(t.haveReceived, "error") <= CountOf(s.haveReceived, "error") + c
  <2>1. CASE t.haveReceived = s.haveReceived
    BY <1>2, <1>3, <2>1
  <2>2. CASE \E r : Gives(m, r, f, x) /\ t.haveReceived = Append(s.haveReceived, r)
    <3>1. PICK r : Gives(m, r, f, x) /\ t.haveReceived = Append(s.haveReceived, r)
      BY <2>2
    <3>2. r \in Response /\ (r.kind = "error" => m.kind = "fatal")
      BY <3>1 DEF Gives
    <3>3. CountOf(t.haveReceived, "error") = CountOf(s.haveReceived, "error") + One(r, "error")
      BY <1>3, <3>1, <3>2, CountOfAppend
    <3>4. One(r, "error") \in Nat /\ One(r, "error") <= c
      BY <1>1, <3>2 DEF One
    <3> QED BY <1>2, <1>3, <3>3, <3>4
  <2> QED BY <2>1, <2>2 DEF Given
<1>5. Within(t, b + c)
  BY <1>2, <1>4, LessWithin
<1> QED BY <1>1, <1>5

\* A request that is prepared uses the id it has, or a new one for the old one.
LEMMA PreparedUses ==
    ASSUME NEW s, NEW a \in SUBSET Requests, NEW f, NEW x, Sound(s, a, f, x),
           NEW r \in a, NEW n \in Nat, NEW force, NEW t, t = Prepared(s, r, n, force)
    PROVE  \E id : /\ UsedIds(t) \subseteq (UsedIds(s) \ {s.msgId[r]}) \cup {id}
                   /\ Unsent(t) \subseteq Unsent(s) \ {r}
                   /\ s.msgId[r] # 0 => s.msgId[r] \in UsedIds(s)
                   /\ t.delayed = s.delayed /\ t.haveReceived = s.haveReceived
<1>0. s \in Sessions /\ r \in Requests /\ r # 0 /\ s.msgId \in [Requests -> Nat]
  BY SMTT(30) DEF Sound, Sessions, Requests
<1>1. PICK old, id : old = s.msgId[r] /\ id = IdToSend(s, r, n, force)
  OBVIOUS
<1>2. PICK sent, acked : IsPrepared(s, t, r, old, id, sent, acked)
  BY <1>0, <1>1, PreparedIs
<1>3. id # 0
  <2>1. CASE s.msgId[r] # 0 /\ ~force
    BY <1>1, <2>1 DEF IdToSend
  <2>2. CASE ~(s.msgId[r] # 0 /\ ~force)
    <3>1. r \in 0..(NumRequests + 4) /\ id = MsgId(n, r)
      BY <1>0, <1>1, <2>2, SessionAssumption DEF Requests, IdToSend
    <3>2. SlotOf(id) = r
      BY <3>1, SlotOfMsgId
    <3> QED BY <1>0, <3>2, SlotOfZero
  <2> QED BY <2>1, <2>2
<1>4. PICK ids : ids = [s.msgId EXCEPT ![r] = id]
  OBVIOUS
<1>5. ids[r] = id /\ \A q \in Requests \ {r} : ids[q] = s.msgId[q]
  BY <1>0, <1>4
<1>6. /\ t.resending = {p \in s.resending : p[1] # old} /\ t.haveSent = sent \cup {<<id, r>>}
      /\ t.acked = acked /\ t.msgId = ids
      /\ t.delayed = s.delayed /\ t.haveReceived = s.haveReceived
  BY <1>2, <1>4 DEF IsPrepared
<1>7. Unsent(t) \subseteq Unsent(s) \ {r}
  BY <1>3, <1>5, <1>6 DEF Unsent
<1>8. old # 0 => old \in UsedIds(s)
  BY <1>0, <1>1 DEF UsedIds
<1>9. \A q \in Requests \ {r} : s.msgId[q] # 0 => s.msgId[q] # old
  <2> SUFFICES ASSUME NEW q \in Requests \ {r}, s.msgId[q] # 0, s.msgId[q] = old PROVE FALSE
    OBVIOUS
  <2>1. SlotOf(old) = q /\ SlotOf(old) = r
    BY <1>0, <1>1 DEF Sound
  <2> QED BY <2>1
<1>10. Ids(sent) \cup Ids(acked) \cup Ids(t.resending)
         \subseteq ((Ids(AllPairs(s)) \ {old}) \cup {id}) \cup {0}
  <2>1. Ids(t.resending) \subseteq Ids(AllPairs(s)) \ {old}
    BY <1>6 DEF Ids, AllPairs
  <2>2. CASE (old = 0 \/ old = id) /\ sent = s.haveSent /\ acked = s.acked
    <3>1. Ids(sent) \cup Ids(acked) \subseteq Ids(AllPairs(s))
      BY <2>2 DEF Ids, AllPairs
    <3> QED BY <2>1, <2>2, <3>1
  <2>3. CASE sent = Renamed(s.haveSent, old, id) /\ acked = Renamed(s.acked, old, id)
    <3>1. \A pairs : Ids(Renamed(pairs, old, id)) \subseteq (Ids(pairs) \ {old}) \cup {id}
      <4> TAKE pairs
      <4>1. PICK T : T = Renamed(pairs, old, id)
        OBVIOUS
      <4>2. ASSUME NEW p \in T PROVE p[1] = id \/ (p \in pairs /\ p[1] # old)
        <5>1. PICK k \in pairs : p = IF k[1] = old THEN <<id, k[2]>> ELSE k
          BY <4>1, <4>2 DEF Renamed
        <5> QED BY <5>1
      <4>3. Ids(T) \subseteq (Ids(pairs) \ {old}) \cup {id}
        BY <4>2 DEF Ids
      <4> QED BY <4>1, <4>3
    <3>2. Ids(s.haveSent) \cup Ids(s.acked) \subseteq Ids(AllPairs(s))
      BY DEF Ids, AllPairs
    <3> QED BY <2>1, <2>3, <3>1, <3>2
  <2> QED BY <1>2, <2>2, <2>3 DEF IsPrepared
<1>11. Ids(AllPairs(t)) \subseteq Ids(sent) \cup Ids(acked) \cup Ids(t.resending) \cup {id}
  <2>1. PICK p : p = <<id, r>>
    OBVIOUS
  <2>2. p[1] = id /\ AllPairs(t) = (sent \cup {p}) \cup t.resending \cup acked
    BY <1>6, <2>1 DEF AllPairs
  <2> QED BY <2>2 DEF Ids
<1>12. UsedIds(t) \subseteq (UsedIds(s) \ {old}) \cup {id}
  <2>1. \A q \in Requests : t.msgId[q] \in (({s.msgId[o] : o \in Requests} \ {old}) \cup {id}) \cup {0}
    BY <1>5, <1>6, <1>9
  <2>2. Ids(AllPairs(t)) \subseteq ((Ids(AllPairs(s)) \ {old}) \cup {id}) \cup {0}
    BY <1>10, <1>11
  <2> QED BY <2>1, <2>2 DEF UsedIds
<1> QED BY <1>1, <1>6, <1>7, <1>8, <1>12

\* prepareToSend() uses no more ids than were to come.
LEMMA PreparedWithin ==
    ASSUME NEW s, NEW a \in SUBSET Requests, NEW f, NEW x, Sound(s, a, f, x),
           NEW r \in a, NEW n \in Nat, NEW force, NEW b \in Nat, Within(s, b)
    PROVE  Within(Prepared(s, r, n, force), b)
<1>1. PICK t : t = Prepared(s, r, n, force)
  OBVIOUS
<1>2. PICK old, id :
         /\ old = s.msgId[r]
         /\ UsedIds(t) \subseteq (UsedIds(s) \ {old}) \cup {id}
         /\ Unsent(t) \subseteq Unsent(s) \ {r}
         /\ old # 0 => old \in UsedIds(s)
         /\ t.delayed = s.delayed /\ t.haveReceived = s.haveReceived
  BY <1>1, PreparedUses
<1>3. s \in Sessions /\ t \in Sessions /\ r \in Requests
  <2>1. Sound(t, a, f, x)
    BY <1>1, PreparedSound
  <2> QED BY <2>1 DEF Sound
<1>4. PICK U, V : U = UsedIds(s) /\ V = Unsent(s)
  OBVIOUS
<1>5. /\ IsFiniteSet(U) /\ Cardinality(U) \in Nat /\ IsFiniteSet(V) /\ Cardinality(V) \in Nat
      /\ Cardinality(s.delayed) \in Nat /\ CountOf(s.haveReceived, "error") \in Nat
      /\ Cardinality(U) + Cardinality(V) + Cardinality(s.delayed)
           + CountOf(s.haveReceived, "error") <= b
  BY <1>3, <1>4, IdsToComeIs DEF Within
<1>6. IsFiniteSet(UsedIds(t)) /\ Cardinality(UsedIds(t)) <= Cardinality((U \ {old}) \cup {id})
      /\ IsFiniteSet(U \ {old})
  <2>1. IsFiniteSet(U \ {old})
    BY <1>5, FS_Subset, Zenon
  <2>2. IsFiniteSet((U \ {old}) \cup {id})
    BY <2>1, FS_AddElement, Zenon
  <2> QED BY <1>2, <1>4, <2>1, <2>2, FS_Subset, Zenon
<1>7. PICK u, v, w, i, j : /\ u = Cardinality(UsedIds(t)) /\ v = Cardinality(Unsent(t))
                           /\ w = Cardinality((U \ {old}) \cup {id})
                           /\ i = Cardinality(U) /\ j = Cardinality(V)
  OBVIOUS
<1>8. Cardinality(U \ {old}) \in Nat /\ w <= Cardinality(U \ {old}) + 1 /\ w \in Nat
  <2>1. Cardinality(U \ {old}) \in Nat
    BY <1>6, FS_CardinalityType
  <2>2. PICK k, W : k = Cardinality(U \ {old}) /\ W = U \ {old}
    OBVIOUS
  <2>3. Cardinality(W \cup {id}) = k \/ Cardinality(W \cup {id}) = k + 1
    BY <1>6, <2>2, FS_AddElement, Zenon
  <2>4. w = Cardinality(W \cup {id})
    BY <1>7, <2>2
  <2> QED BY <2>1, <2>2, <2>3, <2>4
<1>9. u + v <= i + j
  <2>0. u \in Nat /\ v \in Nat /\ u <= w /\ i \in Nat /\ j \in Nat
    BY <1>3, <1>5, <1>6, <1>7, IdsToComeIs
  <2>1. CASE old = 0
    <3>1. r \in V
      BY <1>2, <1>3, <1>4, <2>1 DEF Unsent
    <3>2. IsFiniteSet(V \ {r}) /\ Cardinality(V \ {r}) = j - 1
      BY <1>5, <1>7, <3>1, FS_RemoveElement
    <3>3. Cardinality(Unsent(t)) <= Cardinality(V \ {r})
      BY <1>2, <1>4, <3>2, FS_Subset, Zenon
    <3>4. Cardinality(U \ {old}) <= i
      BY <1>5, <1>7, FS_Subset, Zenon
    <3> QED BY <1>7, <1>8, <2>0, <3>2, <3>3, <3>4
  <2>2. CASE old # 0
    <3>1. Cardinality(U \ {old}) = i - 1
      <4>1. old \in U /\ IsFiniteSet(U)
        BY <1>2, <1>4, <1>5, <2>2
      <4>2. Cardinality(U \ {old}) = Cardinality(U) - 1
        BY <4>1, FS_RemoveElement
      <4> QED BY <1>7, <4>2
    <3>2. v <= j
      <4>1. Unsent(t) \subseteq V
        BY <1>2, <1>4
      <4>2. IsFiniteSet(V)
        BY <1>5
      <4>3. Cardinality(Unsent(t)) <= Cardinality(V)
        BY <4>1, <4>2, FS_Subset, Zenon
      <4> QED BY <1>7, <4>3
    <3> QED BY <1>8, <2>0, <3>1, <3>2
  <2> QED BY <2>1, <2>2
<1>10. IdsToCome(t) <= b
  <2>1. PICK k, l : k = Cardinality(s.delayed) /\ l = CountOf(s.haveReceived, "error")
    OBVIOUS
  <2>2. k \in Nat /\ l \in Nat /\ i + j + k + l <= b /\ i \in Nat /\ j \in Nat
    BY <1>5, <1>7, <2>1
  <2>3. IdsToCome(t) = u + v + k + l /\ u \in Nat /\ v \in Nat
    BY <1>2, <1>3, <1>6, <1>7, <2>1, IdsToComeIs
  <2> QED BY <1>9, <2>2, <2>3
<1> QED BY <1>1, <1>6, <1>10 DEF Within

\* A message of a container: the session that handled it.
LEMMA NextWithin ==
    ASSUME NEW b, NEW a \in SUBSET Requests, NEW f, NEW x, NEW m, NEW k \in Nat,
           Sound(b.s, a, f, x), Told(m, f, x), Within(b.s, k)
    PROVE  Within(HandleNext(b, m).s, k + One(m, "fatal"))
<1>1. PICK s, acks : s = b.s /\ acks = IF Stored(m) THEN b.s.acks \cup {m.id} ELSE b.s.acks
  OBVIOUS
<1>2. s \in Sessions /\ m.id \in Nat /\ acks \in SUBSET Nat /\ Sound(s, a, f, x) /\ Within(s, k)
  <2>1. s \in Sessions /\ Sound(s, a, f, x) /\ Within(s, k)
    BY <1>1 DEF Sound
  <2>2. m.id \in Nat
    BY DEF Told, ServerMessage
  <2>3. acks \in SUBSET Nat
    BY <1>1, <2>1, <2>2 DEF Sessions
  <2> QED BY <2>1, <2>2, <2>3
<1>3. PICK t, seen, w, id :
         /\ t = [s EXCEPT !.acks = acks]
         /\ id = m.id /\ w = s.received \cup {id}
         /\ seen = [s EXCEPT !.acks = acks, !.received = w]
  OBVIOUS
<1>4. seen = [t EXCEPT !.received = @ \cup {m.id}]
  BY <1>2, <1>3 DEF Sessions
<1>5. HandleNext(b, m).s \in {s, t, seen, Handled(seen, m)}
  <2>1. PICK registered, out : registered = Registers(t.received, m.id) /\ out = Outcome(seen, m)
    OBVIOUS
  <2>2. HandleNext(b, m) =
          CASE b.outcome # "success" -> b
            [] OTHER -> CASE registered = "tooOld" -> [s |-> t, outcome |-> "reset"]
                          [] registered = "duplicate" -> [s |-> t, outcome |-> "success"]
                          [] OTHER -> [s |-> IF out = "ignored" THEN seen ELSE Handled(seen, m),
                                       outcome |-> out]
    BY <1>1, <1>3, <1>4, <2>1 DEF HandleNext
  <2> QED BY <1>1, <2>2
<1>6. Within(t, k) /\ t \in Sessions
  <2>1. t \in Sessions
    BY <1>2, <1>3, ZenonT(60) DEF Sessions
  <2>2. AllPairs(t) = AllPairs(s) /\ t.msgId = s.msgId /\ t.delayed = s.delayed
        /\ t.haveReceived = s.haveReceived
    BY <1>2, <1>3 DEF Sessions, AllPairs
  <2> QED BY <1>2, <2>1, <2>2, AsideWithin
<1>7. Sound(seen, a, f, x) /\ Stays(s, seen) /\ seen.haveReceived = s.haveReceived
  <2>1. s.received \in SUBSET Nat /\ IsFiniteSet(s.received)
    BY <1>2 DEF Sound, Sessions
  <2>2. IsFiniteSet(s.received \cup {id})
    BY <2>1, FS_AddElement, Zenon
  <2>3. w \in SUBSET Nat /\ IsFiniteSet(w)
    BY <1>2, <1>3, <2>1, <2>2
  <2>4. seen \in Sessions
    BY <1>2, <1>3, <2>3, ZenonT(60) DEF Sessions
  <2>5. /\ AllPairs(seen) = AllPairs(s) /\ seen.toSend = s.toSend /\ seen.msgId = s.msgId
        /\ seen.number = s.number /\ seen.started = s.started /\ seen.delayed = s.delayed
        /\ seen.handled = s.handled /\ seen.packets = s.packets
        /\ seen.haveReceived = s.haveReceived /\ seen.received = w
    BY <1>2, <1>3 DEF Sessions, AllPairs
  <2>6. Stays(s, seen)
    BY <2>4, <2>5 DEF Stays
  <2>7. Sound(seen, a, f, x)
    BY <1>2, <2>3, <2>4, <2>5 DEF Sound
  <2> QED BY <2>5, <2>6, <2>7
<1>8. Within(seen, k) /\ seen \in Sessions
  BY <1>2, <1>7, AsideWithin DEF Stays
<1>9. Within(Handled(seen, m), k + One(m, "fatal"))
  <2>1. PICK u : u = Handled(seen, m)
    OBVIOUS
  <2>2. Handles(seen, u, m, a, f, x)
    BY <1>7, <2>1, HandledHandles
  <2>3. u \in Sessions /\ AllPairs(u) \subseteq AllPairs(seen) /\ u.msgId = seen.msgId
        /\ u.delayed \subseteq seen.delayed /\ Given(seen, u, m, f, x)
    BY <2>2 DEF Handles, Less
  <2>4. Within(u, k + One(m, "fatal"))
    BY <1>8, <2>3, GivenWithin
  <2> QED BY <2>1, <2>4
<1>10. ASSUME NEW u \in Sessions, Within(u, k) PROVE Within(u, k + One(m, "fatal"))
  <2>1. IdsToCome(u) \in Nat /\ One(m, "fatal") \in Nat
    BY <1>10, IdsToComeIs DEF Within, One
  <2> QED BY <1>10, <2>1 DEF Within
<1> QED BY <1>2, <1>5, <1>6, <1>8, <1>9, <1>10

\* Of the first n no more are counted than of all.
LEMMA CountLess ==
    ASSUME NEW S, NEW q \in Seq(S), NEW n \in Nat, n <= Len(q), NEW kind
    PROVE  CountUpTo(q, n, kind) <= CountOf(q, kind)
<1>1. Len(q) \in Nat /\ CountOf(q, kind) = CountUpTo(q, Len(q), kind)
  BY CountIs
<1> DEFINE A == {i \in 1..n : q[i].kind = kind}
           B == {i \in 1..Len(q) : q[i].kind = kind}
<1>2. A \subseteq B /\ B \subseteq 1..Len(q)
  BY <1>1
<1>3. IsFiniteSet(1..Len(q))
  BY <1>1, FS_Interval
<1> HIDE DEF A, B
<1>4. Cardinality(A) <= Cardinality(B)
  BY <1>2, <1>3, FS_Subset, Zenon
<1> QED BY <1>1, <1>4 DEF CountUpTo, A, B

\* handleReceived(): a packet of messages.
LEMMA BatchWithin ==
    ASSUME NEW s, NEW L \in SUBSET Nat, NEW last \in Nat, NEW a \in SUBSET Requests, NEW f, NEW x,
           NEW batch, Len(batch) \in Nat \ {0}, NEW k \in Nat, Within(s, k),
           Sound(s, a, f, x), Once(s, L, last),
           \A i \in 1..Len(batch) :
              /\ Told(batch[i], f, x) /\ batch[i].id <= last
              /\ batch[i].kind \in {"update", "session"} => batch[i].id \in L
    PROVE  Within(HandledBatch(s, batch).s, k + CountUpTo(batch, Len(batch), "fatal"))
<1> DEFINE start == IF batch[1].salt = s.salt THEN s ELSE SaltKnown(s, batch[1].salt)
           n == Len(batch)
<1>1. PICK g : /\ g[0] = [s |-> start, outcome |-> "success"]
               /\ g[n] = HandledBatch(s, batch)
               /\ \A i \in 1..n : g[i] = HandleNext(g[i - 1], batch[i])
  BY BatchRuns
<1>2. Quietly(s, start)
  <2>1. s \in Sessions /\ batch[1].salt \in Nat
    BY DEF Sound, Told, ServerMessage
  <2>2. Quietly(s, SaltKnown(s, batch[1].salt))
    BY <2>1, SaltKnownLess
  <2>3. Quietly(s, s)
    BY <2>1 DEF Quietly, Less
  <2> QED BY <2>2, <2>3
<1> HIDE DEF start
<1> DEFINE T == {i \in 0..n : /\ Fine(g[i], s, L, last, a, f, x)
                              /\ Within(g[i].s, k + CountUpTo(batch, i, "fatal"))}
<1>3. 0 \in T
  <2>1. Sound(start, a, f, x) /\ Stays(s, start)
    BY <1>2, SoundQuietly, LessStays DEF Quietly
  <2>2. Once(start, L, last)
    BY <1>2 DEF Once, Quietly, Less, TakenBy, Apart
  <2>3. Within(start, k)
    <3>1. s \in Sessions /\ start \in Sessions /\ start.delayed \subseteq s.delayed
          /\ AllPairs(start) \subseteq AllPairs(s) /\ start.msgId = s.msgId
          /\ start.haveReceived = s.haveReceived
      BY <1>2 DEF Quietly, Less, Sound
    <3> QED BY <3>1, AsideWithin
  <2>4. PICK z : z = CountUpTo(batch, 0, "fatal")
    OBVIOUS
  <2>5. z = 0 /\ k + z = k
    BY <2>4, CountGoes
  <2>6. Within(g[0].s, k + z) /\ Fine(g[0], s, L, last, a, f, x)
    BY <1>1, <2>1, <2>2, <2>3, <2>5 DEF Fine
  <2> QED BY <2>4, <2>6
<1>4. ASSUME NEW i \in 0..n, i \in T, i < n PROVE i + 1 \in T
  <2>1. i + 1 \in 1..n /\ (i + 1) - 1 = i /\ i \in Nat
    BY <1>4
  <2>2. g[i + 1] = HandleNext(g[i], batch[i + 1])
    BY <1>1, <2>1
  <2>3. PICK b, m : b = g[i] /\ m = batch[i + 1]
    OBVIOUS
  <2>4. Fine(b, s, L, last, a, f, x) /\ Within(b.s, k + CountUpTo(batch, i, "fatal"))
    BY <1>4, <2>3
  <2>5. Told(m, f, x) /\ m.id <= last /\ (m.kind \in {"update", "session"} => m.id \in L)
    BY <2>1, <2>3
  <2>6. Fine(HandleNext(b, m), s, L, last, a, f, x)
    BY <2>4, <2>5, NextIsFine
  <2>7. PICK c, d : c = k + CountUpTo(batch, i, "fatal") /\ d = k + CountUpTo(batch, i + 1, "fatal")
    OBVIOUS
  <2>8. c \in Nat /\ d = c + One(m, "fatal")
    <3>1. /\ CountUpTo(batch, i, "fatal") \in Nat
          /\ CountUpTo(batch, i + 1, "fatal") = CountUpTo(batch, i, "fatal") + One(m, "fatal")
      BY <2>1, <2>3, CountGoes
    <3>2. One(m, "fatal") \in Nat
      BY DEF One
    <3> QED BY <2>7, <3>1, <3>2
  <2>9. Within(HandleNext(b, m).s, c + One(m, "fatal"))
    <3>1. Sound(b.s, a, f, x) /\ Within(b.s, c)
      BY <2>4, <2>7 DEF Fine
    <3> QED BY <2>5, <2>8, <3>1, NextWithin
  <2>10. Within(g[i + 1].s, k + CountUpTo(batch, i + 1, "fatal"))
    BY <2>2, <2>3, <2>7, <2>8, <2>9
  <2> QED BY <2>1, <2>2, <2>3, <2>6, <2>10
<1> HIDE DEF T
<1>5. \A i \in 0..n : i \in T
  BY <1>3, <1>4, Upwards
<1> QED BY <1>1, <1>5 DEF T

\* tryToSend(): all requests of a packet are prepared.
LEMMA PreparedAllWithin ==
    ASSUME NEW s, NEW a \in SUBSET Requests, NEW f, NEW x, Sound(s, a, f, x),
           NEW first, first \subseteq s.toSend, NEW n \in Nat, NEW k \in Nat, Within(s, k)
    PROVE  Within(PreparedAll(s, first, n), k)
<1>0. s \in Sessions /\ first \subseteq a
  BY DEF Sound
<1>1. PICK begun, force : /\ begun = [s EXCEPT !.started = @ \/ s.state = "connected", !.wantSend = FALSE]
                          /\ force = ForceNewMsgId(s)
  OBVIOUS
<1>2. PICK g : PreparesTurns(g, s, first, n)
  BY PreparesRun
<1>3. g[0] = begun /\ g[NumRequests] = PreparedAll(s, first, n)
  BY <1>1, <1>2 DEF PreparesTurns
<1>4. /\ begun.toSend = s.toSend /\ begun.delayed = s.delayed /\ begun.haveSent = s.haveSent
      /\ begun.msgId = s.msgId /\ begun.resending = s.resending /\ begun.acked = s.acked
      /\ begun.haveReceived = s.haveReceived /\ begun.received = s.received
  BY <1>0, <1>1 DEF Sessions
<1>5. Sound(begun, a, f, x)
  <2>1. PICK go : go = (s.started \/ s.state = "connected")
    OBVIOUS
  <2>2. go \in BOOLEAN
    BY <2>1
  <2>3. begun = [s EXCEPT !.started = go, !.wantSend = FALSE]
    BY <1>1, <2>1
  <2>4. begun \in Sessions
    BY <1>0, <2>2, <2>3, ZenonT(60) DEF Sessions
  <2> QED BY <1>4, <2>4 DEF Sound, AllPairs
<1>6. Within(begun, k)
  <2>1. begun \in Sessions /\ AllPairs(begun) = AllPairs(s)
    BY <1>4, <1>5 DEF Sound, AllPairs
  <2> QED BY <1>0, <1>4, <2>1, AsideWithin
<1> DEFINE T == {i \in 0..NumRequests : Sound(g[i], a, f, x) /\ Within(g[i], k)}
<1>7. 0 \in T
  BY <1>3, <1>5, <1>6, SessionAssumption
<1>8. ASSUME NEW i \in 0..NumRequests, i \in T, i < NumRequests PROVE i + 1 \in T
  <2>1. i + 1 \in 1..NumRequests /\ (i + 1) - 1 = i /\ i + 1 \in 0..NumRequests
    BY <1>8, SessionAssumption
  <2>2. PICK b, c : b = g[i] /\ c = g[i + 1]
    OBVIOUS
  <2>3. c = IF i + 1 \in first THEN Prepared(b, i + 1, n, force) ELSE b
    BY <1>1, <1>2, <2>1, <2>2 DEF PreparesTurns
  <2>4. Sound(b, a, f, x) /\ Within(b, k)
    BY <1>8, <2>2
  <2>5. CASE i + 1 \in first
    <3>1. i + 1 \in a /\ c = Prepared(b, i + 1, n, force)
      BY <1>0, <2>3, <2>5
    <3>2. Sound(c, a, f, x)
      BY <2>4, <3>1, PreparedSound
    <3>3. Within(c, k)
      BY <2>4, <3>1, PreparedWithin
    <3> QED BY <2>1, <2>2, <3>2, <3>3
  <2>6. CASE i + 1 \notin first
    BY <2>1, <2>2, <2>3, <2>4, <2>6
  <2> QED BY <2>5, <2>6
<1> HIDE DEF T
<1>9. NumRequests \in T
  <2>1. NumRequests \in Nat
    BY SessionAssumption
  <2>2. \A i \in 0..NumRequests : i \in T
    BY <1>7, <1>8, <2>1, Upwards
  <2> QED BY <2>1, <2>2
<1> QED BY <1>3, <1>9 DEF T

\* sendPrepared(): the request has no id for a time.
LEMMA SendPreparedWithin ==
    ASSUME NEW s \in Sessions, NEW r \in Requests, NEW b \in Nat, Within(s, b)
    PROVE  /\ SendPrepared(s, r) \in Sessions
           /\ Within(SendPrepared(s, r), b + 1)
           /\ s.msgId[r] = 0 => Within(SendPrepared(s, r), b)
<1>1. PICK ids, t : ids = [s.msgId EXCEPT ![r] = 0] /\ t = SendPrepared(s, r)
  OBVIOUS
<1>2. ids \in [Requests -> Nat] /\ ids[r] = 0 /\ \A q \in Requests \ {r} : ids[q] = s.msgId[q]
  BY <1>1 DEF Sessions
<1>3. t = [s EXCEPT !.toSend = s.toSend \cup {r}, !.msgId = ids, !.wantSend = TRUE]
  BY <1>1 DEF SendPrepared
<1>4. t \in Sessions
  BY <1>2, <1>3, ZenonT(60) DEF Sessions
<1>5. /\ t.msgId = ids /\ AllPairs(t) = AllPairs(s)
      /\ t.haveReceived = s.haveReceived /\ t.delayed = s.delayed
  BY <1>3 DEF Sessions, AllPairs
<1>6. s.msgId[r] = 0 => ids = s.msgId
  BY <1>1, <1>2 DEF Sessions
<1>7. s.msgId[r] = 0 => Within(t, b)
  BY <1>4, <1>5, <1>6, AsideWithin
<1>8. Within(t, b + 1)
  <2>1. UsedIds(t) \subseteq UsedIds(s) /\ Unsent(t) \subseteq Unsent(s) \cup {r}
    BY <1>2, <1>5 DEF UsedIds, Unsent
  <2>2. IsFiniteSet(UsedIds(s)) /\ IsFiniteSet(Unsent(s))
    BY IdsToComeIs DEF Within
  <2>3. IsFiniteSet(UsedIds(t)) /\ Cardinality(UsedIds(t)) <= Cardinality(UsedIds(s))
    BY <2>1, <2>2, FS_Subset, Zenon
  <2>4. PICK V, W : V = Unsent(s) /\ W = V \cup {r}
    OBVIOUS
  <2>5. IsFiniteSet(W) /\ (Cardinality(W) = Cardinality(V) \/ Cardinality(W) = Cardinality(V) + 1)
    BY <2>2, <2>4, FS_AddElement, Zenon
  <2>6. Unsent(t) \subseteq W
    BY <2>1, <2>4
  <2>7. Cardinality(Unsent(t)) <= Cardinality(W)
    BY <2>5, <2>6, FS_Subset, Zenon
  <2>8. PICK i, j, k, l, u, v, w :
           /\ i = Cardinality(UsedIds(s)) /\ j = Cardinality(V)
           /\ k = Cardinality(s.delayed) /\ l = CountOf(s.haveReceived, "error")
           /\ u = Cardinality(UsedIds(t)) /\ v = Cardinality(Unsent(t)) /\ w = Cardinality(W)
    OBVIOUS
  <2>9. i \in Nat /\ j \in Nat /\ k \in Nat /\ l \in Nat /\ i + j + k + l <= b
    BY <2>2, <2>4, <2>8, IdsToComeIs DEF Within
  <2>10. u \in Nat /\ v \in Nat /\ IdsToCome(t) = u + v + k + l
    BY <1>4, <1>5, <2>3, <2>8, IdsToComeIs
  <2>11. u <= i /\ v <= w /\ (w = j \/ w = j + 1)
    BY <2>3, <2>5, <2>7, <2>8
  <2>12. IdsToCome(t) <= b + 1
    BY <2>9, <2>10, <2>11
  <2> QED BY <2>3, <2>12 DEF Within
<1> QED BY <1>1, <1>4, <1>7, <1>8

-----------------------------------------------------------------------------
(* The ids stay few                                                        *)

\* What still may need an id, with the errors on the way in d and n incidents left.
FewIn(s, d, n) ==
    \E b \in Nat : Within(s, b) /\ b + CountOf(d, "fatal") + n <= NumRequests + MaxEvents

\* The server's end e keeps no error, and c errors are on its way.
Tame(e, c) == (\A m \in e.v.stored : m.kind # "fatal") /\ CountOf(e.d, "fatal") <= c

Fresh(s, a) == \A r \in Requests \ a : s.msgId[r] = 0

Few == FewIn(session, down, events) /\ (\A m \in server.stored : m.kind # "fatal")
         /\ Fresh(session, Asked)

\* IdsAreFew, said so that the steps can be counted one by one.
LEMMA FewIs ==
    ASSUME Holds
    PROVE  IdsAreFew <=> Few
<1>1. session \in Sessions /\ down \in Seq(ServerMessage) /\ events \in Nat
      /\ NumRequests \in Nat /\ MaxEvents \in Nat
  BY SessionIs, SessionAssumption
<1>2. CountOf(down, "fatal") \in Nat
  BY <1>1, CountIs
<1>3. ASSUME IdsAreFew PROVE FewIn(session, down, events)
  <2>1. IdsToCome(session) \in Nat
    BY <1>1, <1>3, IdsToComeIs DEF IdsAreFew
  <2>2. PICK b : b = IdsToCome(session)
    OBVIOUS
  <2>3. Within(session, b)
    BY <1>3, <2>1, <2>2 DEF IdsAreFew, Within
  <2> QED BY <1>3, <2>1, <2>2, <2>3 DEF IdsAreFew, FewIn
<1>4. ASSUME FewIn(session, down, events)
      PROVE  /\ IsFiniteSet(UsedIds(session))
             /\ IdsToCome(session) + CountOf(down, "fatal") + events <= NumRequests + MaxEvents
  <2>1. PICK b \in Nat : Within(session, b)
                         /\ b + CountOf(down, "fatal") + events <= NumRequests + MaxEvents
    BY <1>4 DEF FewIn
  <2>2. IsFiniteSet(UsedIds(session)) /\ IdsToCome(session) <= b
    BY <2>1 DEF Within
  <2>3. IdsToCome(session) \in Nat
    BY <1>1, <2>2, IdsToComeIs
  <2>4. PICK i, c : i = IdsToCome(session) /\ c = CountOf(down, "fatal")
    OBVIOUS
  <2>5. i + c + events <= NumRequests + MaxEvents
    BY <1>1, <1>2, <2>1, <2>2, <2>3, <2>4
  <2> QED BY <2>2, <2>4, <2>5
<1> QED BY <1>3, <1>4 DEF IdsAreFew, Few, Fresh

\* What is counted grows by gain, and the errors on the way by less, for as many incidents.
LEMMA FewOn ==
    ASSUME NEW s, NEW t, NEW d \in Seq(ServerMessage), NEW e \in Seq(ServerMessage),
           NEW n \in Nat, NEW m \in Nat, NEW gain \in Nat, NEW loss \in Nat, FewIn(s, d, n),
           \A b \in Nat : Within(s, b) => Within(t, b + gain),
           m + loss <= n, gain + CountOf(e, "fatal") <= CountOf(d, "fatal") + loss
    PROVE  FewIn(t, e, m)
<1>1. PICK b \in Nat : Within(s, b) /\ b + CountOf(d, "fatal") + n <= NumRequests + MaxEvents
  BY DEF FewIn
<1>2. CountOf(d, "fatal") \in Nat /\ CountOf(e, "fatal") \in Nat
      /\ NumRequests \in Nat /\ MaxEvents \in Nat
  BY CountIs, SessionAssumption
<1>3. PICK c, k : c = CountOf(d, "fatal") /\ k = CountOf(e, "fatal")
  OBVIOUS
<1>4. (b + gain) + k + m <= NumRequests + MaxEvents
  BY <1>1, <1>2, <1>3
<1> QED BY <1>1, <1>3, <1>4 DEF FewIn

\* No id is given, and no error comes.
LEMMA AsideFew ==
    ASSUME Holds, Holds', Few, events' <= events, down' = down \/ down' = <<>>,
           server'.stored \subseteq server.stored, Asked \subseteq Asked',
           AllPairs(session') \subseteq AllPairs(session), session'.msgId = session.msgId,
           session'.delayed \subseteq session.delayed,
           session'.haveReceived = session.haveReceived
    PROVE  Few'
<1>1. session \in Sessions /\ down \in Seq(ServerMessage) /\ events \in 0..MaxEvents
  BY SessionIs
<1>2. session' \in Sessions /\ down' \in Seq(ServerMessage) /\ events' \in 0..MaxEvents
  BY DEF Holds, Both, Sound
<1>3. events \in Nat /\ events' \in Nat /\ FewIn(session, down, events)
  BY <1>1, <1>2 DEF Few
<1>4. CountOf(down, "fatal") \in Nat /\ CountOf(down', "fatal") <= CountOf(down, "fatal")
  <2>1. CountOf(down, "fatal") \in Nat
    BY <1>1, CountIs
  <2>2. PICK d : d = down'
    OBVIOUS
  <2>3. d = down \/ CountOf(d, "fatal") = 0
    BY <2>2, CountOfNone
  <2>4. CountOf(d, "fatal") <= CountOf(down, "fatal")
    BY <2>1, <2>3
  <2> QED BY <2>1, <2>2, <2>4
<1>5. \A b \in Nat : Within(session, b) => Within(session', b + 0)
  BY <1>1, <1>2, AsideWithin
<1>6. FewIn(session', down', events')
  <2>1. PICK t, e, m, gain, loss :
           t = session' /\ e = down' /\ m = events' /\ gain = 0 /\ loss = 0
    OBVIOUS
  <2>2. CountOf(e, "fatal") \in Nat
    BY <1>2, <2>1, CountIs
  <2>3. m + loss <= events /\ gain + CountOf(e, "fatal") <= CountOf(down, "fatal") + loss
    <3>1. m <= events /\ CountOf(e, "fatal") <= CountOf(down, "fatal") /\ loss = 0 /\ gain = 0
      BY <1>4, <2>1
    <3>2. PICK c, k : c = CountOf(down, "fatal") /\ k = CountOf(e, "fatal")
      OBVIOUS
    <3>3. c \in Nat /\ k \in Nat /\ k <= c
      BY <1>4, <2>2, <3>1, <3>2
    <3>4. m + loss <= events
      <4>1. m \in Nat
        BY <1>3, <2>1
      <4> QED BY <3>1, <4>1
    <3>5. gain + k <= c + loss
      BY <3>1, <3>3
    <3> QED BY <3>2, <3>4, <3>5
  <2>4. FewIn(t, e, m)
    BY <1>1, <1>2, <1>3, <1>5, <2>1, <2>3, FewOn
  <2> QED BY <2>1, <2>4
<1>7. Fresh(session', Asked')
  BY DEF Few, Fresh
<1>8. \A m \in server'.stored : m.kind # "fatal"
  BY DEF Few
<1> QED BY <1>6, <1>7, <1>8 DEF Few

-----------------------------------------------------------------------------
(* The ids stay few: the steps of the client                               *)

\* tryToSend(), when there is nothing to send.
LEMMA TryInVainFew ==
    ASSUME Holds, Holds', Few, TryInVain
    PROVE  Few'
<1>1. session' = [session EXCEPT !.wantSend = FALSE,
                    !.started = session.started \/ session.state = "connected"]
      /\ UNCHANGED <<callback, down, server, events>> /\ session \in Sessions /\ events \in 0..MaxEvents
  BY SessionIs DEF TryInVain
<1>2. /\ session'.msgId = session.msgId /\ session'.delayed = session.delayed
      /\ session'.haveReceived = session.haveReceived /\ AllPairs(session') = AllPairs(session)
  BY <1>1 DEF Sessions, AllPairs
<1> QED BY <1>1, <1>2, AsideFew DEF Asked

\* clearOldContainers().
LEMMA ClearOldContainerFew ==
    ASSUME Holds, Holds', Few, ClearOldContainer
    PROVE  Few'
<1>1. PICK box \in session.containers : session' = Cleared(session, box)
  BY DEF ClearOldContainer
<1>2. PICK t : t = ResendIds(session, box.ids)
  OBVIOUS
<1>3. Quietly(session, t)
  BY <1>2, ResendIdsLess, SessionIs
<1>4. /\ t \in Sessions /\ AllPairs(t) \subseteq AllPairs(session) /\ t.msgId = session.msgId
      /\ t.delayed \subseteq session.delayed /\ t.haveReceived = session.haveReceived
  BY <1>3 DEF Quietly, Less
<1>5. session' = [t EXCEPT !.containers = @ \ {box}, !.wantSend = @ \/ box.ids # {}]
  BY <1>1, <1>2 DEF Cleared
<1>6. /\ session'.msgId = t.msgId /\ session'.delayed = t.delayed
      /\ session'.haveReceived = t.haveReceived /\ AllPairs(session') = AllPairs(t)
  BY <1>4, <1>5 DEF Sessions, AllPairs
<1>7. events' <= events /\ UNCHANGED <<callback, down, server>>
  BY SessionIs DEF ClearOldContainer, Incident
<1> QED BY <1>4, <1>6, <1>7, AsideFew DEF Asked

\* authKeyChecked().
LEMMA ConnectFew ==
    ASSUME Holds, Holds', Few, Connect
    PROVE  Few'
<1>0. session \in Sessions /\ UNCHANGED <<callback, down, server, events>> /\ events \in 0..MaxEvents
  BY SessionIs DEF Connect
<1>1. PICK fresh : fresh = [session EXCEPT !.pingMsgId = 0, !.pingToSend = TRUE, !.wantSend = TRUE]
  OBVIOUS
<1>2. PICK st : st = IF session.salt = NoSalt THEN "connecting" ELSE "connected"
  OBVIOUS
<1>3. PICK t : t = [fresh EXCEPT !.state = st]
  OBVIOUS
<1>4. session' = t \/ session' = ResendAll(t)
  BY <1>1, <1>2, <1>3 DEF Connect
<1>5. fresh \in Sessions
  BY <1>0, <1>1, ZenonT(60) DEF Sessions
<1>6. t \in Sessions
  <2>1. st \in {"disconnected", "connecting", "connected", "stopped"}
    BY <1>2
  <2> QED BY <1>3, <1>5, <2>1, ZenonT(60) DEF Sessions
<1>7. /\ t.msgId = session.msgId /\ t.delayed = session.delayed
      /\ t.haveReceived = session.haveReceived /\ AllPairs(t) = AllPairs(session)
  BY <1>0, <1>1, <1>3 DEF Sessions, AllPairs
<1>8. Quietly(t, ResendAll(t))
  BY <1>6, ResendAllLess
<1>9. /\ session'.msgId = session.msgId /\ session'.delayed \subseteq session.delayed
      /\ session'.haveReceived = session.haveReceived
      /\ AllPairs(session') \subseteq AllPairs(session)
  <2>1. CASE session' = t
    BY <1>7, <2>1
  <2>2. CASE session' = ResendAll(t)
    BY <1>7, <1>8, <2>2 DEF Quietly, Less
  <2> QED BY <1>4, <2>1, <2>2
<1> QED BY <1>0, <1>9, AsideFew DEF Asked

\* needToResumeAndSend().
LEMMA ResumeFew ==
    ASSUME Holds, Holds', Few, Resume
    PROVE  Few'
<1>1. session' = [session EXCEPT !.state = "disconnected"]
      /\ UNCHANGED <<callback, down, server, events>> /\ session \in Sessions /\ events \in 0..MaxEvents
  BY SessionIs DEF Resume, Disconnected
<1>2. /\ session'.msgId = session.msgId /\ session'.delayed = session.delayed
      /\ session'.haveReceived = session.haveReceived /\ AllPairs(session') = AllPairs(session)
  BY <1>1 DEF Sessions, AllPairs
<1> QED BY <1>1, <1>2, AsideFew DEF Asked

\* checkSentRequests().
LEMMA CheckSentRequestsFew ==
    ASSUME Holds, Holds', Few, CheckSentRequests
    PROVE  Few'
<1>1. PICK old : session' = [session EXCEPT !.stateReq = @ \cup old,
                               !.wantSend = @ \/ ~(old \subseteq session.stateReq),
                               !.checkTimer = old # Ids(session.haveSent)]
  BY DEF CheckSentRequests
<1>2. session \in Sessions /\ UNCHANGED <<callback, down, server>> /\ events' <= events
  BY SessionIs DEF CheckSentRequests, Incident
<1>3. /\ session'.msgId = session.msgId /\ session'.delayed = session.delayed
      /\ session'.haveReceived = session.haveReceived /\ AllPairs(session') = AllPairs(session)
  BY <1>1, <1>2 DEF Sessions, AllPairs
<1> QED BY <1>2, <1>3, AsideFew, SMTT(30) DEF Asked

\* cancel().
LEMMA CancelFew ==
    ASSUME Holds, Holds', Few, NEW r \in Requests, Cancel(r)
    PROVE  Few'
<1>1. session \in Sessions /\ callback \in [Requests -> {"none", "waiting", "called", "cancelled"}]
      /\ UNCHANGED <<down, server>> /\ events' <= events
  BY SessionIs DEF Cancel, Incident
<1>2. PICK sent : sent = {p \in session.haveSent : p[1] # session.msgId[r]}
  OBVIOUS
<1>3. session' = [session EXCEPT !.toSend = session.toSend \ {r}, !.delayed = session.delayed \ {r},
                                 !.haveSent = sent]
  BY <1>2 DEF Cancel
<1>4. /\ session'.msgId = session.msgId /\ session'.delayed = session.delayed \ {r}
      /\ session'.haveReceived = session.haveReceived /\ session'.haveSent = sent
      /\ session'.resending = session.resending /\ session'.acked = session.acked
  BY <1>1, <1>3 DEF Sessions
<1>5. AllPairs(session') \subseteq AllPairs(session)
  BY <1>2, <1>4 DEF AllPairs
<1>6. Asked \subseteq Asked'
  BY <1>1 DEF Asked, Cancel
<1> QED BY <1>1, <1>4, <1>5, <1>6, AsideFew

\* The connection is closed.
LEMMA CloseFew ==
    ASSUME Holds, Holds', Few, CloseConnection, Incident, UNCHANGED callback,
           AllPairs(session') \subseteq AllPairs(session), session'.msgId = session.msgId,
           session'.delayed = session.delayed, session'.haveReceived = session.haveReceived
    PROVE  Few'
<1>1. down' = <<>> /\ server'.stored = server.stored /\ events' <= events
  BY SessionIs DEF CloseConnection, Servers, Incident
<1> QED BY <1>1, AsideFew DEF Asked

\* onDisconnected(), applyAuthKey() and stop().
LEMMA ConnectionFew ==
    ASSUME Holds, Holds', Few, Connection
    PROVE  Few'
<1>0. session \in Sessions
  BY SessionIs
<1>1. CASE Drop
  <2>1. session' = [session EXCEPT !.state = "disconnected"] /\ CloseConnection
        /\ Incident /\ UNCHANGED callback
    BY <1>1 DEF Drop, Disconnected
  <2>2. /\ session'.msgId = session.msgId /\ session'.delayed = session.delayed
        /\ session'.haveReceived = session.haveReceived /\ AllPairs(session') = AllPairs(session)
    BY <1>0, <2>1 DEF Sessions, AllPairs
  <2> QED BY <2>1, <2>2, CloseFew
<1>2. CASE Rekey
  <2>1. session' = NewSessionId(Disconnected(session)) /\ CloseConnection
        /\ Incident /\ UNCHANGED callback
    BY <1>2 DEF Rekey
  <2>2. /\ session'.msgId = session.msgId /\ session'.delayed = session.delayed
        /\ session'.haveReceived = session.haveReceived /\ AllPairs(session') = AllPairs(session)
    BY <1>0, <2>1 DEF NewSessionId, Disconnected, Sessions, AllPairs
  <2> QED BY <2>1, <2>2, CloseFew
<1>3. CASE Stop
  <2>1. session' = [NewPrivate(session) EXCEPT !.state = "stopped", !.number = @ + 1]
        /\ CloseConnection /\ Incident /\ UNCHANGED callback
    BY <1>3 DEF Stop
  <2>2. PICK t : t = session'
    OBVIOUS
  <2>3. /\ t.msgId = session.msgId /\ t.delayed = session.delayed
        /\ t.haveReceived = session.haveReceived /\ t.haveSent = session.haveSent
        /\ t.resending = {} /\ t.acked = {}
    BY <1>0, <2>1, <2>2, ZenonT(60) DEF NewPrivate, Sessions
  <2>4. AllPairs(t) \subseteq AllPairs(session)
    BY <2>3 DEF AllPairs
  <2> QED BY <2>1, <2>2, <2>3, <2>4, CloseFew
<1> QED BY <1>1, <1>2, <1>3 DEF Connection

\* What is counted when the client moves, and no message comes or goes.
LEMMA ClientFew ==
    ASSUME Holds, Holds', Few, UNCHANGED <<down, server>>, NEW gain \in Nat,
           \A b \in Nat : Within(session, b) => Within(session', b + gain),
           events' + gain <= events, Fresh(session', Asked')
    PROVE  Few'
<1>1. down \in Seq(ServerMessage) /\ events \in Nat /\ FewIn(session, down, events)
  BY SessionIs DEF Few
<1>2. events' \in Nat
  BY DEF Holds
<1>3. PICK t, e, m : t = session' /\ e = down /\ m = events'
  OBVIOUS
<1>4. gain + CountOf(e, "fatal") <= CountOf(down, "fatal") + gain
  BY <1>1, <1>3, CountIs
<1>5. FewIn(t, e, m)
  BY <1>1, <1>2, <1>3, <1>4, FewOn
<1> QED BY <1>3, <1>5 DEF Few

\* sendRequest(): the first request is one of those that have no id, the others are incidents.
LEMMA SendRequestFew ==
    ASSUME Holds, Holds', Few, NEW r \in Requests, SendRequest(r)
    PROVE  Few'
<1>1. callback[r] = "none" /\ session' = SendPrepared(session, r) /\ session \in Sessions
      /\ callback' = [callback EXCEPT ![r] = "waiting"] /\ UNCHANGED <<down, server>>
      /\ callback \in [Requests -> {"none", "waiting", "called", "cancelled"}]
      /\ events' <= events /\ events \in Nat
  BY SessionIs DEF SendRequest, Incident
<1>2. session.msgId[r] = 0 /\ Asked' = Asked \cup {r}
  <2>1. r \notin Asked /\ Asked' = Asked \cup {r}
    BY <1>1 DEF Asked
  <2> QED BY <2>1 DEF Few, Fresh
<1>3. PICK t, none : t = SendPrepared(session, r) /\ none = 0
  OBVIOUS
<1>4. \A b \in Nat : Within(session, b) => Within(t, b + none)
  <2>1. \A b \in Nat : Within(session, b) => Within(t, b)
    BY <1>1, <1>2, <1>3, SendPreparedWithin
  <2> QED BY <1>3, <2>1
<1>5. Fresh(session', Asked')
  <2>1. session.msgId \in [Requests -> Nat]
    BY <1>1 DEF Sessions
  <2>2. session'.msgId = [session.msgId EXCEPT ![r] = 0]
    BY <1>1 DEF SendPrepared, Sessions
  <2> QED BY <1>2, <2>1, <2>2 DEF Few, Fresh
<1>6. events' + none <= events
  <2>1. PICK e : e = events'
    OBVIOUS
  <2>2. e \in Nat /\ e <= events /\ events \in Nat
    BY <1>1, <2>1 DEF Holds
  <2>3. e + none <= events
    BY <1>3, <2>2
  <2> QED BY <2>1, <2>3
<1> QED BY <1>1, <1>3, <1>4, <1>5, <1>6, ClientFew

\* A request that waits for its retry is one that waits.
LEMMA DelayedLess ==
    ASSUME NEW s \in Sessions, NEW r \in s.delayed, NEW b \in Nat, Within(s, b)
    PROVE  LET t == [s EXCEPT !.delayed = s.delayed \ {r}]
           IN  t \in Sessions /\ b - 1 \in Nat /\ Within(t, b - 1)
<1>1. PICK t, left : t = [s EXCEPT !.delayed = left] /\ left = s.delayed \ {r}
  OBVIOUS
<1>2. left \in SUBSET Requests
  BY <1>1 DEF Sessions
<1>3. t \in Sessions
  BY <1>1, <1>2, ZenonT(60) DEF Sessions
<1>4. /\ t.delayed = left /\ t.msgId = s.msgId /\ t.haveReceived = s.haveReceived
      /\ AllPairs(t) = AllPairs(s)
  BY <1>1 DEF Sessions, AllPairs
<1>5. UsedIds(t) = UsedIds(s) /\ Unsent(t) = Unsent(s)
  BY <1>4 DEF UsedIds, Unsent
<1>6. IsFiniteSet(UsedIds(s)) /\ IdsToCome(s) <= b
  BY DEF Within
<1>7. IsFiniteSet(s.delayed)
  BY <1>6, IdsToComeIs
<1>8. Cardinality(left) = Cardinality(s.delayed) - 1
  BY <1>1, <1>7, FS_RemoveElement
<1>9. PICK i, j, k, l, m : /\ i = Cardinality(UsedIds(s)) /\ j = Cardinality(Unsent(s))
                           /\ k = Cardinality(s.delayed) /\ l = CountOf(s.haveReceived, "error")
                           /\ m = Cardinality(left)
  OBVIOUS
<1>10. i \in Nat /\ j \in Nat /\ k \in Nat /\ l \in Nat /\ IdsToCome(s) = i + j + k + l
  BY <1>6, <1>9, IdsToComeIs
<1>11. m \in Nat /\ IdsToCome(t) = i + j + m + l
  BY <1>3, <1>4, <1>5, <1>6, <1>9, IdsToComeIs
<1>12. m = k - 1
  BY <1>8, <1>9
<1>13. b - 1 \in Nat /\ IdsToCome(t) <= b - 1
  BY <1>6, <1>10, <1>11, <1>12
<1>14. Within(t, b - 1)
  BY <1>5, <1>6, <1>13 DEF Within
<1> QED BY <1>1, <1>3, <1>13, <1>14

\* checkDelayedRequests(): the request that waits for its retry gives its id away.
LEMMA RetryFew ==
    ASSUME Holds, Holds', Few, Retry
    PROVE  Few'
<1>1. PICK r \in session.delayed :
         session' = SendPrepared([session EXCEPT !.delayed = @ \ {r}], r)
  BY DEF Retry
<1>2. PICK s : s = [session EXCEPT !.delayed = session.delayed \ {r}]
  OBVIOUS
<1>3. session \in Sessions /\ r \in Requests /\ r \in Asked /\ UNCHANGED <<callback, down, server, events>>
  BY SessionIs DEF Sessions, Retry, Sound
<1>4. PICK t, none : t = SendPrepared(s, r) /\ none = 0
  OBVIOUS
<1>5. ASSUME NEW b \in Nat, Within(session, b) PROVE Within(t, b + none)
  <2>1. s \in Sessions /\ b - 1 \in Nat /\ Within(s, b - 1)
    BY <1>2, <1>3, <1>5, DelayedLess
  <2>2. PICK c : c = b - 1
    OBVIOUS
  <2>3. Within(t, c + 1)
    BY <1>3, <1>4, <2>1, <2>2, SendPreparedWithin
  <2>4. c + 1 = b + none
    BY <1>4, <2>1, <2>2
  <2> QED BY <2>3, <2>4
<1>6. Fresh(session', Asked')
  <2>1. s.msgId = session.msgId
    BY <1>2, <1>3 DEF Sessions
  <2>2. session'.msgId = [session.msgId EXCEPT ![r] = 0]
    BY <1>1, <1>2, <1>3, <2>1 DEF SendPrepared, Sessions
  <2>3. Asked' = Asked
    BY <1>3 DEF Asked
  <2> QED BY <1>3, <2>2, <2>3 DEF Few, Fresh, Sessions
<1>7. events' + none <= events
  BY <1>3, <1>4, SessionIs
<1> QED BY <1>1, <1>2, <1>3, <1>4, <1>5, <1>6, <1>7, ClientFew

\* tryToReceive(): of an error becomes a request that waits for its retry.
LEMMA DeliverFew ==
    ASSUME Holds, Holds', Few, Deliver
    PROVE  Few'
<1>1. PICK q, m : q = session.haveReceived /\ m = Head(session.haveReceived)
  OBVIOUS
<1>2. session \in Sessions /\ q \in Seq(Response) /\ q # <<>>
      /\ UNCHANGED <<down, server, events>>
  BY <1>1, SessionIs, SMTT(30) DEF Deliver, Sessions
<1>3. PICK handled, delayed :
         /\ session' = [session EXCEPT !.haveReceived = Tail(q), !.handled = handled,
                                       !.delayed = delayed]
         /\ delayed = IF m.kind = "error" /\ HasCallback(m.about)
                      THEN session.delayed \cup {m.about} ELSE session.delayed
         /\ callback' = IF m.kind = "answer" /\ HasCallback(m.about)
                        THEN [callback EXCEPT ![m.about] = "called"] ELSE callback
  BY <1>1, DeliverIs
<1>4. PICK t, none : t = session' /\ none = 0
  OBVIOUS
<1>5. /\ t.haveReceived = Tail(q) /\ t.msgId = session.msgId /\ t.delayed = delayed
      /\ AllPairs(t) = AllPairs(session)
  BY <1>2, <1>3, <1>4 DEF Sessions, AllPairs
<1>6. t \in Sessions
  BY <1>4 DEF Holds, Both, Sound
<1>7. UsedIds(t) = UsedIds(session) /\ Unsent(t) = Unsent(session)
  BY <1>5 DEF UsedIds, Unsent
<1>8. ASSUME NEW b \in Nat, Within(session, b) PROVE Within(t, b + none)
  <2>1. IsFiniteSet(UsedIds(session)) /\ IdsToCome(session) <= b
    BY <1>8 DEF Within
  <2>2. IsFiniteSet(session.delayed)
    BY <1>2, <2>1, IdsToComeIs
  <2>3. Cardinality(delayed) <= Cardinality(session.delayed) + One(m, "error")
    <3>1. Cardinality(session.delayed) \in Nat
      BY <2>2, FS_CardinalityType
    <3>2. CASE m.kind = "error"
      <4>1. PICK V, W : V = session.delayed /\ W = V \cup {m.about}
        OBVIOUS
      <4>2. Cardinality(W) = Cardinality(V) \/ Cardinality(W) = Cardinality(V) + 1
        BY <2>2, <4>1, FS_AddElement, Zenon
      <4>3. delayed = V \/ delayed = W
        BY <1>3, <4>1
      <4>4. One(m, "error") = 1
        BY <3>2 DEF One
      <4>5. PICK i, j, k : i = Cardinality(V) /\ j = Cardinality(W) /\ k = Cardinality(delayed)
        OBVIOUS
      <4>6. i \in Nat /\ (j = i \/ j = i + 1) /\ (k = i \/ k = j)
        BY <3>1, <4>1, <4>2, <4>3, <4>5
      <4>7. k <= i + 1
        BY <4>6
      <4> QED BY <4>1, <4>4, <4>5, <4>7
    <3>3. CASE m.kind # "error"
      <4>1. delayed = session.delayed /\ One(m, "error") = 0
        BY <1>3, <3>3 DEF One
      <4> QED BY <3>1, <4>1
    <3> QED BY <3>2, <3>3
  <2>4. /\ CountOf(Tail(q), "error") + One(m, "error") = CountOf(q, "error")
        /\ CountOf(Tail(q), "error") \in Nat /\ One(m, "error") \in Nat
    <3>1. PICK kind : kind = "error"
      OBVIOUS
    <3>2. m = Head(q)
      BY <1>1
    <3>3. CountOf(Tail(q), kind) + One(Head(q), kind) = CountOf(q, kind) /\ CountOf(Tail(q), kind) \in Nat
      BY <1>2, CountOfTail
    <3> QED BY <3>1, <3>2, <3>3 DEF One
  <2>5. PICK i, j, k, l, u, v, o :
           /\ i = Cardinality(UsedIds(session)) /\ j = Cardinality(Unsent(session))
           /\ k = Cardinality(session.delayed) /\ l = CountOf(q, "error")
           /\ u = Cardinality(delayed) /\ v = CountOf(Tail(q), "error") /\ o = One(m, "error")
    OBVIOUS
  <2>6. i \in Nat /\ j \in Nat /\ k \in Nat /\ l \in Nat /\ IdsToCome(session) = i + j + k + l
    BY <1>1, <1>2, <2>1, <2>5, IdsToComeIs
  <2>7. u \in Nat /\ IdsToCome(t) = i + j + u + v
    BY <1>5, <1>6, <1>7, <2>1, <2>5, IdsToComeIs
  <2>8. u <= k + o /\ v + o = l /\ v \in Nat /\ o \in Nat
    BY <2>3, <2>4, <2>5
  <2>9. IdsToCome(t) <= b
    BY <2>1, <2>6, <2>7, <2>8
  <2> QED BY <1>4, <1>7, <2>1, <2>9 DEF Within
<1>9. Asked' = Asked
  <2>1. callback \in [Requests -> {"none", "waiting", "called", "cancelled"}]
    BY SessionIs
  <2> QED BY <1>3, <2>1 DEF Asked, HasCallback
<1>10. Fresh(session', Asked')
  BY <1>4, <1>5, <1>9 DEF Few, Fresh
<1>11. events' + none <= events
  BY <1>2, <1>4, SessionIs
<1> QED BY <1>2, <1>4, <1>8, <1>10, <1>11, ClientFew

\* tryToSend(): only requests that were asked for get an id.
LEMMA PreparedAllFresh ==
    ASSUME NEW s, NEW a \in SUBSET Requests, NEW f, NEW x, Sound(s, a, f, x), Fresh(s, a),
           NEW first, first \subseteq s.toSend, NEW n \in Nat
    PROVE  Fresh(PreparedAll(s, first, n), a)
<1>0. s \in Sessions /\ first \subseteq a
  BY DEF Sound
<1>1. PICK begun, force : /\ begun = [s EXCEPT !.started = @ \/ s.state = "connected", !.wantSend = FALSE]
                          /\ force = ForceNewMsgId(s)
  OBVIOUS
<1>2. PICK g : PreparesTurns(g, s, first, n)
  BY PreparesRun
<1>3. g[0] = begun /\ g[NumRequests] = PreparedAll(s, first, n)
  BY <1>1, <1>2 DEF PreparesTurns
<1>4. PICK go : go = (s.started \/ s.state = "connected")
  OBVIOUS
<1>5. go \in BOOLEAN /\ begun = [s EXCEPT !.started = go, !.wantSend = FALSE]
  BY <1>1, <1>4
<1>6. begun \in Sessions
  BY <1>0, <1>5, ZenonT(60) DEF Sessions
<1>7. begun.msgId = s.msgId
  BY <1>0, <1>5 DEF Sessions
<1> DEFINE T == {i \in 0..NumRequests : /\ Fresh(g[i], a)
                                        /\ Sound(g[i], a, f, x)}
<1>8. 0 \in T
  <2>1. /\ AllPairs(begun) = AllPairs(s) /\ begun.received = s.received
        /\ begun.toSend = s.toSend /\ begun.delayed = s.delayed
        /\ begun.haveReceived = s.haveReceived
    BY <1>0, <1>5 DEF Sessions, AllPairs
  <2>2. Sound(begun, a, f, x)
    BY <1>6, <1>7, <2>1 DEF Sound
  <2> QED BY <1>3, <1>7, <2>2, SessionAssumption DEF Fresh
<1>9. ASSUME NEW i \in 0..NumRequests, i \in T, i < NumRequests PROVE i + 1 \in T
  <2>1. i + 1 \in 1..NumRequests /\ (i + 1) - 1 = i /\ i + 1 \in 0..NumRequests
    BY <1>9, SessionAssumption
  <2>2. PICK b, c, r : b = g[i] /\ c = g[i + 1] /\ r = i + 1
    OBVIOUS
  <2>3. c = IF r \in first THEN Prepared(b, r, n, force) ELSE b
    BY <1>1, <1>2, <2>1, <2>2 DEF PreparesTurns
  <2>4. Sound(b, a, f, x) /\ Fresh(b, a)
    BY <1>9, <2>2
  <2>5. CASE r \in first
    <3>1. r \in a /\ r \in Requests /\ c = Prepared(b, r, n, force) /\ b \in Sessions
      BY <1>0, <2>3, <2>4, <2>5 DEF Sound
    <3>2. Sound(c, a, f, x)
      BY <2>4, <3>1, PreparedSound
    <3>3. PICK id, sent, acked : IsPrepared(b, c, r, b.msgId[r], id, sent, acked)
      BY <3>1, PreparedIs
    <3>4. c.msgId = [b.msgId EXCEPT ![r] = id]
      BY <3>3 DEF IsPrepared
    <3>5. Fresh(c, a)
      BY <2>4, <3>1, <3>4 DEF Fresh, Sessions
    <3> QED BY <2>1, <2>2, <3>2, <3>5
  <2>6. CASE r \notin first
    BY <2>1, <2>2, <2>3, <2>4, <2>6
  <2> QED BY <2>5, <2>6
<1> HIDE DEF T
<1>10. NumRequests \in T
  <2>1. NumRequests \in Nat
    BY SessionAssumption
  <2>2. \A i \in 0..NumRequests : i \in T
    BY <1>8, <1>9, <2>1, Upwards
  <2> QED BY <2>1, <2>2
<1> QED BY <1>3, <1>10 DEF T

\* tryToSend(): a request gets an id when it has none, or for the one it has.
LEMMA TryToSendFew ==
    ASSUME Holds, Holds', Few, TryToSend
    PROVE  Few'
<1>1. PICK n : n = session.packets + 1
  OBVIOUS
<1>2. session \in Sessions /\ UNCHANGED <<callback, down, server, events>> /\ n \in Nat
  <2>1. session \in Sessions /\ UNCHANGED <<callback, down, server, events>>
    BY SessionIs DEF TryToSend
  <2> QED BY <1>1, <2>1 DEF Sessions
<1>3. PICK first \in FirstToSend(session) :
         \E t : t = PreparedAll(session, first, n) /\ SendsPacket(first, t, n)
  BY <1>1 DEF TryToSend
<1>4. PICK t : t = PreparedAll(session, first, n) /\ SendsPacket(first, t, n)
  BY <1>3
<1>5. first \subseteq session.toSend
  <2>1. CASE session.state # "connected" \/ session.toSend = {}
    <3>1. first = {}
      BY <2>1 DEF FirstToSend
    <3> QED BY <3>1
  <2>2. CASE ~(session.state # "connected" \/ session.toSend = {})
    BY <2>2 DEF FirstToSend
  <2> QED BY <2>1, <2>2
<1>6. Asked \in SUBSET Requests /\ Sound(session, Asked, server.refused, server.executed)
  BY SessionIs
<1>7. t \in Sessions
  <2>1. Sound(t, Asked, server.refused, server.executed)
    BY <1>2, <1>4, <1>5, <1>6, PreparedAllSound
  <2> QED BY <2>1 DEF Sound
<1>8. Fresh(t, Asked)
  BY <1>2, <1>4, <1>5, <1>6, PreparedAllFresh DEF Few
<1>9. PICK u : u = session'
  OBVIOUS
<1>10. u.msgId = t.msgId /\ u.delayed = t.delayed /\ u.haveReceived = t.haveReceived
       /\ AllPairs(u) = AllPairs(t)
  <2> DEFINE service == Service(session, n)
             requests == {[id |-> t.msgId[r], kind |-> "request", ids |-> {r}] : r \in first}
             messages == service \cup requests
             alone == Cardinality(messages) = 1 /\ first \cap session.inContainer = {}
             packetId == IF alone THEN (CHOOSE m \in messages : TRUE).id
                         ELSE MsgId(n, ContainerSlot)
             inside == {m.id : m \in {k \in messages : k.kind \in {"ping", "request"}}}
             clear(ids) == IF session.state = "connected" THEN {} ELSE ids
  <2>1. PICK wantSend, ping, acks, resend, state, sent, containers, timer :
           /\ wantSend = (first # {} /\ t.toSend # {})
           /\ ping = (IF session.pingToSend THEN MsgId(n, PingSlot) ELSE t.pingMsgId)
           /\ acks = clear(t.acks) /\ resend = clear(t.resendReq) /\ state = clear(t.stateReq)
           /\ sent = t.stateReqsSent \cup {m \in service : m.kind = "state"}
           /\ containers = (IF alone THEN t.containers
                            ELSE t.containers \cup {[id |-> packetId, ids |-> inside]})
           /\ timer = (t.checkTimer \/ (~alone /\ first # {}))
    BY ZenonT(60)
  <2>2. session' = [t EXCEPT !.packets = n, !.wantSend = wantSend, !.pingToSend = FALSE,
                             !.pingMsgId = ping, !.acks = acks, !.resendReq = resend,
                             !.stateReq = state, !.stateReqsSent = sent,
                             !.containers = containers, !.checkTimer = timer]
    BY <1>4, <2>1, ZenonT(60) DEF SendsPacket
  <2> HIDE DEF service, requests, messages, alone, packetId, inside, clear
  <2> QED BY <1>7, <1>9, <2>2 DEF Sessions, AllPairs
<1>11. u \in Sessions
  BY <1>9 DEF Holds, Both, Sound
<1>12. PICK none : none = 0
  OBVIOUS
<1>13. \A b \in Nat : Within(session, b) => Within(u, b + none)
  <2>1. ASSUME NEW b \in Nat, Within(session, b) PROVE Within(u, b)
    <3>1. Within(t, b)
      BY <1>2, <1>4, <1>5, <1>6, <2>1, PreparedAllWithin
    <3> QED BY <1>7, <1>10, <1>11, <3>1, AsideWithin
  <2> QED BY <1>12, <2>1
<1>14. Fresh(session', Asked')
  <2>1. Asked' = Asked
    BY <1>2 DEF Asked
  <2> QED BY <1>8, <1>9, <1>10, <2>1 DEF Fresh
<1>15. events' + none <= events
  BY <1>2, <1>12, SessionIs
<1> QED BY <1>2, <1>9, <1>12, <1>13, <1>14, <1>15, ClientFew

\* handleReceived(): of an error of the server becomes one for the main thread.
LEMMA HandleReceivedFew ==
    ASSUME Holds, Holds', Few, HandleReceived
    PROVE  Few'
<1>1. PICK done, batch, t : HandlesBatch(done, batch, t)
  BY HandlesABatch
<1>2. PICK f, x, a, last, L : /\ f = server.refused /\ x = server.executed /\ a = Asked
                              /\ last = server.last /\ L = LiveOf(session, server, down)
  OBVIOUS
<1>3. /\ UNCHANGED <<callback, events>> /\ session \in Sessions /\ last \in Nat
      /\ down \in Seq(ServerMessage) /\ events \in Nat
      /\ L \in SUBSET Nat /\ a \in SUBSET Requests /\ Sound(session, a, f, x) /\ Once(session, L, last)
  <2>1. UNCHANGED <<callback, events>> /\ last \in Nat /\ events \in Nat
    BY <1>2, SessionIs DEF HandleReceived, Servers
  <2> QED BY <1>2, <2>1, SessionIs, LiveIs
<1>4. /\ Len(batch) \in Nat \ {0} /\ Len(batch) <= Len(down)
      /\ \A i \in 1..Len(batch) : batch[i] = down[i] /\ batch[i] \in Range(down)
      /\ done = HandledBatch(session, batch)
      /\ Fine(done, session, L, last, a, f, x)
      /\ t = [done.s EXCEPT !.received = Largest(@), !.wantSend = @ \/ done.s.acks # {}]
  BY <1>1, <1>2 DEF HandlesBatch
<1>5. \A i \in 1..Len(batch) :
         /\ Told(batch[i], f, x) /\ batch[i].id <= last
         /\ batch[i].kind \in {"update", "session"} => batch[i].id \in L
  <2>1. \A m \in Range(down) :
           /\ Told(m, f, x) /\ m.id <= last
           /\ m.kind \in {"update", "session"} => m.id \in L
    BY <1>2 DEF Holds, Both, DownFine, LiveOf
  <2> QED BY <1>4, <2>1
<1>6. PICK gain, k : gain = CountUpTo(down, k, "fatal") /\ k = Len(batch)
  OBVIOUS
<1>7. CountUpTo(batch, k, "fatal") = gain
  BY <1>4, <1>6 DEF CountUpTo
<1>8. done.s \in Sessions /\ done.s.msgId = session.msgId
  BY <1>4 DEF Fine, Sound, Stays
<1>9. /\ t.msgId = done.s.msgId /\ t.delayed = done.s.delayed
      /\ t.haveReceived = done.s.haveReceived /\ AllPairs(t) = AllPairs(done.s)
  BY <1>4, <1>8 DEF Sessions, AllPairs
<1>10. t \in Sessions
  <2>1. PICK w, more : w = Largest(done.s.received) /\ more = (done.s.wantSend \/ done.s.acks # {})
    OBVIOUS
  <2>2. t = [done.s EXCEPT !.received = w, !.wantSend = more]
    BY <1>4, <2>1
  <2>3. w \in SUBSET Nat /\ more \in BOOLEAN
    BY <1>8, <2>1 DEF Largest, Sessions
  <2> QED BY <1>8, <2>2, <2>3, ZenonT(60) DEF Sessions
<1>11. /\ session'.msgId = t.msgId /\ session'.delayed = t.delayed
       /\ session'.haveReceived = t.haveReceived /\ AllPairs(session') = AllPairs(t)
  <2>1. CASE done.outcome = "reset"
    <3>1. session' = NewSessionId(Disconnected(t))
      BY <1>1, <2>1 DEF HandlesBatch
    <3> QED BY <1>10, <3>1 DEF NewSessionId, Disconnected, Sessions, AllPairs
  <2>2. CASE done.outcome # "reset"
    <3>1. session' = [t EXCEPT !.wantSend =
                        @ \/ (session.state # "connected" /\ t.state = "connected")]
      BY <1>1, <2>2 DEF HandlesBatch
    <3> QED BY <1>10, <3>1 DEF Sessions, AllPairs
  <2> QED BY <2>1, <2>2
<1>12. PICK u : u = session'
  OBVIOUS
<1>13. /\ u \in Sessions /\ u.msgId = done.s.msgId /\ u.delayed = done.s.delayed
       /\ u.haveReceived = done.s.haveReceived /\ AllPairs(u) = AllPairs(done.s)
  <2>1. u \in Sessions
    BY <1>12 DEF Holds, Both, Sound
  <2> QED BY <1>9, <1>11, <1>12, <2>1
<1>14. gain \in Nat
  BY <1>4, <1>6, CountGoes
<1>15. ASSUME NEW b \in Nat, Within(session, b) PROVE Within(u, b + gain)
  <2>1. Within(HandledBatch(session, batch).s, b + CountUpTo(batch, Len(batch), "fatal"))
    BY <1>3, <1>4, <1>5, <1>15, BatchWithin
  <2>2. PICK c : c = b + gain
    OBVIOUS
  <2>3. Within(done.s, c) /\ c \in Nat
    BY <1>4, <1>6, <1>7, <1>14, <2>1, <2>2
  <2>4. Within(u, c)
    BY <1>8, <1>13, <2>3, AsideWithin
  <2> QED BY <2>2, <2>4
<1>16. /\ down' \in Seq(ServerMessage) /\ server'.stored = server.stored
       /\ gain + CountOf(down', "fatal") <= CountOf(down, "fatal")
  <2>1. CountOf(down, "fatal") \in Nat /\ Len(down) \in Nat
    BY <1>3, CountIs
  <2>2. CASE done.outcome = "reset"
    <3>1. down' = <<>> /\ server'.stored = server.stored
      BY <1>1, <2>2, SessionIs DEF HandlesBatch, CloseConnection, Servers
    <3>2. gain <= CountOf(down, "fatal")
      BY <1>3, <1>4, <1>6, CountLess
    <3>3. PICK i : i = CountOf(down, "fatal")
      OBVIOUS
    <3>4. CountOf(<<>>, "fatal") = 0
      BY CountOfNone
    <3>5. gain + CountOf(down', "fatal") = gain
      BY <1>14, <3>1, <3>4
    <3> QED BY <3>1, <3>2, <3>5
  <2>3. CASE done.outcome # "reset"
    <3>1. PICK d : d = down'
      OBVIOUS
    <3>2. /\ d \in Seq(ServerMessage) /\ Len(d) = Len(down) - k
          /\ \A j \in 1..Len(d) : d[j] = down[k + j]
          /\ server' = server
      BY <1>1, <1>6, <2>3, <3>1 DEF HandlesBatch
    <3>3. k \in Nat /\ k <= Len(down)
      BY <1>4, <1>6
    <3>4. PICK kind : kind = "fatal"
      OBVIOUS
    <3>5. CountOf(d, kind) + CountUpTo(down, k, kind) = CountOf(down, kind) /\ CountOf(d, kind) \in Nat
      BY <1>3, <3>2, <3>3, CountOfRest, ZenonT(40)
    <3>6. PICK i, j : i = CountOf(d, kind) /\ j = CountOf(down, kind)
      OBVIOUS
    <3>7. gain + i <= j
      <4>1. i + gain = j /\ i \in Nat
        BY <1>6, <3>4, <3>5, <3>6
      <4> QED BY <1>14, <4>1
    <3> QED BY <3>1, <3>2, <3>4, <3>6, <3>7
  <2> QED BY <2>2, <2>3
<1>17. PICK d, n, none : d = down' /\ n = events' /\ none = 0
  OBVIOUS
<1>18. FewIn(u, d, n)
  <2>1. d \in Seq(ServerMessage) /\ CountOf(d, "fatal") \in Nat /\ CountOf(down, "fatal") \in Nat
    BY <1>3, <1>16, <1>17, CountIs
  <2>2. PICK i, j : i = CountOf(d, "fatal") /\ j = CountOf(down, "fatal")
    OBVIOUS
  <2>3. gain + i <= j /\ j \in Nat
    BY <1>16, <1>17, <2>1, <2>2
  <2>4. gain + CountOf(d, "fatal") <= CountOf(down, "fatal") + none
    BY <1>17, <2>2, <2>3
  <2>5. n \in Nat /\ n + none <= events
    BY <1>3, <1>17
  <2>6. FewIn(session, down, events)
    BY DEF Few
  <2> QED BY <1>3, <1>14, <1>15, <1>17, <2>1, <2>4, <2>5, <2>6, FewOn
<1>19. Fresh(session', Asked')
  <2>1. Asked' = Asked
    BY <1>3 DEF Asked
  <2> QED BY <1>8, <1>9, <1>11, <2>1 DEF Fresh, Few
<1> QED BY <1>12, <1>16, <1>17, <1>18, <1>19 DEF Few

-----------------------------------------------------------------------------
(* The ids stay few: the steps of the server                               *)

\* What is counted when only the server moves: an error on the way is an incident.
LEMMA ServerFew ==
    ASSUME Holds, Holds', Few, UNCHANGED <<callback, session>>, NEW loss \in Nat,
           events' + loss <= events, CountOf(down', "fatal") <= CountOf(down, "fatal") + loss,
           \A m \in server'.stored : m.kind # "fatal"
    PROVE  Few'
<1>1. down \in Seq(ServerMessage) /\ events \in Nat /\ FewIn(session, down, events)
  BY SessionIs DEF Few
<1>2. down' \in Seq(ServerMessage) /\ events' \in Nat
  BY DEF Holds, Both
<1>3. PICK d, n, none : d = down' /\ n = events' /\ none = 0
  OBVIOUS
<1>4. \A b \in Nat : Within(session, b) => Within(session, b + none)
  BY <1>3
<1>5. none + CountOf(d, "fatal") <= CountOf(down, "fatal") + loss
  <2>1. CountOf(d, "fatal") \in Nat /\ CountOf(d, "fatal") <= CountOf(down, "fatal") + loss
    BY <1>2, <1>3, CountIs
  <2> QED BY <1>3, <2>1
<1>6. d \in Seq(ServerMessage) /\ n \in Nat /\ none \in Nat /\ n + loss <= events
  BY <1>2, <1>3
<1>7. FewIn(session, d, n)
  BY <1>1, <1>4, <1>5, <1>6, FewOn
<1>8. Fresh(session', Asked')
  BY DEF Few, Fresh, Asked
<1> QED BY <1>3, <1>7, <1>8 DEF Few

\* The server keeps no error that it says.
LEMMA SaidTame ==
    ASSUME NEW e \in Ends, NEW c \in Nat, Tame(e, c),
           NEW kind \in {"answer", "update", "session", "pong", "states", "badSalt", "resend",
                         "reset", "fatal", "detailed", "accepted"},
           NEW about \in Nat, NEW ids \in SUBSET Nat
    PROVE  /\ kind # "fatal" => Tame(Said(e, kind, about, ids), c)
           /\ Tame(Said(e, kind, about, ids), c + 1)
<1>1. PICK m : m = [id |-> e.v.last + 1, salt |-> e.v.salt, kind |-> kind, about |-> about, ids |-> ids]
  OBVIOUS
<1>2. PICK g : g = Said(e, kind, about, ids)
  OBVIOUS
<1>3. e.v \in Servers /\ e.d \in Seq(ServerMessage)
  BY DEF Ends
<1>4. g.d = Append(e.d, m) /\ g.v.stored = IF Stored(m) THEN e.v.stored \cup {m} ELSE e.v.stored
  BY <1>1, <1>2, <1>3 DEF Said, Servers
<1>5. m \in ServerMessage /\ m.kind = kind
  BY <1>1, <1>3 DEF ServerMessage, Servers
<1>6. \A k \in g.v.stored : k.kind # "fatal"
  BY <1>4, <1>5 DEF Tame, Stored
<1>7. /\ CountOf(g.d, "fatal") = CountOf(e.d, "fatal") + One(m, "fatal")
      /\ CountOf(e.d, "fatal") \in Nat
  <2>1. PICK d, fatal : d = e.d /\ fatal = "fatal"
    OBVIOUS
  <2>2. CountOf(Append(d, m), fatal) = CountOf(d, fatal) + One(m, fatal) /\ CountOf(d, fatal) \in Nat
    BY <1>3, <1>5, <2>1, CountOfAppend
  <2> QED BY <1>4, <2>1, <2>2
<1>8. One(m, "fatal") \in {0, 1} /\ (kind # "fatal" => One(m, "fatal") = 0)
  BY <1>5 DEF One
<1>9. CountOf(e.d, "fatal") <= c
  BY DEF Tame
<1>10. PICK i, j, o : i = CountOf(e.d, "fatal") /\ j = CountOf(g.d, "fatal") /\ o = One(m, "fatal")
  OBVIOUS
<1>11. j <= c + 1 /\ (kind # "fatal" => j <= c)
  BY <1>7, <1>8, <1>9, <1>10
<1> QED BY <1>2, <1>6, <1>10, <1>11 DEF Tame

\* The server says something after w has become of it.
LEMMA SaysFew ==
    ASSUME Holds, Holds', Few, UNCHANGED <<callback, session>>,
           NEW w \in Servers, w.stored = server.stored,
           NEW kind \in {"answer", "update", "session", "pong", "states", "badSalt", "resend",
                         "reset", "fatal", "detailed", "accepted"},
           NEW about \in Nat, NEW ids \in SUBSET Nat,
           ServerIs(Said([v |-> w, d |-> down], kind, about, ids)),
           events' <= events, kind = "fatal" => events' = events - 1
    PROVE  Few'
<1>1. down \in Seq(ServerMessage) /\ events \in Nat
  BY SessionIs
<1>2. PICK e, c, g : /\ e = [v |-> w, d |-> down] /\ c = CountOf(down, "fatal")
                     /\ g = Said(e, kind, about, ids)
  OBVIOUS
<1>3. e \in Ends /\ e.v = w /\ e.d = down
  BY <1>1, <1>2 DEF Ends
<1>4. c \in Nat /\ Tame(e, c)
  <2>1. c \in Nat
    BY <1>1, <1>2, CountIs
  <2>2. CountOf(e.d, "fatal") <= c
    BY <1>2, <1>3, <2>1
  <2> QED BY <1>3, <2>1, <2>2 DEF Tame, Few
<1>5. server' = g.v /\ down' = g.d
  BY <1>2 DEF ServerIs
<1>6. CASE kind = "fatal"
  <2>1. PICK one : one = 1
    OBVIOUS
  <2>2. Tame(g, c + one)
    BY <1>2, <1>3, <1>4, <2>1, SaidTame
  <2>3. /\ CountOf(down', "fatal") <= CountOf(down, "fatal") + one
        /\ \A m \in server'.stored : m.kind # "fatal"
    BY <1>2, <1>5, <2>2 DEF Tame
  <2>4. one \in Nat /\ events' + one <= events
    BY <1>1, <1>6, <2>1
  <2> QED BY <2>3, <2>4, ServerFew
<1>7. CASE kind # "fatal"
  <2>1. PICK none : none = 0
    OBVIOUS
  <2>2. Tame(g, c)
    BY <1>2, <1>3, <1>4, <1>7, SaidTame
  <2>3. CountOf(down', "fatal") <= c /\ \A m \in server'.stored : m.kind # "fatal"
    BY <1>5, <2>2 DEF Tame
  <2>4. CountOf(down', "fatal") <= CountOf(down, "fatal") + none
    BY <1>2, <1>4, <2>1, <2>3
  <2>5. none \in Nat /\ events' + none <= events
    <3>1. PICK n : n = events'
      OBVIOUS
    <3>2. n \in Nat /\ n <= events
      BY <3>1 DEF Holds
    <3>3. n + none <= events
      BY <1>1, <2>1, <3>2
    <3> QED BY <2>1, <3>1, <3>3
  <2> QED BY <2>3, <2>4, <2>5, ServerFew
<1> QED BY <1>6, <1>7

\* An error is an incident.
LEMMA ServerRefusesFew ==
    ASSUME Holds, Holds', Few, ServerRefuses
    PROVE  Few'
<1>0. up # <<>> /\ UNCHANGED <<callback, session>> /\ events' = events - 1 /\ events' <= events
  BY SessionIs DEF ServerRefuses, Incident
<1>1. PICK p : p = Head(up)
  OBVIOUS
<1>2. PacketFine(p, session, Asked, server.refused) /\ p.id \in Nat
  BY <1>0, <1>1, HeadOfUp
<1>3. PICK ids : ids = UNION {m.ids : m \in {k \in p.messages : k.kind = "request"}}
  OBVIOUS
<1>4. ids \subseteq Requests
  <2>1. \A m \in p.messages : m.kind = "request" => m.ids \subseteq Requests
    BY <1>2, SessionIs DEF PacketFine
  <2> QED BY <1>3, <2>1
<1>5. PICK kind \in {"resend", "reset", "fatal"} :
         ServerIs(Said([Here EXCEPT !.v.refused = IF kind # "fatal" THEN @ ELSE @ \cup ids],
                       kind, p.id, {}))
  BY <1>1, <1>3 DEF ServerRefuses
<1>6. PICK refused : refused = IF kind # "fatal" THEN server.refused ELSE server.refused \cup ids
  OBVIOUS
<1>7. refused \in SUBSET Requests
  BY <1>4, <1>6, SessionIs DEF Servers
<1>8. PICK w, none, about : w = [server EXCEPT !.refused = refused] /\ none = {} /\ about = p.id
  OBVIOUS
<1>9. w \in Servers /\ w.stored = server.stored
  BY <1>7, <1>8, SessionIs DEF Servers
<1>10. [Here EXCEPT !.v.refused = IF kind # "fatal" THEN @ ELSE @ \cup ids] = [v |-> w, d |-> down]
  BY <1>6, <1>8 DEF Here
<1>11. ServerIs(Said([v |-> w, d |-> down], kind, about, none))
  BY <1>5, <1>8, <1>10
<1>12. /\ kind \in {"answer", "update", "session", "pong", "states", "badSalt", "resend",
                     "reset", "fatal", "detailed", "accepted"}
       /\ about \in Nat /\ none \in SUBSET Nat
  BY <1>2, <1>8
<1> QED BY <1>0, <1>9, <1>11, <1>12, SaysFew

\* The server answers, mentions an answer, acks a request or sends an update.
LEMMA ServerSaysFew ==
    ASSUME Holds, Holds', Few,
           ServerAnswers \/ ServerMentions \/ ServerAccepts \/ ServerPushes
    PROVE  Few'
<1>0. UNCHANGED <<callback, session>> /\ events' <= events
  BY SessionIs DEF ServerAnswers, ServerMentions, ServerAccepts, ServerPushes, Incident
<1>1. PICK none : none = {}
  OBVIOUS
<1>2. CASE ServerAnswers
  <2>1. PICK id \in server.pending :
           ServerIs(Said([Here EXCEPT !.v.pending = @ \ {id}], "answer", id, {}))
    BY <1>2 DEF ServerAnswers
  <2>2. PICK w, kind : w = [server EXCEPT !.pending = server.pending \ {id}] /\ kind = "answer"
    OBVIOUS
  <2>3. w \in Servers /\ w.stored = server.stored /\ id \in Nat
    BY <2>2, SessionIs DEF Servers
  <2>4. [Here EXCEPT !.v.pending = @ \ {id}] = [v |-> w, d |-> down]
    BY <2>2 DEF Here
  <2>5. ServerIs(Said([v |-> w, d |-> down], kind, id, none))
    BY <1>1, <2>1, <2>2, <2>4
  <2>6. /\ kind \in {"answer", "update", "session", "pong", "states", "badSalt", "resend",
                     "reset", "fatal", "detailed", "accepted"}
        /\ kind # "fatal" /\ none \in SUBSET Nat
    BY <1>1, <2>2
  <2> QED BY <1>0, <2>3, <2>5, <2>6, SaysFew
<1>3. CASE ServerMentions
  <2>1. PICK m \in server.stored :
           ServerIs(Said([Here EXCEPT !.v.sent = @ \cup {m.id}], "detailed", m.about, {m.id}))
    BY <1>3 DEF ServerMentions, ToRepeat
  <2>2. m.id \in Nat /\ m.about \in Nat
    BY HereIs DEF ServerMessage
  <2>3. PICK w, kind, about, ids : /\ w = [server EXCEPT !.sent = server.sent \cup {m.id}]
                                   /\ kind = "detailed" /\ about = m.about /\ ids = {m.id}
    OBVIOUS
  <2>4. w \in Servers /\ w.stored = server.stored
    BY <2>2, <2>3, SessionIs DEF Servers
  <2>5. [Here EXCEPT !.v.sent = @ \cup {m.id}] = [v |-> w, d |-> down]
    BY <2>3 DEF Here
  <2>6. ServerIs(Said([v |-> w, d |-> down], kind, about, ids))
    BY <2>1, <2>3, <2>5
  <2>7. /\ kind \in {"answer", "update", "session", "pong", "states", "badSalt", "resend",
                      "reset", "fatal", "detailed", "accepted"}
        /\ kind # "fatal" /\ about \in Nat /\ ids \in SUBSET Nat
    BY <2>2, <2>3
  <2> QED BY <1>0, <2>4, <2>6, <2>7, SaysFew
<1>4. CASE ServerAccepts
  <2>1. PICK id \in server.pending : ServerIs(Said(Here, "accepted", id, {}))
    BY <1>4 DEF ServerAccepts
  <2>2. PICK kind : kind = "accepted"
    OBVIOUS
  <2>3. id \in Nat /\ server \in Servers
    BY SessionIs, HereIs
  <2>4. ServerIs(Said([v |-> server, d |-> down], kind, id, none))
    BY <1>1, <2>1, <2>2 DEF Here
  <2>5. /\ kind \in {"answer", "update", "session", "pong", "states", "badSalt", "resend",
                      "reset", "fatal", "detailed", "accepted"}
        /\ kind # "fatal" /\ none \in SUBSET Nat
    BY <1>1, <2>2
  <2> QED BY <1>0, <2>3, <2>4, <2>5, SaysFew
<1>5. CASE ServerPushes
  <2>1. PICK kind, about : kind = "update" /\ about = 0
    OBVIOUS
  <2>2. ServerIs(Said([v |-> server, d |-> down], kind, about, none))
    BY <1>1, <1>5, <2>1 DEF ServerPushes, Here
  <2>3. /\ kind \in {"answer", "update", "session", "pong", "states", "badSalt", "resend",
                      "reset", "fatal", "detailed", "accepted"}
        /\ kind # "fatal" /\ about \in Nat /\ none \in SUBSET Nat /\ server \in Servers
    BY <1>1, <2>1, SessionIs
  <2> QED BY <1>0, <2>2, <2>3, SaysFew
<1> QED BY <1>2, <1>3, <1>4, <1>5

\* The server repeats what it has stored, forgets the session or changes the salt.
LEMMA ServerMovesFew ==
    ASSUME Holds, Holds', Few, ServerRepeats \/ ServerForgets \/ ServerChangesSalt
    PROVE  Few'
<1>0. UNCHANGED <<callback, session>> /\ events' <= events /\ server \in Servers
      /\ down \in Seq(ServerMessage) /\ events \in Nat
  BY SessionIs DEF ServerRepeats, ServerForgets, ServerChangesSalt, Incident
<1>1. PICK n, none : n = events' /\ none = 0
  OBVIOUS
<1>2. n \in Nat /\ n <= events /\ events \in Nat /\ none = 0
  BY <1>0, <1>1 DEF Holds
<1>3. n + none <= events
  BY <1>2
<1>4. CountOf(down, "fatal") \in Nat
  BY <1>0, CountIs
<1>5. server'.stored \subseteq server.stored
  BY <1>0 DEF ServerRepeats, ServerForgets, ServerChangesSalt, Servers
<1>6. CountOf(down', "fatal") = CountOf(down, "fatal")
  <2>1. CASE ServerRepeats
    <3>1. PICK m \in server.stored : down' = Append(down, [m EXCEPT !.salt = server.salt])
      BY <2>1 DEF ServerRepeats, ToRepeat
    <3>2. PICK k, fatal : k = [m EXCEPT !.salt = server.salt] /\ fatal = "fatal"
      OBVIOUS
    <3>3. k \in ServerMessage /\ k.kind = m.kind
      BY <1>0, <3>2, HereIs DEF ServerMessage, Servers
    <3>4. One(k, fatal) = 0
      BY <3>2, <3>3 DEF One, Few
    <3>5. CountOf(Append(down, k), fatal) = CountOf(down, fatal) + One(k, fatal)
      BY <1>0, <3>3, CountOfAppend
    <3> QED BY <1>4, <3>1, <3>2, <3>4, <3>5
  <2>2. CASE ServerForgets \/ ServerChangesSalt
    BY <2>2 DEF ServerForgets, ServerChangesSalt
  <2> QED BY <2>1, <2>2
<1>7. CountOf(down', "fatal") <= CountOf(down, "fatal") + none
  BY <1>1, <1>4, <1>6
<1>8. \A m \in server'.stored : m.kind # "fatal"
  BY <1>5 DEF Few
<1> QED BY <1>0, <1>1, <1>3, <1>7, <1>8, ServerFew

\* The server takes a message of a packet: it says no error.
LEMMA TakeTame ==
    ASSUME NEW e \in Ends, NEW c \in Nat, Tame(e, c), NEW m \in Message
    PROVE  Tame(Take(e, m), c)
<1>0. e.v \in Servers /\ e.d \in Seq(ServerMessage) /\ m.id \in Nat /\ m.ids \in SUBSET Nat
  BY DEF Ends, Message
<1>1. CASE m.kind = "request" /\ m.id \in Ids(e.v.ran)
  <2>1. Take(e, m) = e
    BY <1>1 DEF Take
  <2> QED BY <2>1
<1>2. CASE m.kind = "request" /\ m.id \notin Ids(e.v.ran)
  <2>1. PICK g : g = Take(e, m)
    OBVIOUS
  <2>2. g = [e EXCEPT !.v.ran = @ \cup {<<m.id, r>> : r \in m.ids},
                      !.v.executed = @ \cup m.ids, !.v.pending = @ \cup {m.id}]
    BY <1>2, <2>1 DEF Take
  <2>3. g.v.stored = e.v.stored /\ g.d = e.d
    BY <1>0, <2>2 DEF Ends, Servers
  <2> QED BY <2>1, <2>3 DEF Tame
<1>3. CASE m.kind = "ping"
  <2>1. PICK kind, about, none : kind = "pong" /\ about = m.id /\ none = {}
    OBVIOUS
  <2>2. Take(e, m) = Said(e, kind, about, none)
    BY <1>3, <2>1 DEF Take
  <2> QED BY <1>0, <2>1, <2>2, SaidTame
<1>4. CASE m.kind = "ack"
  <2>1. PICK g : g = Take(e, m)
    OBVIOUS
  <2>2. g = [e EXCEPT !.v.stored = {k \in @ : k.id \notin m.ids}]
    BY <1>4, <2>1 DEF Take
  <2>3. g.v.stored \subseteq e.v.stored /\ g.d = e.d
    BY <1>0, <2>2 DEF Ends, Servers
  <2> QED BY <2>1, <2>3 DEF Tame
<1>5. CASE m.kind = "resend"
  <2>1. PICK g : g = Take(e, m)
    OBVIOUS
  <2>2. g = [e EXCEPT !.v.sent = @ \ m.ids]
    BY <1>5, <2>1 DEF Take
  <2>3. g.v.stored = e.v.stored /\ g.d = e.d
    BY <1>0, <2>2 DEF Ends, Servers
  <2> QED BY <2>1, <2>3 DEF Tame
<1>6. CASE m.kind = "state"
  <2>1. PICK kind, about, ids : kind = "states" /\ about = m.id /\ ids = m.ids \cap Ids(e.v.ran)
    OBVIOUS
  <2>2. Take(e, m) = Said(e, kind, about, ids)
    BY <1>6, <2>1 DEF Take
  <2>3. about \in Nat /\ ids \in SUBSET Nat
    BY <1>0, <2>1
  <2> QED BY <2>1, <2>2, <2>3, SaidTame
<1> QED BY <1>1, <1>2, <1>3, <1>4, <1>5, <1>6 DEF Message

\* The server takes a packet.
LEMMA TakeAllTame ==
    ASSUME NEW s, NEW e \in Ends, NEW a \in SUBSET Requests, Both(s, e.v, e.d, a),
           e.v.heard, e.v.session = s.number,
           NEW p \in Packet, PacketFine(p, s, a, e.v.refused),
           NEW c \in Nat, Tame(e, c), NEW g, g = TakeAll(e, p.messages)
    PROVE  Tame(g, c)
<1>1. PICK n : n = Cardinality(p.messages)
  OBVIOUS
<1>2. n \in Nat /\ \E h : TakesEach(h, s, e, a, p.messages)
  BY <1>1, TakeAllTakesEach
<1>3. PICK h : TakesEach(h, s, e, a, p.messages)
  BY <1>2
<1>4. /\ h[0] = e /\ h[n] = g
      /\ \A i \in 0..n : TakesOn(s, e, h[i], a)
      /\ \A i \in 1..n : \E m \in p.messages : h[i] = Take(h[i - 1], m)
  BY <1>1, <1>3 DEF TakesEach
<1> DEFINE T == {i \in 0..n : Tame(h[i], c)}
<1>5. 0 \in T
  BY <1>2, <1>4
<1>6. ASSUME NEW i \in 0..n, i \in T, i < n PROVE i + 1 \in T
  <2>1. i + 1 \in 1..n /\ (i + 1) - 1 = i
    BY <1>2, <1>6
  <2>2. PICK b, k : b = h[i] /\ k = h[i + 1]
    OBVIOUS
  <2>3. PICK m \in p.messages : k = Take(b, m)
    BY <1>4, <2>1, <2>2
  <2>4. b \in Ends /\ m \in Message
    BY <1>4, <2>2 DEF TakesOn, Packet
  <2>5. Tame(k, c)
    BY <1>6, <2>2, <2>3, <2>4, TakeTame
  <2> QED BY <2>1, <2>2, <2>5
<1> HIDE DEF T
<1>7. n \in T
  <2>1. \A i \in 0..n : i \in T
    BY <1>2, <1>5, <1>6, Upwards
  <2> QED BY <1>2, <2>1
<1> QED BY <1>4, <1>7 DEF T

\* The server takes a packet, and says no error.
LEMMA ServerReceivesFew ==
    ASSUME Holds, Holds', Few, ServerReceives
    PROVE  Few'
<1>1. up # <<>> /\ UNCHANGED <<callback, session, events>> /\ events \in Nat
      /\ down \in Seq(ServerMessage) /\ Asked \in SUBSET Requests
  BY SessionIs DEF ServerReceives
<1>2. PICK p, heard, fresh, first, start : TakesPacket(p, heard, fresh, first, start)
  BY ServerTakesPacket
<1>3. PICK c, none : c = CountOf(down, "fatal") /\ none = {}
  OBVIOUS
<1>4. c \in Nat
  BY <1>1, <1>3, CountIs
<1>5. /\ heard \in Servers /\ heard.stored = server.stored
      /\ fresh \in Servers /\ fresh.stored = {} /\ first \in Nat /\ p \in Packet /\ p.id \in Nat
  BY <1>2, SessionIs DEF TakesPacket, Servers, Packet
<1>6. PICK e, b : e = [v |-> heard, d |-> down] /\ b = [v |-> fresh, d |-> down]
  OBVIOUS
<1>7. e \in Ends /\ e.v = heard /\ e.d = down /\ b \in Ends /\ b.v = fresh /\ b.d = down
  BY <1>1, <1>5, <1>6 DEF Ends
<1>8. Tame(e, c) /\ Tame(b, c)
  <2>1. CountOf(e.d, "fatal") <= c /\ CountOf(b.d, "fatal") <= c
    BY <1>3, <1>4, <1>7
  <2> QED BY <1>5, <1>7, <2>1 DEF Tame, Few
<1>9. PICK g : ServerIs(g) /\ Tame(g, c)
  <2>1. CASE p.salt # server.salt
    <3>1. PICK kind, about : kind = "badSalt" /\ about = p.id
      OBVIOUS
    <3>2. ServerIs(Said(e, kind, about, none))
      BY <1>2, <1>3, <1>6, <2>1, <3>1 DEF TakesPacket
    <3>3. Tame(Said(e, kind, about, none), c)
      BY <1>3, <1>4, <1>5, <1>7, <1>8, <3>1, SaidTame
    <3> QED BY <3>2, <3>3
  <2>2. CASE p.salt = server.salt
    <3>1. Tame(start, c)
      <4>1. CASE p.session = server.session
        <5>1. start = e
          BY <1>2, <1>6, <4>1 DEF TakesPacket
        <5> QED BY <1>8, <5>1
      <4>2. CASE p.session # server.session
        <5>1. PICK kind : kind = "session"
          OBVIOUS
        <5>2. start = Said(b, kind, first, none)
          BY <1>2, <1>3, <1>6, <4>2, <5>1 DEF TakesPacket
        <5> QED BY <1>3, <1>4, <1>5, <1>7, <1>8, <5>1, <5>2, SaidTame
      <4> QED BY <4>1, <4>2
    <3>2. /\ start \in Ends /\ Both(session, start.v, start.d, Asked)
          /\ start.v.heard /\ start.v.session = session.number
          /\ PacketFine(p, session, Asked, start.v.refused)
      BY <1>2 DEF TakesPacket
    <3>3. PICK g : g = TakeAll(start, p.messages)
      OBVIOUS
    <3>4. Tame(g, c)
      BY <1>1, <1>4, <1>5, <3>1, <3>2, <3>3, TakeAllTame
    <3>5. ServerIs(g)
      BY <1>2, <2>2, <3>3 DEF TakesPacket
    <3> QED BY <3>4, <3>5
  <2> QED BY <2>1, <2>2
<1>10. PICK zero : zero = 0
  OBVIOUS
<1>11. CountOf(down', "fatal") <= c /\ \A m \in server'.stored : m.kind # "fatal"
  BY <1>9 DEF ServerIs, Tame
<1>12. CountOf(down', "fatal") <= CountOf(down, "fatal") + zero
  BY <1>3, <1>4, <1>10, <1>11
<1>13. zero \in Nat /\ events' + zero <= events
  BY <1>1, <1>10
<1> QED BY <1>1, <1>11, <1>12, <1>13, ServerFew

-----------------------------------------------------------------------------
(* The theorems for few requests and incidents                             *)

\* The ids are few at first ...
LEMMA FewAtFirst ==
    ASSUME Init
    PROVE  Few
<1>1. Holds
  BY HoldsAtFirst
<1>2. /\ session \in Sessions /\ session.delayed = {} /\ session.haveReceived = <<>>
      /\ session.haveSent = {} /\ session.resending = {} /\ session.acked = {}
      /\ session.msgId = [r \in Requests |-> 0] /\ down = <<>> /\ events = MaxEvents
      /\ server.stored = {}
  <2>1. session \in Sessions
    BY <1>1, SessionIs
  <2> QED BY <2>1 DEF Init
<1>3. UsedIds(session) = {} /\ Unsent(session) = Requests
  <2>1. Ids({}) = {}
    BY DEF Ids
  <2>2. AllPairs(session) = {}
    BY <1>2 DEF AllPairs
  <2> QED BY <1>2, <2>1, <2>2 DEF UsedIds, Unsent
<1>4. Cardinality({}) = 0 /\ IsFiniteSet({}) /\ CountOf(<<>>, "error") = 0 /\ CountOf(<<>>, "fatal") = 0
  BY FS_EmptySet, CountOfNone
<1>5. Cardinality(Requests) = NumRequests /\ NumRequests \in Nat /\ MaxEvents \in Nat
  <2>1. NumRequests \in Nat /\ MaxEvents \in Nat
    BY SessionAssumption
  <2> QED BY <2>1, FS_Interval DEF Requests
<1>6. Within(session, NumRequests)
  <2>1. IsFiniteSet(UsedIds(session))
    BY <1>3, <1>4
  <2>2. IdsToCome(session) = 0 + NumRequests + 0 + 0
    BY <1>2, <1>3, <1>4, <1>5, <2>1, IdsToComeIs
  <2>3. IdsToCome(session) <= NumRequests
    BY <1>5, <2>2
  <2> QED BY <2>1, <2>3 DEF Within
<1>7. FewIn(session, down, events)
  <2>1. NumRequests + CountOf(down, "fatal") + events <= NumRequests + MaxEvents
    BY <1>2, <1>4, <1>5
  <2> QED BY <1>5, <1>6, <2>1 DEF FewIn
<1> QED BY <1>2, <1>7 DEF Few, Fresh

\* ... and through every step.
LEMMA FewStays ==
    ASSUME Holds, Holds', Few, [Next]_vars
    PROVE  Few'
<1>1. CASE MainThread
  BY <1>1, SendRequestFew, CancelFew, DeliverFew, RetryFew DEF MainThread
<1>2. CASE SessionThread
  BY <1>2, TryInVainFew, TryToSendFew, HandleReceivedFew, ConnectFew, ResumeFew
  DEF SessionThread
<1>3. CASE Timers
  BY <1>3, CheckSentRequestsFew, ClearOldContainerFew DEF Timers
<1>4. CASE Connection
  BY <1>4, ConnectionFew
<1>5. CASE Server
  BY <1>5, ServerReceivesFew, ServerRefusesFew, ServerSaysFew, ServerMovesFew DEF Server
<1>6. CASE UNCHANGED vars
  <2>1. UNCHANGED <<callback, session, down, server, events>>
    BY <1>6 DEF vars
  <2> QED BY <2>1, SessionIs, AsideFew DEF Asked
<1> QED BY <1>1, <1>2, <1>3, <1>4, <1>5, <1>6 DEF Next

\* A request gets a message id when it has none, or in place of the one it has, and only an
\* error of the server takes one away (tryToSend(), sendPrepared(), onErrorDefault()).
THEOREM IdsStayFew == Spec => []IdsAreFew
<1>1. Init => Holds /\ Few
  BY HoldsAtFirst, FewAtFirst
<1>2. Holds /\ Few /\ [Next]_vars => (Holds /\ Few)'
  BY HoldsOn, FewStays
<1>3. Holds /\ Few => IdsAreFew
  BY FewIs
<1> QED BY <1>1, <1>2, <1>3, PTL DEF Spec

=============================================================================
