---------------------------- MODULE ReceivedIds ----------------------------
(***************************************************************************)
(* The window of the ids of received messages                              *)
(* (mtproto/details/mtproto_received_ids_manager.cpp): the largest ids are *)
(* kept, an id that is smaller than all of a full window is too old to     *)
(* tell whether it was received.                                           *)
(***************************************************************************)
EXTENDS Integers, FiniteSets

CONSTANT IdsBufferSize  \* kIdsBufferSize

ASSUME BufferAssumption == IdsBufferSize \in Nat \ {0}

Full(window) == Cardinality(window) >= IdsBufferSize

\* Mutant: an id that is known is taken once more.
RegistersAgain(window, id) ==
    IF ~Full(window) \/ \E old \in window : id > old THEN "success" ELSE "tooOld"

\* What registerMsgId answers.
Registers(window, id) ==
    IF id \in window THEN "duplicate"
    ELSE IF ~Full(window) \/ \E old \in window : id > old THEN "success"
    ELSE "tooOld"

\* shrink, and the same for _ackedIds in requestsAcked.
Largest(ids) == {id \in ids : Cardinality({k \in ids : k > id}) < IdsBufferSize}
=============================================================================
