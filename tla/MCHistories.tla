---------------------------- MODULE MCHistories ----------------------------
(***************************************************************************)
(* Instances of Histories for TLC.  The last message of the first chat is  *)
(* somebody else's, the one of the second chat is the account's own.       *)
(***************************************************************************)
EXTENDS Histories

MCOutgoing == [h \in Chats |-> IF h = 1 THEN {LastMessage - 1} ELSE {LastMessage}]
=============================================================================
