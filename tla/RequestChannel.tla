--------------------------- MODULE RequestChannel ---------------------------
(***************************************************************************)
(* What the message layer promises to those who send requests: the answer  *)
(* to a request arrives at most once, after the server has run it, and not *)
(* after it was cancelled.                                                 *)
(***************************************************************************)
EXTENDS Naturals

CONSTANT NumRequests

VARIABLES outcome,      \* what the sender knows of each request
          executed      \* the requests the server has run, at least once

channelVars == <<outcome, executed>>

ChannelRequests == 1..NumRequests

ChannelInit ==
    /\ outcome = [r \in ChannelRequests |-> "none"]
    /\ executed = {}

Change(r, from, to) ==
    /\ outcome[r] = from
    /\ outcome' = [outcome EXCEPT ![r] = to]
    /\ UNCHANGED executed

Issue(r) == Change(r, "none", "waiting")
Answer(r) == r \in executed /\ Change(r, "waiting", "called")
Abandon(r) == Change(r, "waiting", "cancelled")

\* The server runs the requests of a packet.
Execute ==
    /\ \E some \in SUBSET {r \in ChannelRequests : outcome[r] # "none"} :
         executed' = executed \cup some
    /\ UNCHANGED outcome

ChannelNext == Execute \/ \E r \in ChannelRequests : Issue(r) \/ Answer(r) \/ Abandon(r)

ChannelSpec == ChannelInit /\ [][ChannelNext]_channelVars
=============================================================================
