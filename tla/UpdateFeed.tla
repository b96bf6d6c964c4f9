---------------------------- MODULE UpdateFeed ----------------------------
(***************************************************************************)
(* What Api::Updates promises to the rest of the program: the events of    *)
(* the account are delivered up to a position that never goes back and     *)
(* never passes an event that was not delivered, whatever the server       *)
(* pushes, loses or answers.  Events ahead of the position may have been   *)
(* delivered too: the answer to a request is applied at once.              *)
(***************************************************************************)
EXTENDS Naturals

CONSTANTS Events        \* the events the account may have, by number

VARIABLES published,    \* the events the account has had
          delivered,    \* those the program has taken notice of
          position      \* the program knows of everything up to here

feedVars == <<published, delivered, position>>

Upto(p) == {e \in published : e <= p}

FeedInit ==
    /\ published \in SUBSET Events
    /\ delivered = {}
    /\ position = 0

\* New events have a higher number than those before.  Those of the program's
\* own doing are no news to it.
Publish ==
    /\ \E news \in (SUBSET Events) \ {{}} :
         /\ \A e \in news, old \in published : e > old
         /\ published' = published \cup news
         /\ delivered' \in {delivered, delivered \cup news}
    /\ UNCHANGED position

\* The program takes notice of some events, perhaps of events before.
Deliver ==
    /\ delivered' \in SUBSET published
    /\ delivered \subseteq delivered'
    /\ position' \in Events \cup {0}
    /\ position' >= position
    /\ Upto(position') \subseteq delivered'
    /\ UNCHANGED published

FeedSpec == FeedInit /\ [][Publish \/ Deliver]_feedVars
=============================================================================
