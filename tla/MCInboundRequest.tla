-------------------------- MODULE MCInboundRequest --------------------------
(***************************************************************************)
(* Small instances of InboundRequest for TLC.                              *)
(***************************************************************************)
EXTENDS InboundRequest, TLC

CONSTANTS r1, r2, o1, a1, w1, w2

TwoActors == {w1, w2}
ActorSymmetry == Permutations(TwoActors)
OneAsset == {a1}
OneOrder == {o1}
BothRequests == {r1, r2}
OneRequest == {r1}

\* One item each at first.  An update gives r1 two items that add to one row,
\* and r2 one that adds to that row and a new one.  An order books the row.
New(q) == [qty |-> q, asset |-> Fresh]
IntoA1 == [qty |-> 1, asset |-> a1]
BothNew == [r \in BothRequests |-> <<New(1), New(0)>>]
BothMatched == (r1 :> {<<IntoA1, IntoA1>>} @@ r2 :> {<<IntoA1, New(1)>>})
OneNew == (r1 :> <<New(1), New(0)>>)
OneMatched == (r1 :> {<<IntoA1, IntoA1>>})
OneUnit == (a1 :> 1)
OrderNeed == (o1 :> (a1 :> 1))
OrderWindow == (o1 :> (a1 :> [from |-> 1, until |-> 1]))

\* Bounds: what follows a disturbance is not explored; an item is edited alone
\* only while it is the one that was submitted; the second request comes when
\* the first has been confirmed on the shortest way, and takes the same;
\* handlers of both overlap only if both complete.
Undisturbed == disturbed = {}
OneEdited == \A r \in InboundRequests :
    content[r] \in {Submitted[r], <<New(2), New(0)>>} \cup Revisions[r]
Shortest(r) == /\ estimate[r] = None /\ offer[r] = None
               /\ content[r] \in {Submitted[r]} \cup Revisions[r]
SecondIsLater == status[r2] # "NONE" =>
    /\ status[r1] \in {"CONFIRMED", "COMPLETED"}
    /\ Shortest(r1) /\ Shortest(r2) /\ revised = {}
    /\ \A w \in Actors : ~job[w].staff
Apart == \A v, w \in Actors : (On(v) # Nobody /\ On(w) # Nobody /\ On(v) # On(w))
            => job[v].op = "complete" /\ job[w].op = "complete"
Bounds == Undisturbed /\ OneEdited /\ SecondIsLater /\ Apart
==============================================================================
