---------------------------- MODULE MCSelfPickup ----------------------------
(***************************************************************************)
(* Small instances of SelfPickup for TLC.                                  *)
(***************************************************************************)
EXTENDS SelfPickup, TLC

CONSTANTS p1, p2, p3, a1, a2, w1, w2, cron

TwoWorkers == {w1, w2, cron}
OneWorker == {w1, cron}
WorkerSymmetry == Permutations({w1, w2})

\* A cart with one line of each asset, one with two lines of one unit.
SingleLines == [p \in Pickups |-> ("first" :> Need[p] @@ "second" :> [a \in Assets |-> 0])]
P2InTwoLines == [p \in Pickups |-> IF p # p2 THEN SingleLines[p] ELSE
    [l \in CartLines |-> [a \in Assets |-> IF a = a1 THEN 1 ELSE 0]]]

\* Two pickups of one pool of two units on overlapping days, and a serialized
\* asset that neither has asked for; p2 names no return date, and in the lifecycle
\* it asks for the two units in two lines.
OneAsset == {a1}
TwoAssets == {a1, a2}
TwoPickups == {p1, p2}
PoolStock == [a \in Assets |-> IF a = a1 THEN 2 ELSE 1]
PoolNeed == [p \in TwoPickups |-> [a \in Assets |-> IF a # a1 THEN 0 ELSE IF p = p1 THEN 2 ELSE 1]]
BothNeed == [p \in TwoPickups |-> [a \in Assets |-> IF a # a1 THEN 0 ELSE 2]]
PoolStart == (p1 :> 0 @@ p2 :> 1)
PoolEnd == PoolStart
PoolDue == (p1 :> 1 @@ p2 :> 1)
OnlyP2 == {p2}
PoolWindow == (p1 :> [a \in Assets |-> [from |-> 0, until |-> 1]] @@
               p2 :> [a \in Assets |-> [from |-> 1, until |-> 8]])

\* One pickup of a pooled and a serialized asset.
OnePickup == {p1}
MixedStock == (a1 :> 2 @@ a2 :> 1)
MixedNeed == (p1 :> (a1 :> 1 @@ a2 :> 1))
MixedStart == (p1 :> 1)
MixedEnd == (p1 :> 1)
MixedDue == (p1 :> 2)
MixedWindow == (p1 :> [a \in TwoAssets |-> [from |-> 1, until |-> 2]])

\* One pickup of part of a pool; three pickups, of
\* which p3 takes all of it.
SoloStock == (a1 :> 2)
PairNeed == (p1 :> (a1 :> 2))
ThreePickups == {p1, p2, p3}
ThreeNeed == (p1 :> (a1 :> 1) @@ p2 :> (a1 :> 1) @@ p3 :> (a1 :> 2))
SameStart == [p \in ThreePickups |-> 1]
SameDue == [p \in ThreePickups |-> 2]
SameWindow == [p \in ThreePickups |-> [a \in OneAsset |-> [from |-> 1, until |-> 2]]]
StartOfP1 == (p1 :> 0)
DueOfP1 == (p1 :> 1)
WindowOfP1 == (p1 :> [a \in Assets |-> [from |-> 0, until |-> 1]])

AddNone == [a \in Assets |-> 0]
AddOne == [a \in Assets |-> 1]
AddOther == (a1 :> 0 @@ a2 :> 1)

Quoting == {"submit", "submitForApproval", "approveQuote", "clientApproveQuote",
            "returnToLogistics", "markAsNoCost", "cancel", "decline"}
Moving == {"markReadyForPickup", "outboundScan", "handover", "triggerReturn", "inboundScan",
           "completeReturn"}
SerialRequests == Quoting \cup Moving
CancelRequests == {"submit", "cancel"}
MidflowRequests == SerialRequests \cup {"addMidflow"}
ReturnRequests == SerialRequests \cup {"returnDue"}
SerialMid == ReturnRequests \cup {"addMidflow"}
RaceRequests == (SerialRequests \ {"returnToLogistics", "clientApproveQuote"}) \cup {"expire"}
AllRequests == MidflowRequests \cup {"returnDue", "expire"}
==============================================================================
