---------------------------- MODULE MCServiceRequest ----------------------------
(* An order with one item, two rows for its repairs and one request billed     *)
(* with the order.                                                             *)
EXTENDS ServiceRequest, TLC

CONSTANTS o1, m1, m2, b1, i1, w1, w2

MCOrderOf == [r \in Requests |-> o1]
MCItemOf == [r \in Repairs |-> i1]
MCMaxVersion == [e \in Entities |-> IF e \in {o1, b1} THEN 2 ELSE 1]
Workers == Permutations(Actors)

\* What follows a late write is of no interest to the properties.
Serial == disturbed = {}

\* A handler of one write that is not late might as well be atomic, so one of
\* two that run is a chain of writes, and both concern one row.  A flag moves
\* next to nothing but an acceptance, and none on a repair.
Chains == {"line", "quote", "accept"}
Together ==
    LET ops == {job[w].op : w \in Actors} IN
    \/ \E w \in Actors : job[w] = Idle
    \/ "accept" \in ops
    \/ /\ ops \cap Chains # {} /\ "show" \notin ops
       /\ \A v, w \in Actors : On(v) = On(w)

\* One of three moves: the lines of the order, the billed request, or the
\* repairs with the decision.  No request is reviewed, no repair invoiced, the
\* work on the billed request, which no price reads, is not begun, and nothing
\* follows on an item that staff have taken out of the properties.
Reordered == lines[o1] # 1 \/ \E w \in Actors : job[w].op = "line" /\ On(w) = o1
Billed == work[b1] # "NONE"
Repairing == decision[i1] = "FIX_IN_ORDER" \/ \E r \in Repairs : work[r] # "NONE"
Apart ==
    /\ ~(Reordered /\ Billed) /\ ~(Reordered /\ Repairing) /\ ~(Billed /\ Repairing)
    /\ \A r \in Requests : work[r] \notin {"IN_REVIEW", "APPROVED"}
    /\ work[b1] # "IN_PROGRESS"
    /\ \A w \in Actors : job[w].op = "show" => On(w) \notin Repairs
    /\ \A r \in Repairs : stage[r] \in {"NONE", "INTERNAL"} \/ work[r] = "CANCELLED"
    /\ overruled = {}

Bounds == Serial /\ Together /\ Apart
==============================================================================
