----------------------------- MODULE Reservation -----------------------------
(***************************************************************************)
(* What the booking engine promises, with no handlers, locks or cached     *)
(* counters: each holder holds all it asked for or nothing, a hold is      *)
(* granted only if every day of its window still fits the pool, a hold     *)
(* ends as a whole, and the pool may shrink when a hold is settled short.  *)
(***************************************************************************)
EXTENDS Integers, FiniteSets

CONSTANTS Assets, Holders, Stock, Need, Window

VARIABLES
    held,       \* held[h][a]: units of a promised to h
    pool        \* pool[a]: units of a owned now

Nothing == [a \in Assets |-> 0]
DaysOf(h, a) == Window[h][a].from .. Window[h][a].until

\* The units of a that are promised on day t.
Promised(a, t) == Cardinality(UNION {{h} \X (1 .. held[h][a]) :
                                        h \in {g \in Holders : t \in DaysOf(g, a)}})

Init == held = [h \in Holders |-> Nothing] /\ pool = Stock

Grant(h) ==
    /\ held[h] = Nothing
    /\ held' = [held EXCEPT ![h] = Need[h]]
    /\ \A a \in Assets : Need[h][a] > 0 => \A t \in DaysOf(h, a) : Promised(a, t)' <= pool[a]
    /\ UNCHANGED pool

Free(h) ==
    /\ held' = [held EXCEPT ![h] = Nothing]
    /\ pool' \in [Assets -> Nat]
    /\ \A a \in Assets : pool'[a] <= pool[a]

Next == \E h \in Holders : Grant(h) \/ Free(h)

Spec == Init /\ [][Next]_<<held, pool>>
==============================================================================
