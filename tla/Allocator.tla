----------------------------- MODULE Allocator -----------------------------
(***************************************************************************)
(* What a heap promises its callers: malloc hands out a region of at least *)
(* the requested length that shares no byte with a region still in use,    *)
(* and a region stays where it is until its owner frees or resizes it, or  *)
(* ends and gives up all of them.                                          *)
(***************************************************************************)
EXTENDS Integers

CONSTANTS
    ALIGN,            \* every region starts at a multiple of ALIGN
    Unkept            \* lengths whose regions may turn out shorter

VARIABLES
    live,             \* [start of a region in use -> length asked for]
    open              \* whether the owner of the regions is there

\* The bytes that a caller can rely on.
Extent(p, n) == IF n \in Unkept THEN {} ELSE p .. p + n - 1

\* q is the start of a region of n bytes next to the regions of l.
Fits(l, q, n) ==
    /\ q \in Nat /\ q > 0 /\ q % ALIGN = 0
    /\ q \notin DOMAIN l
    /\ \A p \in DOMAIN l : Extent(p, l[p]) \cap Extent(q, n) = {}

Without(l, p) == [q \in DOMAIN l \ {p} |-> l[q]]
With(l, q, n) == [p \in DOMAIN l \cup {q} |-> IF p = q THEN n ELSE l[p]]

Init == live = << >> /\ open = TRUE

Allocate(q, n) == Fits(live, q, n) /\ live' = With(live, q, n)

Release(p) == p \in DOMAIN live /\ live' = Without(live, p)

Resize(p, n) ==
    /\ p \in DOMAIN live
    /\ Fits(Without(live, p), p, n)
    /\ live' = With(live, p, n)

Move(p, q, n) ==
    /\ p \in DOMAIN live
    /\ Fits(live, q, n)
    /\ live' = With(Without(live, p), q, n)

\* Some operation changes the regions in use from live to live'.
Change ==
    \/ \E q \in DOMAIN live' : Allocate(q, live'[q])
    \/ \E p \in DOMAIN live : Release(p)
    \/ \E p \in DOMAIN live \cap DOMAIN live' : Resize(p, live'[p])
    \/ \E p \in DOMAIN live, q \in DOMAIN live' : Move(p, q, live'[q])

\* The owner of all regions ends, and another takes its place.
End == open /\ ~open' /\ live' = << >>
Begin == ~open /\ open' /\ live' = << >>

Next == (open /\ Change /\ UNCHANGED open) \/ End \/ Begin

Spec == Init /\ [][Next]_<<live, open>>
=============================================================================
