------------------------------ MODULE PoolSpec ------------------------------
(***************************************************************************)
(* What a pool of connections promises its clients, without mutex, waiting *)
(* or handles: a connection is free or out; one that is out is lent to at  *)
(* most one holder; only its holder returns it; and a new connection is    *)
(* made only while nothing is free and fewer exist than an allowed size.   *)
(* A holder may lose a connection, which then stays out for ever.          *)
(***************************************************************************)
EXTENDS Naturals, FiniteSets

CONSTANTS
    Holders,
    Conns,
    Sizes,     \* the sizes the pool may be given
    None

VARIABLES
    free,      \* connections that may be lent
    out,       \* connections lent or lost
    lent       \* holder -> the connection lent to it, or None

poolSpecVars == <<free, out, lent>>

Init ==
    /\ free = {}
    /\ out = {}
    /\ lent = [h \in Holders |-> None]

Lend(h) ==
    \E c \in free :
        /\ free' = free \ {c}
        /\ out' = out \cup {c}
        /\ lent' = [lent EXCEPT ![h] = c]

\* A connection c that nobody has is made for h.
CreateAs(h, c) ==
    /\ free = {}
    /\ \E n \in Sizes : Cardinality(out) < n
    /\ c \in Conns \ out
    /\ lent' = [lent EXCEPT ![h] = c]
    /\ out' = out \cup {c}
    /\ UNCHANGED free

\* The identity of a new connection is whatever has not been used before.
Create(h) == CreateAs(h, lent'[h])

Return(h) ==
    /\ lent[h] # None
    /\ free' = free \cup {lent[h]}
    /\ out' = out \ {lent[h]}
    /\ lent' = [lent EXCEPT ![h] = None]

Lose(h) ==
    /\ lent[h] # None
    /\ lent' = [lent EXCEPT ![h] = None]
    /\ UNCHANGED <<free, out>>

Transfer(h, k) ==
    /\ lent' = [lent EXCEPT ![k] = lent[h], ![h] = None]
    /\ UNCHANGED <<free, out>>

Next ==
    \/ \E h \in Holders : Lend(h) \/ Create(h) \/ Return(h) \/ Lose(h)
    \/ \E h, k \in Holders : h # k /\ Transfer(h, k)

Spec == Init /\ [][Next]_poolSpecVars

=============================================================================
