-------------------------- MODULE MCLoadBalancers --------------------------
(***************************************************************************)
(* The load balancers of labs 10, 12 and 13 before the same clients and    *)
(* backends, for TLC.  Which one runs is chosen in the initial state.      *)
(***************************************************************************)
EXTENDS Proxy, TLC

\* Bound: clients that come after all others, only to take up descriptors: with
\* the first of them no more lines are sent, and they, and the backends' ends
\* they are given, stay as they are.  Without them nothing is bounded.
CONSTANT Late

VARIABLES lab, table

L10 == INSTANCE TcpLB WITH conn_table <- table
L12 == INSTANCE ForkLB WITH child <- table
L13 == INSTANCE AsyncLB WITH connections <- table

Init == \/ lab = 10 /\ L10!Init
        \/ lab = 12 /\ L12!Init
        \/ lab = 13 /\ L13!Init

Takes(p) == /\ p \in Late => conn[p] = "idle" /\ \A q \in Clients \ Late : conn[q] # "idle"
            /\ mate[p] \notin Late
            /\ \A q \in Late : conn[q] # "idle" => nsent' = nsent

Next == /\ UNCHANGED lab
        /\ \/ lab = 10 /\ L10!Server
           \/ lab = 12 /\ L12!Server
           \/ lab = 13 /\ L13!Server
           \/ \E p \in Peers : Remote(p) /\ Takes(p) /\ UNCHANGED <<proxyVars, table>>

Spec == Init /\ [][Next]_<<loopVars, proxyVars, lab, table>>
-----------------------------------------------------------------------------
\* Lab 13: an open pair is whole and entered twice.
PairsIntact == lab = 13 => L13!PairsIntact

\* Lab 10: round robin over the backends.
Balanced == lab = 10 => L10!Balanced

\* Labs 12 and 13: at most one client in a row per dead backend is given to one.
RefusalsBounded == lab # 10 => OncePerDead

\* The clients but the late ones are interchangeable, these are, and so are the
\* backends' ends.
Symmetry == Permutations(Clients \ Late) \cup Permutations(Late) \cup Permutations(Peers \ Clients)
=============================================================================
