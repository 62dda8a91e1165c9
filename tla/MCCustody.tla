------------------------------- MODULE MCCustody -------------------------------
(* CustodyNode on small instances: two operations that share a key and one     *)
(* that does not, the second with requests of two lifetimes.                   *)
EXTENDS CustodyNode, TLC

CONSTANTS o1, o2, o3, d1, d2, c1, c2

MCAsked ==
    c1 :> {[op |-> o1, decision |-> d1], [op |-> o3, decision |-> d1]}
    @@ c2 :> {[op |-> o1, decision |-> d1], [op |-> o1, decision |-> d2],
              [op |-> o2, decision |-> d1]}
MCMarks == o1 :> {"r1", "k1", "a1"} @@ o2 :> {"r1", "k2", "a2"} @@ o3 :> {"r3", "k3", "a3"}
MCValidUntil == o1 :> 1 @@ o2 :> 2 @@ o3 :> 1
MCClaimedUntil == o1 :> 1 @@ o2 :> 2 @@ o3 :> 2
=============================================================================
