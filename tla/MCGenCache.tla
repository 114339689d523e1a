----------------------------- MODULE MCGenCache -----------------------------
(* Instances of GenCache: three keys of which two start probing at the     *)
(* same slot; one of them has a short and a long response.                 *)
EXTENDS GenCache, Bitwise

CONSTANTS k1, k2, k3, a1, a2, b1, c1, w1, w2

MCXor(a, b) == a ^^ b

Homes == k1 :> 0 @@ k2 :> 0 @@ k3 :> 1
Hashes == k1 :> [lo |-> 0, hi |-> 1] @@ k2 :> [lo |-> 0, hi |-> 2] @@ k3 :> [lo |-> 1, hi |-> 3]
Responses == k1 :> {a1, a2} @@ k2 :> {b1} @@ k3 :> {c1}
OneResponse == k1 :> {a1} @@ k2 :> {b1} @@ k3 :> {c1}
Sizes == a1 :> 1 @@ a2 :> 2 @@ b1 :> 1 @@ c1 :> 1
Lookalikes == a1 :> 1 @@ a2 :> 1 @@ b1 :> 3 @@ c1 :> 4
SameSizes == a1 :> 1 @@ a2 :> 1 @@ b1 :> 1 @@ c1 :> 1
Classes == a1 :> 1 @@ a2 :> 2 @@ b1 :> 3 @@ c1 :> 4

CallsForever == w1 :> Forever @@ w2 :> 0
Calls22 == w1 :> 2 @@ w2 :> 2
Calls44 == w1 :> 4 @@ w2 :> 4
Calls81 == w1 :> 8 @@ w2 :> 1
Calls42 == w1 :> 4 @@ w2 :> 2

SetGet == w1 :> {"set"} @@ w2 :> {"get"}
WriterReader == w1 :> {"set"} @@ w2 :> {"get", "pop", "invalidate"}
Calls52 == w1 :> 5 @@ w2 :> 2
OnlySetGet == w1 :> {"set", "get"} @@ w2 :> {"set", "get"}
SetGetPop == w1 :> {"set", "get"} @@ w2 :> {"pop"}
OnlySet == w1 :> {"set"} @@ w2 :> {}
All == {"set", "get", "pop", "contains", "invalidate"}
Anything == w1 :> All @@ w2 :> All

-----------------------------------------------------------------------------
(* One worker that sets keys 1, 2, 3, ... once each.  The cache holds two  *)
(* entries and its filter has eight cells, the ratio of four that          *)
(* compute_filter_bucket_count() gives.                                    *)

ManyKeys == 1 .. 14
ManyHomes == [k \in ManyKeys |-> k % 2]
ManyHashes == [k \in ManyKeys |-> [lo |-> k \div 2, hi |-> k]]
ManyResponses == [k \in ManyKeys |-> {100 + k}]
ManySizes == [v \in {100 + k : k \in ManyKeys} |-> 1]
ManyClasses == [v \in {100 + k : k \in ManyKeys} |-> v]
ManyCalls == w1 :> Cardinality(ManyKeys)

InOrder == calls' # calls => loc'[w1].key = calls'[w1]
OrderedSpec == Init /\ [][Next /\ InOrder]_vars

-----------------------------------------------------------------------------
(* Three workers with a fixed sequence of calls each.  One scans for       *)
(* survivors while another rotates, overwrites and invalidates; the third  *)
(* looks for the overwritten key before and after.                         *)

Third == "w3"
ThreeProcs == {w1, w2, Third}
PlanOf == w1 :> << <<"set", k2, b1>>, <<"set", k3, c1>>, <<"set", k2, c1>> >>
       @@ w2 :> << <<"set", k1, a1>>, <<"set", k1, a2>>, <<"invalidate", Miss, Miss>> >>
       @@ Third :> << <<"get", k1, Miss>>, <<"get", k1, Miss>> >>
PlanCalls == [p \in ThreeProcs |-> Len(PlanOf[p])]
PlanScript == [p \in ThreeProcs |-> {PlanOf[p][n][1] : n \in 1 .. Len(PlanOf[p])}]
PlanResponses == k1 :> {a1, a2} @@ k2 :> {b1, c1} @@ k3 :> {c1}
SharedHash == k1 :> [lo |-> 0, hi |-> 1] @@ k2 :> [lo |-> 0, hi |-> 1] @@ k3 :> [lo |-> 1, hi |-> 3]

Planned ==
  \A p \in Procs : calls'[p] # calls[p] =>
    /\ <<loc'[p].op, loc'[p].key, loc'[p].val>> = PlanOf[p][calls'[p]]
    /\ p # w1 => calls[w1] = 3
    /\ p = w2 => calls[Third] = 1
    /\ p = Third /\ calls[p] = 1 => calls[w2] = 3 /\ pc[w1] = "idle"
PlannedSpec == Init /\ [][Next /\ Planned]_vars
=============================================================================
