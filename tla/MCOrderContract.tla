-------------------------- MODULE MCOrderContract ---------------------------
(* Two order ids, two products, one of them nearly sold out, one unknown id;  *)
(* the total of three units of p2 overflows its column. Every body is a plain *)
(* request with at most two fields that some validator minds.               *)
EXTENDS OrderContract, TLC

CONSTANTS o1, o2, p1, p2, px

MCOrders == {o1, o2}
MCProductIds == {p1, p2, px}
MCProducts == {p1, p2}
MCQuantities == 1..3
MCPrice == p1 :> 2 @@ p2 :> 3
MCInitialStock == p1 :> 3 @@ p2 :> 4
MCMaxInt == 8
MCMaxSafe == 20

Plain(p, q) ==
    [form |-> "object", product |-> "exact", id |-> p, numeral |-> "number", quantity |-> q,
     email |-> "strict", key |-> "absent"]

MCBodies ==
    {Plain(p, q) : p \in MCProductIds, q \in 1..3}
    \cup {[Plain(p, q) EXCEPT !.key = k] :
             p \in {p1, px}, q \in {-1, 0, 2, 9, 21}, k \in {"absent", "valid", "long"}}
    \cup {[Plain(p1, 2) EXCEPT !.product = t, !.email = e] :
             t \in {"exact", "padded", "number", "blank", "missing", "long"},
             e \in {"strict", "padded", "loose", "long", "bad"}}
    \cup {[Plain(p1, 2) EXCEPT !.form = f, !.numeral = n] :
             f \in {"object", "array", "malformed", "absent", "large"},
             n \in {"number", "text", "fraction"}}

OrderSymmetry == Permutations(MCOrders)
=============================================================================
