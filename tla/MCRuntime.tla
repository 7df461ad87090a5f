----------------------------- MODULE MCRuntime -----------------------------
(* Two versions of the policy file, neither of which includes the other. *)
EXTENDS Runtime

MCFirstPolicy == [prefixes |-> {"p"}, domains |-> "d1"]
MCSecondPolicy == [prefixes |-> {"q"}, domains |-> "d2"]
MCPolicies == {MCFirstPolicy, MCSecondPolicy}
=============================================================================
