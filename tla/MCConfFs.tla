------------------------------ MODULE MCConfFs ------------------------------
(***************************************************************************)
(* Instances of ConfFs for TLC: the URIs of a configuration that includes  *)
(* several, two of them malformed, and of ones with a single good URI.     *)
(***************************************************************************)
EXTENDS ConfFs, TLC

CONSTANTS b1, b2, none, junk

MCBase == {b1, b2}
MCSize == (b1 :> 2) @@ (b2 :> 1) @@ (none :> 1) @@ (junk :> 0)
AnyResult == {"ok", "early", "late"}
Success == {"ok"}

Whole == [base |-> none, tracing |-> TRUE, parse |-> "ok"]
Below(b) == [base |-> b, tracing |-> FALSE, parse |-> "ok"]
Malformed(how) == [base |-> b2, tracing |-> TRUE, parse |-> how]

MixedUris == {Whole, Below(b1), Malformed("connect"), Malformed("tables")}
IncludeUris == {Below(b1), Below(b2)}
GoodUris == {Whole, Below(b1)}
=============================================================================
