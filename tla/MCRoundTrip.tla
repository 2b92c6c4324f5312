---------------------------- MODULE MCRoundTrip ----------------------------
(***************************************************************************)
(* Instances of RoundTrip for TLC.                                         *)
(***************************************************************************)
EXTENDS RoundTripProps, TLC

CONSTANTS la, lb, l0, root, ta, tb, td, d1, d2, blank, zero

MCLabel == {la, lb, l0}
MCDir == {d1, d2}
MCType == {ta, tb, td}
MCTypeOf == (la :> ta) @@ (l0 :> ta) @@ (lb :> tb) @@ (root :> td)
(* l0 has the type of la, no value otherwise and the value "0". *)
MCShown == (la :> la) @@ (l0 :> la) @@ (lb :> lb) @@ (root :> root)

Open(l) == [kind |-> "open", what |-> l]
Shut(t) == [kind |-> "close", what |-> t]
Put(d) == [kind |-> "dir", what |-> d]

Zero == <<Put(d1), Put(d1), Open(l0), Shut(ta)>>
Nested == <<Open(lb), Put(d1), Open(la), Put(d2), Shut(ta), Shut(tb)>>

MCFiles == {Zero, Nested}
Readers == {"server", "export"}
AnyEmpty == {"untagged", "crash"}
=============================================================================
