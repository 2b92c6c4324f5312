---------------------------- MODULE MCConf2Sql ----------------------------
(***************************************************************************)
(* Instances of Conf2Sql for TLC: the files that are imported.             *)
(***************************************************************************)
EXTENDS Conf2SqlProps, TLC

CONSTANTS la, lb, root, ta, tb, td, d1, d2

MCLabel == {la, lb}
MCDir == {d1, d2}
MCType == {ta, tb, td}
MCTypeOf == (la :> ta) @@ (lb :> tb) @@ (root :> td)

Open(l) == [kind |-> "open", what |-> l]
Shut(t) == [kind |-> "close", what |-> t]
Put(d) == [kind |-> "dir", what |-> d]

AnyLine == {Open(la), Shut(ta), Shut(td), Put(d1), Put(d2)}

(* All files of up to two of these lines. *)
Short == UNION {[1..n -> AnyLine] : n \in 0..2}

(* Nested, side by side, alike at two depths, alike side by side. *)
Nested(l, m) == <<Put(d1), Open(l), Put(d2), Open(m), Put(d1), Shut(MCTypeOf[m]),
                  Put(d1), Shut(MCTypeOf[l])>>
Beside(l, m) == <<Open(l), Put(d1), Shut(MCTypeOf[l]), Put(d2), Open(m), Put(d1),
                  Shut(MCTypeOf[m])>>

Twins == Beside(la, la)
Long == {Nested(la, lb), Nested(la, la), Beside(la, lb)}

SomeFiles == Short \union Long
TwinFiles == {Twins}
=============================================================================
