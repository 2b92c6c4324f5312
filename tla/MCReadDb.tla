------------------------------ MODULE MCReadDb ------------------------------
(***************************************************************************)
(* Instances of ReadDb for TLC: small databases and what other clients do  *)
(* to them while they are read.                                            *)
(***************************************************************************)
EXTENDS ReadDbProps

CONSTANTS c1, c2, c3, c4, d1, d2, none, zero

MCCtx3 == {c1, c2, c3}
MCCtx4 == {c1, c2, c3, c4}
MCDir == {d1, d2}
AllCalls == Calls
NoFaults == {}

Plain(i, p) == [id |-> i, parent |-> p, key |-> "named", val |-> "text"]

(* The rows of a parent function. *)
Rows(parent) == {Plain(i, parent[i]) : i \in DOMAIN parent}

(* Every way to place the contexts S under each other, c1 without a parent;  *)
(* more base contexts and cycles that nothing reaches are among them.        *)
Shapes(S) == {f \in [S -> S \union {none}] : f[c1] = none /\ \A i \in S : f[i] # i}

Content(rows, maps) == [ctxs |-> rows, confs |-> MCDir, maps |-> maps]

-----------------------------------------------------------------------------
(* Nobody writes: all shapes of three contexts with all mappings, all shapes *)
(* of four with each directive in one context, and the empty tables.         *)
Quiet3 == {<<Content(Rows(f), m)>> : f \in Shapes(MCCtx3), m \in SUBSET (MCDir \X MCCtx3)}
Quiet4 == {<<Content(Rows(f), {<<d1, i>>, <<d2, j>>})>> :
             f \in Shapes(MCCtx4), i, j \in MCCtx4}
Empty == {<<[ctxs |-> {}, confs |-> {}, maps |-> {}]>>}

QuietHistories == Quiet3 \union Quiet4 \union Empty

Line3 == {Plain(c1, none), Plain(c2, c1), Plain(c3, c2)}

(* An import adds the rest of the rows in one commit, or in two.             *)
Full(rows) == Content(rows, {<<d1, c2>>, <<d2, c2>>, <<d2, c3>>})
Parts(t) == {[t EXCEPT !.ctxs = r, !.maps = m] : r \in SUBSET t.ctxs, m \in SUBSET t.maps}

OrderlyHistories ==
  QuietHistories \union
  UNION {{<<s, Full(Rows(f))>> : s \in Parts(Full(Rows(f)))} : f \in Shapes(MCCtx3)} \union
  UNION {{<<s, t, Full(Line3)>> : s \in Parts(t)} :
                    t \in {p \in Parts(Full(Line3)) : Plain(c1, none) \in p.ctxs}}

-----------------------------------------------------------------------------
(* Other clients move, delete and duplicate rows; NULL keys and values.      *)
Fork == {Plain(c1, none), Plain(c2, c1), Plain(c3, c1)}
Swapped == {Plain(c1, none), Plain(c3, c1), Plain(c2, c3)}
Cycle == {Plain(c1, c3), Plain(c2, c1), Plain(c3, c2)}
NoKey == {Plain(c1, none), [Plain(c2, c1) EXCEPT !.key = "null"], Plain(c3, c2)}
NoVal == {Plain(c1, none), [Plain(c2, c1) EXCEPT !.val = "null"], Plain(c3, c1)}
Twice == Fork \union {[Plain(c2, c1) EXCEPT !.key = "null"]}
Gone == {Plain(c1, none), Plain(c3, c1)}
Roots == {Plain(c1, none), Plain(c2, none), Plain(c3, c1)}

SomeMaps == {<<d1, c1>>, <<d1, c2>>, <<d2, c2>>, <<d2, c3>>}

Contents == {Content(r, SomeMaps) :
               r \in {Fork, Line3, Swapped, Cycle, NoKey, NoVal, Twice, Gone, Roots}}

SharedHistories == {<<s, t>> : s, t \in Contents} \union
                   {<<Content(Line3, SomeMaps), Content(Swapped, SomeMaps),
                      Content(Line3, SomeMaps)>>}

(* One content at a time. *)
FixedContents == {<<t>> : t \in Contents}

AnyBase == MCCtx3 \union {none}
NoBase == {none}
BothReads == {"intact", "garbled"}
Intact == {"intact"}
AnyEmpty == {"untagged", "crash"}
=============================================================================
