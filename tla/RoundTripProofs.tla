-------------------------- MODULE RoundTripProofs --------------------------
(***************************************************************************)
(* What the readers get from the tables while imports go on.               *)
(***************************************************************************)
EXTENDS RoundTripProps, Conf2SqlProofs, WellFoundedInduction

-----------------------------------------------------------------------------
(* Every step of the three programs is one of the importer, or leaves its    *)
(* variables alone.                                                          *)
LEMMA ImporterMoves == RoundTripNext => [Next]_vars
  BY DEF RoundTripNext, ImporterStep, ExportStep, ServerStep, Next, allVars

-----------------------------------------------------------------------------
(* The depth of a file: what the lines read so far opened and did not close, *)
(* since the last time that all was closed, is on the stack of contexts.     *)

Depth ==
  /\ file \in Files
  /\ \E i \in 0..pos : Len(ctxs) + Count(file, "close", i + 1, pos)
                       = 1 + Count(file, "open", i + 1, pos)

LEMMA CountsOne ==
  ASSUME NEW f, NEW kind, NEW i \in Nat, NEW j \in Nat, i <= j + 1
  PROVE  /\ Count(f, kind, i, j) \in Nat
         /\ f[j + 1].kind = kind => Count(f, kind, i, j + 1) = Count(f, kind, i, j) + 1
         /\ f[j + 1].kind # kind => Count(f, kind, i, j + 1) = Count(f, kind, i, j)
<1> DEFINE S == {k \in i..j : f[k].kind = kind}
           T == {k \in i..(j + 1) : f[k].kind = kind}
<1>1. IsFiniteSet(i..j) /\ S \in SUBSET (i..j)
  BY FS_Interval
<1>2. IsFiniteSet(S) /\ Cardinality(S) \in Nat
  BY <1>1, FS_Subset, FS_CardinalityType
<1>3. i..(j + 1) = (i..j) \union {j + 1} /\ j + 1 \notin S
  OBVIOUS
<1>4. f[j + 1].kind = kind => T = S \union {j + 1}
  BY <1>3
<1>5. f[j + 1].kind # kind => T = S
  BY <1>3
<1>6. Count(f, kind, i, j) = Cardinality(S) /\ Count(f, kind, i, j + 1) = Cardinality(T)
  BY DEF Count
<1> HIDE DEF S, T
<1>7. Cardinality(S \union {j + 1}) = Cardinality(S) + 1
  BY <1>2, <1>3, FS_AddElement
<1> QED
  BY <1>2, <1>4, <1>5, <1>6, <1>7

LEMMA CountsNone ==
  ASSUME NEW f, NEW kind, NEW j \in Nat
  PROVE  Count(f, kind, j + 1, j) = 0
<1>1. {k \in (j + 1)..j : f[k].kind = kind} = {}
  OBVIOUS
<1> QED
  BY <1>1, FS_EmptySet DEF Count

LEMMA DepthBegins ==
  ASSUME file \in Files, pos = 0, Len(ctxs) = 1
  PROVE  Depth
<1>1. Count(file, "close", 0 + 1, 0) = 0 /\ Count(file, "open", 0 + 1, 0) = 0 /\ 0 \in 0..0
  BY CountsNone
<1> QED
  BY <1>1 DEF Depth

(* One more line. *)
LEMMA DepthReads ==
  ASSUME Typed, Depth, file' = file, pos' = pos + 1, NEW n \in Nat, n = Len(ctxs), Len(ctxs') \in Nat,
         \/ file[pos + 1].kind = "open" /\ Len(ctxs') = n + 1
         \/ file[pos + 1].kind = "close" /\ Len(ctxs') = (IF n = 1 THEN 1 ELSE n - 1)
         \/ file[pos + 1].kind = "dir" /\ Len(ctxs') = n
  PROVE  Depth'
<1>1. pos \in Nat /\ file' \in Files
  BY DEF Typed, TypeOK, Depth
<1>2. PICK i \in 0..pos : n + Count(file, "close", i + 1, pos) = 1 + Count(file, "open", i + 1, pos)
  BY DEF Depth
<1>3. i \in Nat /\ i + 1 \in Nat /\ i + 1 <= pos + 1
  BY <1>1, <1>2
<1>4. PICK c \in Nat, o \in Nat : /\ c = Count(file, "close", i + 1, pos)
                                  /\ o = Count(file, "open", i + 1, pos)
  BY <1>1, <1>3, CountsOne
<1>5. n + c = 1 + o
  BY <1>2, <1>4
<1> DEFINE c2 == Count(file, "close", i + 1, pos + 1)
           o2 == Count(file, "open", i + 1, pos + 1)
<1>6. /\ file[pos + 1].kind = "open" => c2 = c /\ o2 = o + 1
      /\ file[pos + 1].kind = "close" => c2 = c + 1 /\ o2 = o
      /\ file[pos + 1].kind = "dir" => c2 = c /\ o2 = o
  BY <1>1, <1>3, <1>4, CountsOne
<1>7. i \in 0..(pos + 1) /\ pos + 1 \in 0..(pos + 1)
  BY <1>1
<1> HIDE DEF c2, o2
<1>8. CASE file[pos + 1].kind = "close" /\ n = 1
  <2>1. /\ Count(file, "close", (pos + 1) + 1, pos + 1) = 0
        /\ Count(file, "open", (pos + 1) + 1, pos + 1) = 0
    BY <1>1, CountsNone
  <2>2. Len(ctxs') = 1
    BY <1>8
  <2> QED
    BY <1>1, <1>7, <2>1, <2>2 DEF Depth
<1>9. CASE ~(file[pos + 1].kind = "close" /\ n = 1)
  <2>1. Len(ctxs') + c2 = 1 + o2
    BY <1>5, <1>6, <1>9
  <2> QED
    BY <1>1, <1>7, <2>1 DEF Depth, c2, o2
<1> QED
  BY <1>8, <1>9

LEMMA DepthNext == Typed /\ Depth /\ [Next]_vars => Depth'
<1> SUFFICES ASSUME Typed, Depth, [Next]_vars PROVE Depth'
  OBVIOUS
<1>0. Len(ctxs) \in Nat /\ Len(ctxs) # 0
  BY DEF Typed, TypeOK
<1>1. PICK n \in Nat : n = Len(ctxs) /\ n # 0
  BY <1>0
<1>2. ctxs \in Seq(1..Len(nodes)) /\ ctxs # <<>>
  BY DEF Typed, TypeOK
<1>3. CASE OpenLine
  <2>1. file' = file /\ pos' = pos + 1 /\ file[pos + 1].kind = "open"
    BY <1>3 DEF OpenLine, Line, options
  <2>2. ctxs' = << Len(nodes) + 1 >> \o ctxs
    BY <1>3 DEF OpenLine
  <2>3. Len(ctxs') = n + 1
    <3>1. << Len(nodes) + 1 >> \in Seq(Nat) /\ ctxs \in Seq(Nat) /\ Len(<< Len(nodes) + 1 >>) = 1
      BY <1>2 DEF Typed, TypeOK
    <3> QED
      BY <1>1, <2>2, <3>1, ConcatProperties
  <2> QED
    BY <1>1, <2>1, <2>3, DepthReads
<1>4. CASE CloseLine
  <2>1. file' = file /\ pos' = pos + 1 /\ file[pos + 1].kind = "close" /\ ctxs' = Closed
    BY <1>4 DEF CloseLine, Line, options
  <2>2. Len(Tail(ctxs)) = n - 1
    BY <1>1, <1>2, HeadTailProperties
  <2>3. Len(ctxs') = IF n = 1 THEN 1 ELSE n - 1
    BY <1>1, <2>1, <2>2 DEF Closed
  <2>4. Len(ctxs') \in Nat
    BY <1>1, <2>3
  <2> QED
    BY <1>1, <2>1, <2>3, <2>4, DepthReads
<1>5. CASE DirLine
  <2>1. file' = file /\ pos' = pos + 1 /\ file[pos + 1].kind = "dir" /\ ctxs' = ctxs
    BY <1>5 DEF DirLine, Line, options
  <2> QED
    BY <1>1, <2>1, DepthReads
<1>6. CASE Rerun
  <2>1. file' \in Files /\ pos' = 0 /\ ctxs' = << 1 >>
    BY <1>6 DEF Rerun, Started
  <2>2. Len(ctxs') = 1
    BY <2>1
  <2>3. /\ Count(file', "close", 0 + 1, 0) = 0 /\ Count(file', "open", 0 + 1, 0) = 0
        /\ 0 \in 0..0
    BY CountsNone
  <2> QED
    BY <2>1, <2>2, <2>3 DEF Depth
<1>7. ASSUME UNCHANGED <<file, pos, ctxs>> PROVE Depth'
  BY <1>7 DEF Depth
<1>8. CASE BadClose \/ EndOfFile \/ Statement \/ Return \/ Exit \/ Die
  <2>1. UNCHANGED <<file, pos, ctxs>>
    BY <1>8 DEF BadClose, EndOfFile, Statement, DeleteCtxs, DeleteConfs, DeleteMaps, InsertRoot,
                SelectRoot, InsertConf, SelectConf, InsertMap, InsertCtx, SelectCtx, Return, Exit,
                Die, Script, tree, options
  <2> QED
    BY <1>7, <2>1
<1>9. CASE UNCHANGED vars
  BY <1>7, <1>9 DEF vars
<1> QED
  BY <1>3, <1>4, <1>5, <1>6, <1>8, <1>9 DEF Next, Step, Parse

LEMMA DepthBound == Typed /\ Depth => Len(ctxs) \in 1..MaxDepth
<1> SUFFICES ASSUME Typed, Depth PROVE Len(ctxs) \in 1..MaxDepth
  OBVIOUS
<1>0. Len(ctxs) \in Nat /\ Len(ctxs) # 0
  BY DEF Typed, TypeOK
<1>1. PICK n \in Nat : n = Len(ctxs) /\ n # 0
  BY <1>0
<1>2. pos \in 0..Len(file) /\ pos \in Nat /\ DOMAIN file = 1..Len(file) /\ Len(file) \in Nat
  BY DEF Typed, TypeOK
<1>3. PICK i \in 0..pos : n + Count(file, "close", i + 1, pos) = 1 + Count(file, "open", i + 1, pos)
  BY <1>1 DEF Depth
<1>4. MaxDepth \in Nat \ {0} /\ Shallow(file)
  BY RoundTripAssumption DEF Depth
<1>5. i \in Nat /\ i + 1 \in Nat /\ i + 1 <= pos + 1
  BY <1>2
<1>6. PICK c \in Nat, o \in Nat : /\ c = Count(file, "close", i + 1, pos)
                                  /\ o = Count(file, "open", i + 1, pos)
  BY <1>2, <1>5, CountsOne
<1>7. n + c = 1 + o
  BY <1>3, <1>6
<1>8. CASE i = pos
  <2>1. c = 0 /\ o = 0
    BY <1>2, <1>6, <1>8, CountsNone
  <2>2. n = 1
    BY <1>7, <2>1
  <2>3. 1 \in 1..MaxDepth
    BY <1>4
  <2> QED
    BY <1>1, <2>2, <2>3
<1>9. CASE i # pos
  <2>1. i + 1 \in DOMAIN file /\ pos \in DOMAIN file
    BY <1>2, <1>5, <1>9
  <2>2. o < c + MaxDepth
    BY <1>4, <1>6, <2>1 DEF Shallow
  <2>3. n <= MaxDepth
    BY <1>1, <1>4, <1>6, <1>7, <2>2
  <2> QED
    BY <1>1, <1>4, <2>3
<1> QED
  BY <1>8, <1>9

-----------------------------------------------------------------------------
(* How deep each context of the file is.                                     *)

(* h is the depth of each context: that of an open one is its place on the   *)
(* stack, and a context is deeper than the one that contains it.             *)
Heights(h) ==
  /\ h \in [DOMAIN nodes -> 1..MaxDepth]
  /\ \A p \in DOMAIN nodes : \A i \in 1..Len(Subs(p)) : h[Subs(p)[i]] > h[p]
  /\ \A i \in 1..Len(ctxs) : h[ctxs[i]] = Len(ctxs) + 1 - i

(* A call is never above the depth of its context; what it has to do is that *)
(* of its context.                                                           *)
CallHeights(h) ==
  pc = "process" =>
    \A k \in 1..Len(calls) :
      /\ h[calls[k].node] >= k
      /\ Values(calls[k].subs) \subseteq Values(Subs(calls[k].node))

Leveled == \E h : Heights(h) /\ CallHeights(h)

(* No context but the first is the default one. *)
Named == \A p \in DOMAIN nodes : p # 1 => nodes[p].label \in Label

LEMMA LevelsOfOne ==
  nodes = <<NewNode(Default)>> /\ ctxs = << 1 >> /\ pc # "process" => Leveled /\ Named
<1> SUFFICES ASSUME nodes = <<NewNode(Default)>>, ctxs = << 1 >>, pc # "process"
             PROVE  Leveled /\ Named
  OBVIOUS
<1> DEFINE h == [p \in {1} |-> 1]
<1>1. DOMAIN nodes = {1} /\ Subs(1) = <<>> /\ Len(ctxs) = 1 /\ ctxs[1] = 1
  BY DEF Subs, NewNode
<1>2. h \in [{1} -> 1..MaxDepth] /\ h[1] = 1
  BY RoundTripAssumption
<1> HIDE DEF h
<1>3. Heights(h)
  BY <1>1, <1>2 DEF Heights
<1> QED
  BY <1>1, <1>3 DEF Leveled, CallHeights, Named

LEMMA LevelsOpen == Typed /\ Depth' /\ Typed' /\ Leveled /\ Named /\ OpenLine => Leveled' /\ Named'
<1> SUFFICES ASSUME Typed, Depth', Typed', Leveled, Named, OpenLine PROVE Leveled' /\ Named'
  OBVIOUS
<1>0. PICK n \in Nat, new \in Nat : n = Len(nodes) /\ new = n + 1
  BY DEF Typed, TypeOK
<1>1. PICK cur : cur = Current
  OBVIOUS
<1>2. /\ cur \in 1..n /\ DOMAIN nodes = 1..n /\ DOMAIN nodes' = 1..new
      /\ nodes'[new] = NewNode(Line.what)
      /\ \A p \in 1..n : nodes'[p].label = nodes[p].label
      /\ \A p \in 1..new : \A i \in 1..Len(Subs(p)') :
           \/ p \in 1..n /\ i \in 1..Len(Subs(p)) /\ Subs(p)'[i] = Subs(p)[i]
           \/ p = cur /\ Subs(p)'[i] = new
  <2>1. PICK k \in Nat :
           /\ k = Len(Subs(cur)) /\ Len(Subs(cur)') = k + 1 /\ Subs(cur)'[k + 1] = new
           /\ \A p \in 1..new : \A i \in 1..Len(Subs(p)') :
                \/ p \in 1..n /\ i \in 1..Len(Subs(p)) /\ Subs(p)'[i] = Subs(p)[i]
                \/ p = cur /\ i = k + 1 /\ Subs(p)'[i] = new
    BY <1>0, <1>1, Opened
  <2>2. /\ cur \in 1..n /\ DOMAIN nodes = 1..n /\ DOMAIN nodes' = 1..new
        /\ nodes'[new] = NewNode(Line.what)
        /\ \A p \in 1..n : nodes'[p].label = nodes[p].label
    BY <1>0, <1>1, Opened
  <2> QED
    BY <2>1, <2>2
<1>3. PICK h : Heights(h)
  BY DEF Leveled
<1>4. PICK len \in Nat \ {0} : len = Len(ctxs)
  BY DEF Typed, TypeOK
<1>5. ctxs \in Seq(1..n) /\ ctxs' = << new >> \o ctxs /\ pc' = "parse" /\ cur = ctxs[1]
  BY <1>0, <1>1 DEF OpenLine, Typed, TypeOK, Current
<1>6. /\ Len(ctxs') = len + 1 /\ ctxs'[1] = new
      /\ \A i \in 2..(len + 1) : i - 1 \in 1..len /\ ctxs'[i] = ctxs[i - 1]
  BY <1>4, <1>5
<1>7. len + 1 \in 1..MaxDepth
  <2>1. (Typed /\ Depth => Len(ctxs) \in 1..MaxDepth)'
    BY DepthBound, PTL
  <2> QED
    BY <1>6, <2>1
<1> DEFINE g == [p \in 1..new |-> IF p = new THEN len + 1 ELSE h[p]]
<1>8. /\ h \in [1..n -> 1..MaxDepth] /\ \A i \in 1..len : h[ctxs[i]] = len + 1 - i
      /\ \A p \in 1..n : \A i \in 1..Len(Subs(p)) : h[Subs(p)[i]] > h[p]
  BY <1>2, <1>3, <1>4 DEF Heights
<1>9. 1..new = (1..n) \union {new} /\ new \notin 1..n
  BY <1>0
<1>10. /\ g \in [1..new -> 1..MaxDepth] /\ g[new] = len + 1
       /\ \A p \in 1..n : g[p] = h[p]
  BY <1>7, <1>8, <1>9
<1> HIDE DEF g
<1>11. \A i \in 1..(len + 1) : g[ctxs'[i]] = len + 2 - i
  <2> SUFFICES ASSUME NEW i \in 1..(len + 1) PROVE g[ctxs'[i]] = len + 2 - i
    OBVIOUS
  <2>1. CASE i = 1
    BY <1>6, <1>10, <2>1
  <2>2. CASE i # 1
    <3>1. i \in 2..(len + 1) /\ i - 1 \in 1..len
      BY <2>2
    <3>2. ctxs'[i] = ctxs[i - 1] /\ ctxs[i - 1] \in 1..n
      BY <1>4, <1>5, <1>6, <3>1
    <3>3. g[ctxs'[i]] = len + 1 - (i - 1)
      BY <1>8, <1>10, <3>1, <3>2
    <3> QED
      BY <3>3
  <2> QED
    BY <2>1, <2>2
<1>12. \A p \in 1..new : \A i \in 1..Len(Subs(p)') : g[Subs(p)'[i]] > g[p]
  <2> SUFFICES ASSUME NEW p \in 1..new, NEW i \in 1..Len(Subs(p)') PROVE g[Subs(p)'[i]] > g[p]
    OBVIOUS
  <2>1. CASE p \in 1..n /\ i \in 1..Len(Subs(p)) /\ Subs(p)'[i] = Subs(p)[i]
    <3>1. Subs(p)[i] \in 1..n
      BY <1>2, <2>1, <1>0, NodeLists
    <3> QED
      BY <1>8, <1>10, <2>1, <3>1
  <2>2. CASE p = cur /\ Subs(p)'[i] = new
    <3>1. h[cur] = len
      <4>1. 1 \in 1..len /\ len + 1 - 1 = len
        BY <1>4
      <4> QED
        BY <1>5, <1>8, <4>1
    <3> QED
      BY <1>2, <1>10, <2>2, <3>1
  <2> QED
    BY <1>2, <2>1, <2>2
<1>13. Heights(g)'
  BY <1>2, <1>6, <1>10, <1>11, <1>12 DEF Heights
<1>14. Named'
  <2>1. Line.what \in Label
    <3>1. Line \in FileLine
      BY DEF OpenLine, More, Line, Typed, TypeOK
    <3> QED
      BY <3>1 DEF OpenLine, FileLine
  <2> QED
    BY <1>2, <1>9, <2>1 DEF Named, NewNode
<1> QED
  BY <1>5, <1>13, <1>14 DEF Leveled, CallHeights

(* What a step of the walk does to the calls: those that stay keep their     *)
(* context and its id, and have no more to do than before; a new one is for  *)
(* a sub-context of the innermost, with the id of a row below its row.       *)
CallsKept ==
  \A k \in 1..Len(calls') : k \in 1..Len(calls) =>
    /\ calls'[k].node = calls[k].node /\ calls'[k].id = calls[k].id
    /\ Values(calls'[k].subs) \subseteq Values(calls[k].subs)

Called ==
  /\ calls # <<>> /\ Len(calls') = Len(calls) + 1 /\ UNCHANGED tables
  /\ \E s \in Values(Top.subs), r \in ctxTab :
       r.parent = Top.id /\ calls'[Len(calls')] = NewCall(s, r.id)

LEMMA CallMoves ==
  ASSUME Typed, calls # <<>>, NEW call, SetTop(call), call.node = Top.node, call.id = Top.id,
         call.subs = Top.subs
  PROVE  Len(calls') = Len(calls) /\ CallsKept
<1>1. calls \in Seq(CallIn(Len(nodes)))
  BY DEF Typed
<1>2. PICK n \in Nat : n = Len(calls) /\ n # 0
  BY <1>1
<1>3. calls' = [calls EXCEPT ![n] = call] /\ Top = calls[n]
  BY <1>2 DEF SetTop, Top
<1>4. Len(calls') = n /\ calls'[n] = call /\ \A k \in 1..n : k # n => calls'[k] = calls[k]
  BY <1>1, <1>2, <1>3
<1> QED
  BY <1>2, <1>3, <1>4 DEF CallsKept

LEMMA CallsStep ==
  ASSUME Typed, pc = "process", pc' = "process", [Next]_vars
  PROVE  /\ UNCHANGED Script
         /\ CallsKept
         /\ Len(calls') <= Len(calls) \/ Called
<1>1. calls \in Seq(CallIn(Len(nodes))) /\ Len(calls) \in Nat
  BY DEF Typed
<1>2. calls # <<>> => Top \in CallIn(Len(nodes)) /\ Len(calls) # 0
  BY <1>1 DEF Top
<1>3. CASE InsertConf \/ SelectConf \/ InsertMap \/ InsertCtx
  <2>1. calls # <<>> /\ UNCHANGED Script
    BY <1>3 DEF InsertConf, SelectConf, InsertMap, InsertCtx, At
  <2>2. \E call : SetTop(call) /\ call.node = Top.node /\ call.id = Top.id /\ call.subs = Top.subs
    <3>1. Top \in CallIn(Len(nodes))
      BY <1>2, <2>1
    <3>2. CASE InsertConf
      <4> DEFINE call == [Top EXCEPT !.at = "select"]
      <4>1. SetTop(call)
        BY <3>2 DEF InsertConf
      <4>2. call.node = Top.node /\ call.id = Top.id /\ call.subs = Top.subs
        BY <3>1 DEF CallIn
      <4> QED
        BY <4>1, <4>2
    <3>3. CASE SelectConf
      <4>1. PICK c : SetTop([Top EXCEPT !.at = "map", !.conf = c.id])
        BY <3>3 DEF SelectConf
      <4> DEFINE call == [Top EXCEPT !.at = "map", !.conf = c.id]
      <4>2. call.node = Top.node /\ call.id = Top.id /\ call.subs = Top.subs
        BY <3>1 DEF CallIn
      <4> QED
        BY <4>1, <4>2
    <3>4. CASE InsertMap
      <4> DEFINE call == [Top EXCEPT !.at = "insert", !.dirs = Tail(@)]
      <4>1. SetTop(call)
        BY <3>4 DEF InsertMap
      <4>2. call.node = Top.node /\ call.id = Top.id /\ call.subs = Top.subs
        BY <3>1 DEF CallIn
      <4> QED
        BY <4>1, <4>2
    <3>5. CASE InsertCtx
      <4> DEFINE call == [Top EXCEPT !.at = "find"]
      <4>1. SetTop(call)
        BY <3>5 DEF InsertCtx
      <4>2. call.node = Top.node /\ call.id = Top.id /\ call.subs = Top.subs
        BY <3>1 DEF CallIn
      <4> QED
        BY <4>1, <4>2
    <3> QED
      BY <1>3, <3>2, <3>3, <3>4, <3>5
  <2>3. Len(calls') = Len(calls) /\ CallsKept
    BY <2>1, <2>2, CallMoves
  <2> QED
    BY <1>1, <2>1, <2>3
<1>4. CASE SelectCtx
  <2>0. calls # <<>> /\ Top.at = "find" /\ UNCHANGED <<Script, tables>>
    BY <1>4 DEF SelectCtx, At
  <2>1. PICK n \in Nat : n = Len(calls) /\ n # 0
    BY <1>1, <1>2, <2>0
  <2>2. Top = calls[n] /\ Top \in CallIn(Len(nodes)) /\ Top.subs # <<>> /\ Top.subs \in Seq(Nat)
    BY <1>2, <2>0, <2>1 DEF Top, CallIn
  <2> DEFINE sub == Head(Top.subs)
             top == [Top EXCEPT !.at = "insert", !.subs = Tail(@)]
  <2>3. PICK r \in Alike(nodes[sub].label, Top.id) :
          calls' = Append([calls EXCEPT ![n].at = "insert", ![n].subs = Tail(@)], NewCall(sub, r.id))
    BY <1>4, <2>1 DEF SelectCtx
  <2>4. r \in ctxTab /\ r.parent = Top.id
    BY DEF Alike
  <2>5. [calls EXCEPT ![n].at = "insert", ![n].subs = Tail(@)] = [calls EXCEPT ![n] = top]
    BY <1>1, <2>1, <2>2
  <2>6. top.node = Top.node /\ top.id = Top.id /\ top.subs = Tail(Top.subs)
    BY <2>2 DEF CallIn
  <2>7. sub \in Values(Top.subs) /\ Values(Tail(Top.subs)) \subseteq Values(Top.subs)
    <3>1. PICK m \in Nat : m = Len(Top.subs) /\ m # 0
      BY <2>2
    <3>2. DOMAIN Top.subs = 1..m /\ DOMAIN Tail(Top.subs) = 1..(m - 1)
      BY <2>2, <3>1
    <3>3. \A i \in 1..(m - 1) : i + 1 \in 1..m /\ Tail(Top.subs)[i] = Top.subs[i + 1]
      BY <2>2, <3>1
    <3>4. 1 \in 1..m /\ sub = Top.subs[1]
      BY <2>2, <3>1
    <3> QED
      BY <3>2, <3>3, <3>4 DEF Values
  <2> DEFINE next == NewCall(sub, r.id)
  <2>8. calls \in Seq(UNION {CallIn(Len(nodes)), {top}, {next}}) /\ calls # <<>>
    BY <1>1, <2>0
  <2>9. /\ Len(calls') = n + 1 /\ calls'[n + 1] = next /\ calls'[n] = top
        /\ \A i \in 1..(n - 1) : calls'[i] = calls[i]
    <3>1. calls' = Append([calls EXCEPT ![n] = top], next)
      BY <2>3, <2>5
    <3> HIDE DEF top, next, sub
    <3> QED
      BY <2>1, <2>8, <3>1, LastReplacedAndAdded
  <2> HIDE DEF top, next, sub
  <2>10. CallsKept
    <3> SUFFICES ASSUME NEW k \in 1..n
                 PROVE  /\ calls'[k].node = calls[k].node /\ calls'[k].id = calls[k].id
                        /\ Values(calls'[k].subs) \subseteq Values(calls[k].subs)
      BY <2>1 DEF CallsKept
    <3>1. k = n \/ k \in 1..(n - 1)
      BY <2>1
    <3> QED
      BY <2>2, <2>6, <2>7, <2>9, <3>1
  <2>11. Called
    BY <2>0, <2>1, <2>4, <2>7, <2>9 DEF Called, next
  <2> QED
    BY <2>0, <2>10, <2>11
<1>5. CASE Return
  <2>1. calls # <<>> /\ UNCHANGED Script
    BY <1>5 DEF Return, At
  <2>2. Len(calls') = Len(calls) - 1 /\ \A i \in 1..(Len(calls) - 1) : calls'[i] = calls[i]
    BY <1>1, <1>5, <2>1, LastDropped DEF Return
  <2>3. CallsKept
    BY <1>1, <2>2 DEF CallsKept
  <2> QED
    BY <1>1, <2>1, <2>2, <2>3
<1>6. CASE UNCHANGED vars
  <2>1. calls' = calls /\ UNCHANGED Script
    BY <1>6 DEF vars, Script, options, tree
  <2> QED
    BY <1>1, <2>1 DEF CallsKept
<1>7. ~(Parse \/ DeleteCtxs \/ DeleteConfs \/ DeleteMaps \/ InsertRoot \/ SelectRoot \/ Exit \/ Die
        \/ Rerun)
  BY DEF Parse, OpenLine, CloseLine, BadClose, DirLine, EndOfFile, DeleteCtxs, DeleteConfs,
         DeleteMaps, InsertRoot, SelectRoot, Exit, Die, Rerun, Over
<1> QED
  BY <1>3, <1>4, <1>5, <1>6, <1>7 DEF Next, Step, Statement

(* A call that was there keeps to the depth of its context; a new one is one *)
(* deeper.                                                                   *)
LEMMA CallHeightsStep ==
  ASSUME Typed, Typed', NEW h, Heights(h), CallHeights(h), pc = "process", pc' = "process",
         [Next]_vars
  PROVE  CallHeights(h)'
<1>1. /\ UNCHANGED Script /\ CallsKept
      /\ Len(calls') <= Len(calls) \/ Called
  BY CallsStep
<1>2. nodes' = nodes /\ \A p : Subs(p)' = Subs(p)
  BY <1>1 DEF Script, tree, Subs
<1>3. PICK n \in Nat, m \in Nat : n = Len(calls) /\ m = Len(calls')
  BY DEF Typed
<1>4. calls \in Seq(CallIn(Len(nodes))) /\ Len(nodes) \in Nat /\ DOMAIN nodes = 1..Len(nodes)
  BY DEF Typed, TypeOK
<1>5. h \in [DOMAIN nodes -> 1..MaxDepth]
  BY DEF Heights
<1>6. \A k \in 1..n : /\ h[calls[k].node] >= k
                      /\ Values(calls[k].subs) \subseteq Values(Subs(calls[k].node))
  BY <1>3 DEF CallHeights
<1>7. \A k \in 1..m : k \in 1..n =>
        /\ h[calls'[k].node] >= k
        /\ Values(calls'[k].subs) \subseteq Values(Subs(calls'[k].node))
  BY <1>1, <1>3, <1>6 DEF CallsKept
<1>8. CASE Len(calls') <= Len(calls)
  <2>1. \A k \in 1..m : k \in 1..n
    BY <1>3, <1>8
  <2> QED
    BY <1>2, <1>3, <1>7, <2>1 DEF CallHeights
<1>9. CASE Called
  <2>1. PICK s \in Values(Top.subs), r \in ctxTab : calls'[m] = NewCall(s, r.id)
    BY <1>3, <1>9 DEF Called
  <2>2. m = n + 1 /\ n # 0 /\ Top = calls[n] /\ \A k \in 1..m : k \in 1..n \/ k = m
    BY <1>3, <1>4, <1>9 DEF Called, Top
  <2>3. n \in 1..n /\ Top \in CallIn(Len(nodes))
    BY <1>3, <1>4, <2>2
  <2>4. Top.node \in DOMAIN nodes
    BY <1>4, <2>3 DEF CallIn
  <2>5. s \in Values(Subs(Top.node)) /\ h[Top.node] >= n
    BY <1>6, <2>2, <2>3
  <2>6. PICK i \in 1..Len(Subs(Top.node)) : s = Subs(Top.node)[i]
    BY <2>4, <2>5, NodeLists DEF Values
  <2>7. s \in DOMAIN nodes
    BY <1>4, <2>4, <2>6, NodeLists
  <2>8. h[s] > h[Top.node]
    BY <2>4, <2>6 DEF Heights
  <2>9. h[s] \in Nat /\ h[Top.node] \in Nat
    BY <1>5, <2>4, <2>7, RoundTripAssumption
  <2>10. h[s] >= m
    BY <2>2, <2>5, <2>8, <2>9
  <2>11. calls'[m].node = s /\ calls'[m].subs = Subs(s)
    BY <2>1 DEF NewCall, Subs
  <2> QED
    BY <1>2, <1>3, <1>7, <2>2, <2>10, <2>11 DEF CallHeights
<1> QED
  BY <1>1, <1>8, <1>9

LEMMA LevelsNext ==
  Typed /\ Typed' /\ Depth' /\ Leveled /\ Named /\ [Next]_vars => Leveled' /\ Named'
<1> SUFFICES ASSUME Typed, Typed', Depth', Leveled, Named, [Next]_vars PROVE Leveled' /\ Named'
  OBVIOUS
<1>1. CASE OpenLine
  BY <1>1, LevelsOpen
<1>2. PICK h : Heights(h) /\ CallHeights(h)
  BY DEF Leveled
<1>3. CASE CloseLine
  <2>1. nodes' = nodes /\ pc' = "parse" /\ ctxs' = Closed
    BY <1>3 DEF CloseLine
  <2>2. \A p : Subs(p)' = Subs(p)
    BY <2>1 DEF Subs
  <2>3. PICK n \in Nat \ {0} : n = Len(ctxs) /\ ctxs \in Seq(1..Len(nodes))
    BY DEF Typed, TypeOK
  <2>4. \A i \in 1..Len(ctxs') : h[ctxs'[i]] = Len(ctxs') + 1 - i
    <3>1. \A i \in 1..n : h[ctxs[i]] = n + 1 - i
      BY <1>2, <2>3 DEF Heights
    <3>2. CASE ctxs' = ctxs
      BY <2>3, <3>1, <3>2
    <3>3. CASE n > 1 /\ ctxs' = Tail(ctxs)
      <4>1. Len(ctxs') = n - 1 /\ \A i \in 1..(n - 1) : i + 1 \in 1..n /\ ctxs'[i] = ctxs[i + 1]
        BY <2>3, <3>3
      <4>2. \A i \in 1..(n - 1) : h[ctxs'[i]] = n + 1 - (i + 1)
        BY <3>1, <4>1
      <4>3. \A i \in 1..(n - 1) : n + 1 - (i + 1) = (n - 1) + 1 - i
        BY <2>3
      <4> QED
        BY <4>1, <4>2, <4>3
    <3> QED
      BY <2>1, <2>3, <3>2, <3>3 DEF Closed
  <2>5. Heights(h)'
    BY <1>2, <2>1, <2>2, <2>4 DEF Heights
  <2> QED
    BY <2>1, <2>5 DEF Leveled, CallHeights, Named
<1>4. CASE DirLine
  <2>1. PICK cur \in DOMAIN nodes : cur = Current /\ nodes[cur] \in NodeIn(Len(nodes))
    BY CurrentIsNode
  <2> DEFINE full == [nodes[cur] EXCEPT !.dirs = Append(@, Line.what)]
  <2>2. nodes' = [nodes EXCEPT ![cur] = full] /\ ctxs' = ctxs /\ pc' = "parse"
    BY <1>4, <2>1 DEF DirLine
  <2>3. full.subs = nodes[cur].subs /\ full.label = nodes[cur].label
    BY <2>1 DEF NodeIn
  <2> HIDE DEF full
  <2>4. DOMAIN nodes' = DOMAIN nodes /\ \A p \in DOMAIN nodes : Subs(p)' = Subs(p)
    BY <2>1, <2>2, <2>3 DEF Subs
  <2>5. \A p \in DOMAIN nodes : nodes'[p].label = nodes[p].label
    BY <2>1, <2>2, <2>3
  <2>6. Heights(h)'
    BY <1>2, <2>2, <2>4 DEF Heights
  <2> QED
    BY <2>2, <2>4, <2>5, <2>6 DEF Leveled, CallHeights, Named
<1>5. CASE Rerun
  <2>1. nodes' = <<NewNode(Default)>> /\ ctxs' = << 1 >> /\ pc' = "parse"
    BY <1>5 DEF Rerun, Started
  <2>2. (nodes = <<NewNode(Default)>> /\ ctxs = << 1 >> /\ pc # "process" => Leveled /\ Named)'
    BY LevelsOfOne, PTL
  <2> QED
    BY <2>1, <2>2
(* The file is read: only the calls move.                                    *)
<1>6. ASSUME UNCHANGED <<nodes, ctxs>>, CallHeights(h)' PROVE Leveled' /\ Named'
  <2>1. \A p : Subs(p)' = Subs(p)
    BY <1>6 DEF Subs
  <2>2. Heights(h)' /\ Named'
    BY <1>2, <1>6, <2>1 DEF Heights, Named
  <2> QED
    BY <1>6, <2>2 DEF Leveled
<1>7. CASE SelectRoot
  <2>1. PICK r \in ctxTab : calls' = <<NewCall(Current, r.id)>>
    BY <1>7 DEF SelectRoot
  <2>2. UNCHANGED <<nodes, ctxs>> /\ \A p : Subs(p)' = Subs(p)
    BY <1>7 DEF SelectRoot, Script, tree, Subs
  <2>3. Current \in DOMAIN nodes
    BY CurrentIsNode
  <2>4. h[Current] >= 1
    BY <1>2, <2>3, RoundTripAssumption DEF Heights
  <2>5. Len(calls') = 1 /\ calls'[1].node = Current /\ calls'[1].subs = Subs(Current)
    BY <2>1 DEF NewCall, Subs
  <2>6. CallHeights(h)'
    BY <2>2, <2>4, <2>5 DEF CallHeights
  <2> QED
    BY <1>6, <2>2, <2>6
<1>8. CASE pc = "process" /\ pc' = "process"
  <2>1. UNCHANGED <<nodes, ctxs>>
    BY <1>8, CallsStep DEF Script, tree
  <2>2. CallHeights(h)'
    BY <1>2, <1>8, CallHeightsStep
  <2> QED
    BY <1>6, <2>1, <2>2
<1>9. CASE BadClose \/ EndOfFile \/ DeleteCtxs \/ DeleteConfs \/ DeleteMaps \/ InsertRoot \/ Exit
           \/ Die
  <2>1. UNCHANGED <<nodes, ctxs>> /\ pc' # "process"
    BY <1>9 DEF BadClose, EndOfFile, DeleteCtxs, DeleteConfs, DeleteMaps, InsertRoot, Exit, Die,
                Script, tree
  <2> QED
    BY <1>6, <2>1 DEF CallHeights
<1>10. CASE InsertConf \/ SelectConf \/ InsertMap \/ InsertCtx \/ SelectCtx \/ Return
  <2>1. pc = "process" /\ pc' = "process"
    BY <1>10 DEF InsertConf, SelectConf, InsertMap, InsertCtx, SelectCtx, Return, At
  <2> QED
    BY <1>8, <2>1
<1>11. CASE UNCHANGED vars
  <2>1. UNCHANGED <<nodes, ctxs>> /\ CallHeights(h)'
    BY <1>2, <1>11 DEF vars, CallHeights, Subs
  <2> QED
    BY <1>6, <2>1
<1> QED
  BY <1>1, <1>3, <1>4, <1>5, <1>7, <1>9, <1>10, <1>11 DEF Next, Step, Parse, Statement

-----------------------------------------------------------------------------
(* The stacks of the two readers.                                            *)

Labels == Label \union {Default}

(* A call of get_ctx. *)
ExportCall == [id : Nat, at : {"row", "dirs", "ctxs", "loop"},
               label : {Shown[l] : l \in Labels} \union {Blank}, subs : SUBSET Nat]

(* A row, and an activation of sqlconf_read_ctx. *)
TableRow == [id : Nat, parent : Nat, key : {"named"}, val : {"null", "text"}]

ServerFrame == [ctx : Nat, at : {"row", "conf", "push", "ctxs", "loop"},
                tagged : BOOLEAN, dirs : SUBSET Nat, kids : SUBSET TableRow]

Reads ==
  /\ walk \in Seq(ExportCall)
  /\ stack \in Seq(ServerFrame)

(* What the queries of the server see. *)
LEMMA ServerSees ==
  ASSUME Typed
  PROVE  /\ Server!Now = AsTable
         /\ AsTable.ctxs \subseteq TableRow /\ AsTable.confs \subseteq Nat
         /\ \A x \in AsTable.ctxs : \E r \in ctxTab : r.id = x.id /\ r.parent = x.parent
         /\ \A r \in ctxTab : \E x \in AsTable.ctxs : r.id = x.id /\ r.parent = x.parent
<1>1. Server!Now = AsTable
  BY DEF Server!Now
<1>2. ctxTab \subseteq CtxRow /\ confTab \subseteq ConfRow
  BY DEF Typed, TypeOK
<1> DEFINE seen(r) == [id |-> r.id, parent |-> r.parent, key |-> "named",
                       val |-> IF r.label = Default THEN "null" ELSE "text"]
<1>3. AsTable.ctxs = {seen(r) : r \in ctxTab} /\ AsTable.confs \subseteq DOMAIN mapTab
  BY DEF AsTable
<1>4. \A r \in ctxTab : seen(r) \in TableRow /\ seen(r).id = r.id /\ seen(r).parent = r.parent
  BY <1>2 DEF TableRow, CtxRow
<1>5. DOMAIN mapTab \subseteq Nat
  BY DEF Typed, TypeOK
<1> HIDE DEF seen
<1> QED
  BY <1>1, <1>3, <1>4, <1>5

(* The cardinality that the instance counts with.                            *)
LEMMA SameCount == \A S : Server!Cardinality(S) = Cardinality(S)
  BY DEF Server!Cardinality, Cardinality

(* Without a row that has no parent the server does not begin.               *)
LEMMA ServerStarts ==
  ASSUME Typed, Server!SelectRoot
  PROVE  \/ stack' = stack
         \/ \E r \in ctxTab : r.parent = Null /\ stack' = <<Server!NewFrame(r.id)>>
<1>1. PICK seen \in {"intact"}, id \in Server!RootIds \union {ZeroId} :
        /\ id = ZeroId <=> Server!RootRows = {}
        /\ \/ /\ seen = "intact" => Server!Cardinality(Server!RootRows) = 1
              /\ stack' = <<Server!NewFrame(id)>>
           \/ /\ seen = "intact" => Server!Cardinality(Server!RootRows) # 1
              /\ stack' = stack
  BY DEF Server!SelectRoot
<1>2. CASE stack' # stack
  <2>1. stack' = <<Server!NewFrame(id)>> /\ Server!Cardinality(Server!RootRows) = 1
    BY <1>1, <1>2
  <2>2. Server!RootRows # {}
    BY <2>1, SameCount, FS_EmptySet
  <2>3. id \in Server!RootIds
    BY <1>1, <2>2
  <2>4. PICK x \in AsTable.ctxs : x.parent = Null /\ x.id = id
    BY <2>3, ServerSees DEF Server!RootIds, Server!RootRows, Null
  <2>5. PICK r \in ctxTab : r.id = x.id /\ r.parent = x.parent
    BY ServerSees
  <2> QED
    BY <2>1, <2>4, <2>5
<1> QED
  BY <1>2

(* What a step of the server's walk does to its stack.                       *)
FramesKept ==
  \A k \in 1..Len(stack') : k \in 1..Len(stack) =>
    /\ stack'[k].ctx = stack[k].ctx
    /\ \A y \in stack'[k].kids :
         y \in stack[k].kids \/ (y \in AsTable.ctxs /\ y.parent = stack[k].ctx)

Entered ==
  /\ stack # <<>> /\ Len(stack') = Len(stack) + 1
  /\ \E y \in stack[Len(stack)].kids : stack'[Len(stack')] = Server!NewFrame(y.id)

LEMMA FrameMoves ==
  ASSUME Reads, stack # <<>>, NEW frame \in ServerFrame, Server!SetTop(frame),
         frame.ctx = Server!Top.ctx,
         \A y \in frame.kids :
           y \in Server!Top.kids \/ (y \in AsTable.ctxs /\ y.parent = Server!Top.ctx)
  PROVE  stack' \in Seq(ServerFrame) /\ Len(stack') = Len(stack) /\ FramesKept
<1>1. PICK n \in Nat : n = Len(stack) /\ n # 0
  BY DEF Reads
<1>2. stack' = [stack EXCEPT ![n] = frame] /\ Server!Top = stack[n]
  BY <1>1 DEF Server!SetTop, Server!WithTop, Server!Top
<1>3. /\ stack' \in Seq(ServerFrame) /\ Len(stack') = n /\ stack'[n] = frame
      /\ \A k \in 1..n : k # n => stack'[k] = stack[k]
  BY <1>1, <1>2 DEF Reads
<1> QED
  BY <1>1, <1>2, <1>3 DEF FramesKept

LEMMA FramesDropped ==
  ASSUME Reads, stack # <<>>, stack' = Server!Pop
  PROVE  stack' \in Seq(ServerFrame) /\ Len(stack') = Len(stack) - 1 /\ FramesKept
<1>1. PICK n \in Nat : n = Len(stack) /\ n # 0 /\ stack \in Seq(ServerFrame)
  BY DEF Reads
<1>2. stack' = SubSeq(stack, 1, Len(stack) - 1)
  BY DEF Server!Pop
<1>3. /\ stack' \in Seq(ServerFrame) /\ Len(stack') = Len(stack) - 1
      /\ \A k \in 1..(Len(stack) - 1) : stack'[k] = stack[k]
  BY <1>1, <1>2, LastDropped
<1> QED
  BY <1>1, <1>3 DEF FramesKept

LEMMA FramesSame ==
  ASSUME Reads, stack' = stack
  PROVE  stack' \in Seq(ServerFrame) /\ Len(stack') = Len(stack) /\ FramesKept
  BY DEF Reads, FramesKept

LEMMA FrameEntered ==
  ASSUME Typed, Reads, Server!EnterCtx
  PROVE  stack' \in Seq(ServerFrame) /\ FramesKept /\ Entered
<1>1. PICK n \in Nat : n = Len(stack) /\ n # 0 /\ stack \in Seq(ServerFrame) /\ stack # <<>>
  BY DEF Reads, Server!EnterCtx, Server!In
<1>2. stack[n] \in ServerFrame /\ Server!Top = stack[n]
  BY <1>1 DEF Server!Top
<1>3. PICK k \in stack[n].kids :
        stack' = Append(Server!WithTop([stack[n] EXCEPT !.kids = @ \ {k}]), Server!NewFrame(k.id))
  BY <1>2 DEF Server!EnterCtx
<1> DEFINE top == [stack[n] EXCEPT !.kids = @ \ {k}]
           new == Server!NewFrame(k.id)
<1>4. top \in ServerFrame /\ top.ctx = stack[n].ctx /\ top.kids \subseteq stack[n].kids
  BY <1>2 DEF ServerFrame
<1>5. new \in ServerFrame
  <2>1. k.id \in Nat
    BY <1>2 DEF ServerFrame, TableRow
  <2> QED
    BY <2>1 DEF ServerFrame, Server!NewFrame
<1>6. stack' = Append([stack EXCEPT ![n] = top], new)
  BY <1>1, <1>3 DEF Server!WithTop
<1> HIDE DEF top, new
<1>7. /\ stack' \in Seq(ServerFrame) /\ Len(stack') = n + 1 /\ stack'[n + 1] = new
      /\ stack'[n] = top
      /\ \A i \in 1..(n - 1) : stack'[i] = stack[i]
  BY <1>1, <1>4, <1>5, <1>6, LastReplacedAndAdded
<1>8. FramesKept
  <2> SUFFICES ASSUME NEW i \in 1..n
               PROVE  stack'[i].ctx = stack[i].ctx /\ stack'[i].kids \subseteq stack[i].kids
    BY <1>1 DEF FramesKept
  <2>1. i = n \/ i \in 1..(n - 1)
    BY <1>1
  <2> QED
    BY <1>4, <1>7, <2>1
<1>9. Entered
  BY <1>1, <1>7 DEF Entered, new
<1> QED
  BY <1>7, <1>8, <1>9

(* The step of the walk that changes the innermost frame only.               *)
LEMMA FrameChanges ==
  ASSUME Typed, Reads,
         \/ Server!ReadRow \/ (Server!RowVanished /\ pcS' # "crashed")
         \/ Server!SelectConf \/ Server!PushDirective \/ Server!DirectivesDone
         \/ Server!SelectCtxs
  PROVE  stack' \in Seq(ServerFrame) /\ Len(stack') = Len(stack) /\ FramesKept
<1>1. stack # <<>> /\ stack \in Seq(ServerFrame)
  BY DEF Reads, Server!ReadRow, Server!RowVanished, Server!SelectConf, Server!PushDirective,
         Server!DirectivesDone, Server!SelectCtxs, Server!In
<1>2. PICK top \in ServerFrame : top = Server!Top
  BY <1>1 DEF Server!Top
<1>3. ASSUME NEW frame \in ServerFrame, Server!SetTop(frame), frame.ctx = top.ctx,
             frame.kids = top.kids
      PROVE  stack' \in Seq(ServerFrame) /\ Len(stack') = Len(stack) /\ FramesKept
  BY <1>1, <1>2, <1>3, FrameMoves
<1>4. CASE Server!ReadRow
  <2>1. PICK r : Server!SetTop([top EXCEPT !.at = "conf", !.tagged = Server!IsTagged(r)])
    BY <1>2, <1>4 DEF Server!ReadRow
  <2>2. Server!IsTagged(r) \in BOOLEAN
    BY DEF Server!IsTagged
  <2> DEFINE frame == [top EXCEPT !.at = "conf", !.tagged = Server!IsTagged(r)]
  <2>3. frame \in ServerFrame /\ frame.ctx = top.ctx /\ frame.kids = top.kids
    BY <2>2 DEF ServerFrame
  <2> QED
    BY <1>3, <2>1, <2>3
<1>5. CASE Server!RowVanished /\ pcS' # "crashed"
  <2> DEFINE frame == [top EXCEPT !.at = "conf"]
  <2>1. Server!SetTop(frame)
    BY <1>2, <1>5 DEF Server!RowVanished, Server!Crash
  <2>2. frame \in ServerFrame /\ frame.ctx = top.ctx /\ frame.kids = top.kids
    BY DEF ServerFrame
  <2> QED
    BY <1>3, <2>1, <2>2
<1>6. CASE Server!SelectConf
  <2> DEFINE frame == [top EXCEPT !.at = "push", !.dirs = Server!DirsOf(Server!Now, top.ctx)]
  <2>1. Server!SetTop(frame)
    BY <1>2, <1>6 DEF Server!SelectConf
  <2>2. Server!DirsOf(Server!Now, top.ctx) \subseteq Nat
    BY ServerSees DEF Server!DirsOf
  <2>3. frame \in ServerFrame /\ frame.ctx = top.ctx /\ frame.kids = top.kids
    BY <2>2 DEF ServerFrame
  <2> QED
    BY <1>3, <2>1, <2>3
<1>7. CASE Server!PushDirective
  <2>1. PICK d : Server!SetTop([top EXCEPT !.dirs = @ \ {d}])
    BY <1>2, <1>7 DEF Server!PushDirective
  <2> DEFINE frame == [top EXCEPT !.dirs = @ \ {d}]
  <2>2. frame \in ServerFrame /\ frame.ctx = top.ctx /\ frame.kids = top.kids
    BY DEF ServerFrame
  <2> QED
    BY <1>3, <2>1, <2>2
<1>8. CASE Server!DirectivesDone
  <2> DEFINE frame == [top EXCEPT !.at = "ctxs"]
  <2>1. Server!SetTop(frame)
    BY <1>2, <1>8 DEF Server!DirectivesDone
  <2>2. frame \in ServerFrame /\ frame.ctx = top.ctx /\ frame.kids = top.kids
    BY DEF ServerFrame
  <2> QED
    BY <1>3, <2>1, <2>2
<1>9. CASE Server!SelectCtxs
  <2> DEFINE kids == Server!KidsOf(Server!Now, top.ctx)
             frame == [top EXCEPT !.at = "loop", !.kids = kids]
  <2>1. Server!SetTop(frame)
    BY <1>2, <1>9 DEF Server!SelectCtxs
  <2>2. kids \subseteq TableRow /\ \A y \in kids : y \in AsTable.ctxs /\ y.parent = top.ctx
    BY ServerSees DEF Server!KidsOf
  <2> HIDE DEF kids
  <2>3. frame \in ServerFrame /\ frame.ctx = top.ctx /\ frame.kids = kids
    BY <2>2 DEF ServerFrame
  <2> HIDE DEF frame
  <2> QED
    BY <1>1, <1>2, <2>1, <2>2, <2>3, FrameMoves
<1> QED
  BY <1>4, <1>5, <1>6, <1>7, <1>8, <1>9

(* A step of the server begins at a row without a parent, goes on, or enters *)
(* a sub-context.                                                            *)
LEMMA ServerMoves ==
  ASSUME Typed, Reads, Server!Step
  PROVE  /\ stack' \in Seq(ServerFrame)
         /\ \/ \E r \in ctxTab : r.parent = Null /\ stack' = <<Server!NewFrame(r.id)>>
            \/ FramesKept /\ (Len(stack') <= Len(stack) \/ Entered)
<1>0. Len(stack) \in Nat
  BY DEF Reads
<1>1. ASSUME UNCHANGED stack
      PROVE  stack' \in Seq(ServerFrame) /\ FramesKept /\ Len(stack') <= Len(stack)
  BY <1>0, <1>1, FramesSame
<1>2. ASSUME stack # <<>>, Server!Abandon
      PROVE  stack' \in Seq(ServerFrame) /\ FramesKept /\ Len(stack') <= Len(stack)
  BY <1>0, <1>2, FramesDropped DEF Server!Abandon
<1>3. CASE Server!CheckModule \/ Server!LoadBackend \/ Server!Prepare \/ Server!DefineConn
           \/ Server!OpenConn \/ Server!RootFailed \/ Server!CloseConn \/ Server!CleanUp
  <2>1. UNCHANGED stack
    BY <1>3 DEF Server!CheckModule, Server!LoadBackend, Server!Prepare, Server!DefineConn,
                Server!OpenConn, Server!Hook, Server!RootFailed, Server!CloseConn,
                Server!CleanUp, Server!Return
  <2> QED
    BY <1>1, <2>1
<1>4. CASE Server!SelectRoot
  <2>1. CASE stack' = stack
    BY <1>1, <2>1
  <2>2. ASSUME NEW r \in ctxTab, r.parent = Null, stack' = <<Server!NewFrame(r.id)>>
        PROVE  stack' \in Seq(ServerFrame)
    <3>1. r.id \in Nat
      BY DEF Typed, TypeOK, CtxRow
    <3>2. Server!NewFrame(r.id) \in ServerFrame
      BY <3>1 DEF ServerFrame, Server!NewFrame
    <3> QED
      BY <2>2, <3>2
  <2> QED
    BY <1>4, <2>1, <2>2, ServerStarts
<1>5. CASE Server!ReadRow \/ Server!SelectConf \/ Server!PushDirective \/ Server!DirectivesDone
           \/ Server!SelectCtxs
  BY <1>0, <1>5, FrameChanges
<1>6. CASE Server!RowVanished
  <2>1. CASE pcS' # "crashed"
    BY <1>0, <1>6, <2>1, FrameChanges
  <2>2. CASE pcS' = "crashed"
    <3>1. pcS = "walk"
      BY <1>6 DEF Server!RowVanished, Server!In
    <3>2. UNCHANGED stack
      BY <1>6, <2>2, <3>1 DEF Server!RowVanished, Server!Crash
    <3> QED
      BY <1>1, <3>2
  <2> QED
    BY <2>1, <2>2
<1>7. CASE Server!ReadRowFailed \/ Server!SelectFailed
  <2>1. Server!Abandon /\ stack # <<>>
    BY <1>7 DEF Server!ReadRowFailed, Server!SelectFailed, Server!In
  <2> QED
    BY <1>2, <2>1
<1>8. CASE Server!EnterCtx
  BY <1>8, FrameEntered
<1>9. CASE Server!LeaveCtx
  <2>1. stack # <<>> /\ stack' = Server!Pop
    BY <1>9 DEF Server!LeaveCtx, Server!In
  <2> QED
    BY <1>0, <2>1, FramesDropped
<1>10. CASE Server!NullValue \/ Server!StackOverflow
  <2>1. UNCHANGED stack
    BY <1>10 DEF Server!NullValue, Server!StackOverflow, Server!Crash
  <2> QED
    BY <1>1, <2>1
<1> QED
  BY <1>3, <1>4, <1>5, <1>6, <1>7, <1>8, <1>9, <1>10 DEF Server!Step, Server!Walk

(* What a step of the exporter does to its calls.                            *)
SubIds(id) == {r.id : r \in {s \in ctxTab : s.parent = id /\ id # Null}}

WalkKept ==
  \A k \in 1..Len(walk') : k \in 1..Len(walk) =>
    /\ walk'[k].id = walk[k].id
    /\ walk'[k].subs \subseteq walk[k].subs \union SubIds(walk[k].id)

WalkEntered ==
  /\ walk # <<>> /\ Len(walk') = Len(walk) + 1
  /\ \E s \in walk[Len(walk)].subs : walk'[Len(walk')] = Export!NewCall(s)

LEMMA WalkMoves ==
  ASSUME Reads, walk # <<>>, NEW call \in ExportCall, Export!SetTop(call),
         call.id = Export!Top.id,
         call.subs \subseteq Export!Top.subs \union SubIds(Export!Top.id)
  PROVE  walk' \in Seq(ExportCall) /\ Len(walk') = Len(walk) /\ WalkKept
<1>1. PICK n \in Nat : n = Len(walk) /\ n # 0
  BY DEF Reads
<1>2. walk' = [walk EXCEPT ![n] = call] /\ Export!Top = walk[n]
  BY <1>1 DEF Export!SetTop, Export!Top
<1>3. /\ walk' \in Seq(ExportCall) /\ Len(walk') = n /\ walk'[n] = call
      /\ \A k \in 1..n : k # n => walk'[k] = walk[k]
  BY <1>1, <1>2 DEF Reads
<1> QED
  BY <1>1, <1>2, <1>3 DEF WalkKept

LEMMA NewCallTyped == \A id \in Nat : Export!NewCall(id) \in ExportCall
  BY DEF ExportCall, Export!NewCall

LEMMA WalkEnters ==
  ASSUME Reads, Export!EnterCtx
  PROVE  walk' \in Seq(ExportCall) /\ WalkKept /\ WalkEntered
<1>1. PICK n \in Nat : n = Len(walk) /\ n # 0 /\ walk \in Seq(ExportCall) /\ walk # <<>>
  BY DEF Reads, Export!EnterCtx, Export!At
<1>2. walk[n] \in ExportCall /\ Export!Top = walk[n]
  BY <1>1 DEF Export!Top
<1>3. PICK s \in walk[n].subs :
        walk' = Append([walk EXCEPT ![n].subs = @ \ {s}], Export!NewCall(s))
  BY <1>1, <1>2 DEF Export!EnterCtx
<1> DEFINE top == [walk[n] EXCEPT !.subs = @ \ {s}]
           new == Export!NewCall(s)
<1>4. top \in ExportCall /\ top.id = walk[n].id /\ top.subs \subseteq walk[n].subs
  BY <1>2 DEF ExportCall
<1>5. new \in ExportCall
  BY <1>2, NewCallTyped DEF ExportCall
<1>6. walk' = Append([walk EXCEPT ![n] = top], new)
  BY <1>1, <1>3
<1> HIDE DEF top, new
<1>7. /\ walk' \in Seq(ExportCall) /\ Len(walk') = n + 1 /\ walk'[n + 1] = new
      /\ walk'[n] = top
      /\ \A i \in 1..(n - 1) : walk'[i] = walk[i]
  BY <1>1, <1>4, <1>5, <1>6, LastReplacedAndAdded
<1>8. WalkKept
  <2> SUFFICES ASSUME NEW i \in 1..n
               PROVE  walk'[i].id = walk[i].id /\ walk'[i].subs \subseteq walk[i].subs
    BY <1>1 DEF WalkKept
  <2>1. i = n \/ i \in 1..(n - 1)
    BY <1>1
  <2> QED
    BY <1>4, <1>7, <2>1
<1>9. WalkEntered
  BY <1>1, <1>7 DEF WalkEntered, new
<1> QED
  BY <1>7, <1>8, <1>9

(* A step of the exporter begins, at a row without a parent or at none, goes *)
(* on, or enters a sub-context.                                              *)
LEMMA ExportMoves ==
  ASSUME Typed, Reads, Export!Next
  PROVE  /\ walk' \in Seq(ExportCall)
         /\ \/ walk' = <<Export!NewCall(Null)>>
            \/ \E r \in ctxTab : r.parent = Null /\ walk' = <<Export!NewCall(r.id)>>
            \/ WalkKept /\ (Len(walk') <= Len(walk) \/ WalkEntered)
<1>0. Len(walk) \in Nat /\ walk \in Seq(ExportCall)
  BY DEF Reads
<1>1. ctxTab \subseteq CtxRow
  BY DEF Typed, TypeOK
<1>2. CASE Export!SelectRoot
  <2>1. PICK id \in IF Export!Parentless = {} THEN {Null} ELSE Export!Parentless :
          walk' = <<Export!NewCall(id)>>
    BY <1>2 DEF Export!SelectRoot
  <2>2. id = Null \/ \E r \in ctxTab : r.parent = Null /\ r.id = id
    BY <2>1 DEF Export!Parentless
  <2>3. id \in Nat
    BY <1>1, <2>2 DEF Null, CtxRow
  <2>4. Export!NewCall(id) \in ExportCall
    BY <2>3, NewCallTyped
  <2>5. walk' \in Seq(ExportCall)
    BY <2>1, <2>4
  <2> QED
    BY <2>1, <2>2, <2>5
<1>3. CASE Export!SelectRow \/ Export!SelectDirs \/ Export!SelectCtxs
  <2>1. walk # <<>>
    BY <1>3 DEF Export!SelectRow, Export!SelectDirs, Export!SelectCtxs, Export!At
  <2>2. PICK top \in ExportCall : top = Export!Top
    BY <1>0, <2>1 DEF Export!Top
  <2>3. \E call \in ExportCall :
          /\ Export!SetTop(call) /\ call.id = top.id
          /\ call.subs \subseteq top.subs \union SubIds(top.id)
    <3>1. CASE Export!SelectRow
      <4> DEFINE call == [top EXCEPT !.at = "dirs", !.label = Export!LabelOf(top.id)]
      <4>1. Export!SetTop(call)
        BY <2>2, <3>1 DEF Export!SelectRow
      <4>2. Export!LabelOf(top.id) \in {Shown[l] : l \in Labels} \union {Blank}
        <5>1. CASE \E r \in ctxTab : r.id = top.id
          <6>1. (CHOOSE r \in ctxTab : r.id = top.id) \in ctxTab
            BY <5>1
          <6>2. (CHOOSE r \in ctxTab : r.id = top.id).label \in Labels
            BY <1>1, <6>1 DEF CtxRow, Labels
          <6> QED
            BY <5>1, <6>2 DEF Export!LabelOf
        <5>2. CASE ~ \E r \in ctxTab : r.id = top.id
          BY <5>2 DEF Export!LabelOf
        <5> QED
          BY <5>1, <5>2
      <4>3. call \in ExportCall /\ call.id = top.id /\ call.subs = top.subs
        BY <4>2 DEF ExportCall
      <4> HIDE DEF call
      <4> QED
        BY <4>1, <4>3
    <3>2. CASE Export!SelectDirs
      <4> DEFINE call == [top EXCEPT !.at = "ctxs"]
      <4>1. Export!SetTop(call)
        BY <2>2, <3>2 DEF Export!SelectDirs
      <4>2. call \in ExportCall /\ call.id = top.id /\ call.subs = top.subs
        BY DEF ExportCall
      <4> HIDE DEF call
      <4> QED
        BY <4>1, <4>2
    <3>3. CASE Export!SelectCtxs
      <4> DEFINE call == [top EXCEPT !.at = "loop", !.subs = Export!Children(top.id)]
      <4>1. Export!SetTop(call)
        BY <2>2, <3>3 DEF Export!SelectCtxs
      <4>2. Export!Children(top.id) = SubIds(top.id) /\ SubIds(top.id) \subseteq Nat
        BY <1>1 DEF Export!Children, SubIds, CtxRow
      <4>3. call \in ExportCall /\ call.id = top.id /\ call.subs = SubIds(top.id)
        BY <4>2 DEF ExportCall
      <4> HIDE DEF call
      <4> QED
        BY <4>1, <4>3
    <3> QED
      BY <1>3, <3>1, <3>2, <3>3
  <2>4. walk' \in Seq(ExportCall) /\ Len(walk') = Len(walk) /\ WalkKept
    BY <2>1, <2>2, <2>3, WalkMoves
  <2> QED
    BY <1>0, <2>4
<1>4. CASE Export!EnterCtx
  BY <1>4, WalkEnters
<1>5. CASE Export!LeaveCtx
  <2>1. /\ walk' \in Seq(ExportCall) /\ Len(walk') = Len(walk) - 1
        /\ \A k \in 1..(Len(walk) - 1) : walk'[k] = walk[k]
    BY <1>0, <1>5, LastDropped DEF Export!LeaveCtx, Export!At
  <2> QED
    BY <1>0, <2>1 DEF WalkKept
<1>6. CASE Export!Show \/ Export!Die
  <2>1. walk' = walk
    BY <1>6 DEF Export!Show, Export!Die
  <2> QED
    BY <1>0, <2>1 DEF WalkKept
<1> QED
  BY <1>2, <1>3, <1>4, <1>5, <1>6 DEF Export!Next

-----------------------------------------------------------------------------
(* How deep each context row is.  An id is given once, so that what a reader *)
(* remembers of a row stays true of it when the row is gone.                 *)

RowDepths(d) ==
  /\ d \in [1..lastCtx -> 1..MaxDepth]
  /\ \A r \in ctxTab :
       /\ r.id \in 1..lastCtx
       /\ r.label = Default => r.parent = Null
       /\ \/ r.parent = Null /\ d[r.id] = 1
          \/ r.parent \in 1..lastCtx /\ d[r.id] = d[r.parent] + 1

(* The importer, the exporter and the server are as deep in their recursion  *)
(* as the rows they work on, and what they will enter is one deeper.         *)
CallDepths(d) ==
  pc = "process" =>
    \A k \in 1..Len(calls) : calls[k].id \in 1..lastCtx /\ d[calls[k].id] = k

WalkDepths(d) ==
  \A k \in 1..Len(walk) :
    /\ \/ walk[k].id \in 1..lastCtx /\ d[walk[k].id] = k
       \/ walk[k].id = Null /\ k = 1
    /\ \A s \in walk[k].subs : s \in 1..lastCtx /\ d[s] = k + 1

FrameDepths(d) ==
  \A k \in 1..Len(stack) :
    /\ stack[k].ctx \in 1..lastCtx /\ d[stack[k].ctx] = k
    /\ \A y \in stack[k].kids : y.id \in 1..lastCtx /\ d[y.id] = k + 1

Deep == \E d : RowDepths(d) /\ CallDepths(d) /\ WalkDepths(d) /\ FrameDepths(d)

(* e gives the ids that d gives a depth the same one. *)
Extends(d, e) == 1..lastCtx \subseteq 1..lastCtx' /\ \A i \in 1..lastCtx : e[i] = d[i]

LEMMA RowInserted ==
  ASSUME Typed, NEW d, RowDepths(d), NEW parent, NEW label, InsertCtxRow(parent, label),
         label = Default => parent = Null, NEW n \in 1..MaxDepth,
         (parent = Null /\ n = 1) \/ (parent \in 1..lastCtx /\ n = d[parent] + 1)
  PROVE  \E e : RowDepths(e)' /\ Extends(d, e)
<1>1. PICK last \in Nat : last = lastCtx
  BY DEF Typed, TypeOK
<1>2. lastCtx' = last + 1
  BY <1>1 DEF InsertCtxRow
<1>3. 1..(last + 1) = (1..last) \union {last + 1} /\ last + 1 \notin 1..last
  BY <1>1
<1> DEFINE e == [i \in 1..(last + 1) |-> IF i = last + 1 THEN n ELSE d[i]]
<1>4. d \in [1..last -> 1..MaxDepth]
  BY <1>1 DEF RowDepths
<1>5. e \in [1..(last + 1) -> 1..MaxDepth] /\ e[last + 1] = n /\ \A i \in 1..last : e[i] = d[i]
  BY <1>3, <1>4
<1> HIDE DEF e
<1>6. Extends(d, e)
  BY <1>1, <1>2, <1>3, <1>5 DEF Extends
<1>7. ASSUME NEW r \in ctxTab'
      PROVE  /\ r.id \in 1..lastCtx'
             /\ r.label = Default => r.parent = Null
             /\ \/ r.parent = Null /\ e[r.id] = 1
                \/ r.parent \in 1..lastCtx' /\ e[r.id] = e[r.parent] + 1
  <2>1. CASE r \in ctxTab
    <3>1. /\ r.id \in 1..last
          /\ r.label = Default => r.parent = Null
          /\ \/ r.parent = Null /\ d[r.id] = 1
             \/ r.parent \in 1..last /\ d[r.id] = d[r.parent] + 1
      BY <1>1, <2>1 DEF RowDepths
    <3> QED
      BY <1>2, <1>3, <1>5, <3>1
  <2>2. CASE r = [id |-> last + 1, parent |-> parent, label |-> label]
    <3>1. r.id = last + 1 /\ r.parent = parent /\ r.label = label
      BY <2>2
    <3>2. CASE parent = Null /\ n = 1
      BY <1>2, <1>3, <1>5, <3>1, <3>2
    <3>3. CASE parent \in 1..last /\ n = d[parent] + 1
      <4>1. e[parent] = d[parent] /\ parent \in 1..lastCtx' /\ last + 1 \in 1..lastCtx'
        BY <1>2, <1>3, <1>5, <3>3
      <4> QED
        BY <1>5, <3>1, <3>3, <4>1
    <3> QED
      BY <1>1, <3>2, <3>3
  <2> QED
    BY <1>1, <2>1, <2>2 DEF InsertCtxRow
<1> QED
  BY <1>2, <1>5, <1>6, <1>7 DEF RowDepths

LEMMA RowsStay ==
  ASSUME NEW d, RowDepths(d), ctxTab' \subseteq ctxTab, lastCtx' = lastCtx
  PROVE  RowDepths(d)' /\ Extends(d, d)
  BY DEF RowDepths, Extends

(* The calls, when the rows have their depths. *)
LEMMA CallDepthsStep ==
  ASSUME Typed, Typed', pc = "process", pc' = "process", [Next]_vars,
         NEW d, RowDepths(d), CallDepths(d), NEW e, Extends(d, e)
  PROVE  CallDepths(e)'
<1>1. CallsKept /\ (Len(calls') <= Len(calls) \/ Called)
  BY CallsStep
<1>2. PICK n \in Nat, m \in Nat : n = Len(calls) /\ m = Len(calls')
  BY DEF Typed
<1>3. \A k \in 1..n : calls[k].id \in 1..lastCtx /\ d[calls[k].id] = k
  BY <1>2 DEF CallDepths
<1>4. \A k \in 1..m : k \in 1..n => calls'[k].id \in 1..lastCtx' /\ e[calls'[k].id] = k
  <2> SUFFICES ASSUME NEW k \in 1..m, k \in 1..n
               PROVE  calls'[k].id \in 1..lastCtx' /\ e[calls'[k].id] = k
    OBVIOUS
  <2>1. calls'[k].id = calls[k].id
    BY <1>1, <1>2 DEF CallsKept
  <2> QED
    BY <1>3, <2>1 DEF Extends
<1>5. CASE Len(calls') <= Len(calls)
  <2>1. \A k \in 1..m : k \in 1..n
    BY <1>2, <1>5
  <2> QED
    BY <1>2, <1>4, <2>1 DEF CallDepths
<1>6. CASE Called
  <2>1. PICK s \in Values(Top.subs), r \in ctxTab :
          r.parent = Top.id /\ calls'[m] = NewCall(s, r.id)
    BY <1>2, <1>6 DEF Called
  <2>2. m = n + 1 /\ n # 0 /\ Top = calls[n] /\ \A k \in 1..m : k \in 1..n \/ k = m
    BY <1>2, <1>6 DEF Called, Top, Typed
  <2>3. Top.id \in 1..lastCtx /\ d[Top.id] = n
    BY <1>3, <2>2
  <2>4. Top.id # Null
    <3>1. lastCtx \in Nat
      BY DEF Typed, TypeOK
    <3> QED
      BY <2>3, <3>1 DEF Null
  <2>5. r.id \in 1..lastCtx /\ d[r.id] = d[Top.id] + 1
    BY <2>1, <2>4 DEF RowDepths
  <2>6. r.id \in 1..lastCtx' /\ e[r.id] = m
    BY <2>2, <2>3, <2>5 DEF Extends
  <2>7. calls'[m].id = r.id
    BY <2>1 DEF NewCall
  <2> QED
    BY <1>2, <1>4, <2>2, <2>6, <2>7 DEF CallDepths
<1> QED
  BY <1>1, <1>5, <1>6

(* A step of the importer: an insertion finds room, as the calls are no      *)
(* deeper than the contexts of the file.                                     *)
LEMMA DepthsKept ==
  ASSUME Typed, Typed', Tree, Leveled, Named, [Next]_vars, NEW d, RowDepths(d), CallDepths(d)
  PROVE  \E e : RowDepths(e)' /\ CallDepths(e)' /\ Extends(d, e)
<1>1. ASSUME RowDepths(d)', Extends(d, d), pc' # "process"
      PROVE  \E e : RowDepths(e)' /\ CallDepths(e)' /\ Extends(d, e)
  BY <1>1 DEF CallDepths
<1>2. ASSUME NEW e, RowDepths(e)', Extends(d, e), pc = "process", pc' = "process"
      PROVE  \E f : RowDepths(f)' /\ CallDepths(f)' /\ Extends(d, f)
  BY <1>2, CallDepthsStep
<1>3. CASE OpenLine \/ CloseLine \/ BadClose \/ DirLine \/ EndOfFile \/ DeleteCtxs \/ DeleteConfs
           \/ DeleteMaps \/ Exit \/ Die \/ Rerun
  <2>1. ctxTab' \subseteq ctxTab /\ lastCtx' = lastCtx
    BY <1>3 DEF OpenLine, CloseLine, BadClose, DirLine, EndOfFile, DeleteCtxs, DeleteConfs,
                DeleteMaps, Exit, Die, Rerun, tables
  <2>2. pc' # "process"
    BY <1>3 DEF OpenLine, CloseLine, BadClose, DirLine, EndOfFile, DeleteCtxs, DeleteConfs,
                DeleteMaps, Exit, Die, Rerun, Started
  <2> QED
    BY <1>1, <2>1, <2>2, RowsStay
<1>4. CASE InsertRoot
  <2>1. InsertCtxRow(Null, Default) /\ pc = "root" /\ pc' = "findroot"
    BY <1>4 DEF InsertRoot
  <2>2. 1 \in 1..MaxDepth
    BY RoundTripAssumption
  <2>3. \E e : RowDepths(e)' /\ Extends(d, e)
    BY <2>1, <2>2, RowInserted
  <2> QED
    BY <2>1, <2>3 DEF CallDepths
<1>5. CASE SelectRoot
  <2>1. PICK r \in ctxTab : r.label = Default /\ calls' = <<NewCall(Current, r.id)>>
    BY <1>5 DEF SelectRoot
  <2>2. ctxTab' = ctxTab /\ lastCtx' = lastCtx
    BY <1>5 DEF SelectRoot, tables
  <2>3. RowDepths(d)' /\ Extends(d, d)
    BY <2>2, RowsStay
  <2>4. r.parent = Null /\ r.id \in 1..lastCtx /\ lastCtx \in Nat
    BY <2>1 DEF RowDepths, Typed, TypeOK
  <2>5. d[r.id] = 1
    BY <2>4 DEF RowDepths, Null
  <2>6. Len(calls') = 1 /\ calls'[1].id = r.id
    BY <2>1 DEF NewCall
  <2>7. CallDepths(d)'
    BY <2>2, <2>4, <2>5, <2>6 DEF CallDepths
  <2> QED
    BY <2>3, <2>7
<1>6. CASE InsertConf \/ SelectConf \/ InsertMap \/ SelectCtx \/ Return \/ UNCHANGED vars
  <2>1. ctxTab' \subseteq ctxTab /\ lastCtx' = lastCtx
    BY <1>6 DEF InsertConf, SelectConf, InsertMap, SelectCtx, Return, tables, vars
  <2>2. RowDepths(d)' /\ Extends(d, d)
    BY <2>1, RowsStay
  <2>3. pc' = pc /\ (pc # "process" => UNCHANGED vars)
    BY <1>6 DEF InsertConf, SelectConf, InsertMap, SelectCtx, Return, vars, At
  <2> QED
    BY <1>1, <1>2, <2>2, <2>3
<1>7. CASE InsertCtx
  <2>1. /\ calls # <<>> /\ Top.subs # <<>> /\ pc = "process" /\ pc' = "process"
        /\ InsertCtxRow(Top.id, nodes[Head(Top.subs)].label)
    BY <1>7 DEF InsertCtx, At
  <2>2. calls \in Seq(CallIn(Len(nodes))) /\ DOMAIN nodes = 1..Len(nodes) /\ Len(nodes) \in Nat
    BY DEF Typed, TypeOK
  <2>3. PICK n \in Nat : n = Len(calls) /\ n # 0 /\ n \in 1..n
    BY <2>1, <2>2
  <2>4. Top = calls[n] /\ Top \in CallIn(Len(nodes))
    BY <2>2, <2>3 DEF Top
  <2>5. PICK node \in DOMAIN nodes, sub \in Values(Top.subs) :
          node = Top.node /\ sub = Head(Top.subs)
    <3>1. Top.node \in DOMAIN nodes /\ Top.subs \in Seq(1..Len(nodes))
      BY <2>2, <2>4 DEF CallIn
    <3>2. Head(Top.subs) = Top.subs[1] /\ 1 \in DOMAIN Top.subs
      BY <2>1, <3>1
    <3> QED
      BY <3>1, <3>2 DEF Values
  <2>6. PICK h : Heights(h) /\ CallHeights(h)
    BY DEF Leveled
  <2>7. h[node] >= n /\ sub \in Values(Subs(node))
    BY <2>1, <2>3, <2>4, <2>5, <2>6 DEF CallHeights
  <2>8. PICK i \in 1..Len(Subs(node)) : sub = Subs(node)[i]
    <3>1. node \in DOMAIN nodes /\ sub \in Values(Subs(node))
      BY <2>5, <2>7
    <3>2. Subs(node) \in Seq(1..Len(nodes))
      BY <3>1, NodeLists
    <3> QED
      BY <3>1, <3>2 DEF Values
  <2>9. sub \in DOMAIN nodes /\ sub > node
    <3>1. node \in DOMAIN nodes
      BY <2>5
    <3>2. Subs(node)[i] \in DOMAIN nodes /\ Subs(node)[i] > node
      BY <3>1, NodeLists DEF Tree, Listed
    <3> QED
      BY <2>8, <3>2
  <2>10. h[sub] > h[node] /\ h[sub] \in 1..MaxDepth /\ h[node] \in 1..MaxDepth
    BY <2>5, <2>6, <2>8, <2>9 DEF Heights
  <2>11. n + 1 \in 1..MaxDepth
    BY <2>3, <2>7, <2>10, RoundTripAssumption
  <2>12. Top.id \in 1..lastCtx /\ d[Top.id] = n
    BY <2>1, <2>3, <2>4 DEF CallDepths
  <2>13. nodes[sub].label # Default
    <3>1. sub # 1
      BY <2>2, <2>9
    <3> QED
      BY <2>9, <3>1, Conf2SqlAssumption DEF Named
  <2>14. InsertCtxRow(Top.id, nodes[sub].label)
    BY <2>1, <2>5
  <2>15. \E e : RowDepths(e)' /\ Extends(d, e)
    BY <2>11, <2>12, <2>13, <2>14, RowInserted
  <2> QED
    BY <1>2, <2>1, <2>15
<1>8. CASE Over /\ UNCHANGED vars
  BY <1>6, <1>8
<1> QED
  BY <1>3, <1>4, <1>5, <1>6, <1>7, <1>8 DEF Next, Step, Parse, Statement

(* While the importer moves, a reader stands where it stood. *)
LEMMA ReaderDepthsKept ==
  ASSUME NEW d, NEW e, Extends(d, e), WalkDepths(d), FrameDepths(d), UNCHANGED <<walk, stack>>
  PROVE  WalkDepths(e)' /\ FrameDepths(e)'
  BY DEF Extends, WalkDepths, FrameDepths

(* A step of the exporter. *)
LEMMA WalkDepthsStep ==
  ASSUME Typed, Reads, NEW d, RowDepths(d), WalkDepths(d), Export!Next, UNCHANGED vars
  PROVE  WalkDepths(d)'
<1>1. lastCtx' = lastCtx /\ lastCtx \in Nat
  BY DEF vars, Typed, TypeOK
<1>2. CASE walk' = <<Export!NewCall(Null)>>
  <2>1. Len(walk') = 1 /\ walk'[1].id = Null /\ walk'[1].subs = {}
    BY <1>2 DEF Export!NewCall
  <2> QED
    BY <2>1 DEF WalkDepths
<1>3. ASSUME NEW r \in ctxTab, r.parent = Null, walk' = <<Export!NewCall(r.id)>>
      PROVE  WalkDepths(d)'
  <2>1. Len(walk') = 1 /\ walk'[1].id = r.id /\ walk'[1].subs = {}
    BY <1>3 DEF Export!NewCall
  <2>2. r.id \in 1..lastCtx /\ d[r.id] = 1
    BY <1>1, <1>3 DEF RowDepths, Null
  <2> QED
    BY <1>1, <2>1, <2>2 DEF WalkDepths
<1>4. ASSUME WalkKept, Len(walk') <= Len(walk) \/ WalkEntered
      PROVE  WalkDepths(d)'
  <2>1. PICK n \in Nat : n = Len(walk)
    BY DEF Reads
  <2>2. \A k \in 1..Len(walk') : k \in 1..n =>
          /\ \/ walk'[k].id \in 1..lastCtx' /\ d[walk'[k].id] = k
             \/ walk'[k].id = Null /\ k = 1
          /\ \A s \in walk'[k].subs : s \in 1..lastCtx' /\ d[s] = k + 1
    <3> SUFFICES ASSUME NEW k \in 1..Len(walk'), k \in 1..n
                 PROVE  /\ \/ walk'[k].id \in 1..lastCtx' /\ d[walk'[k].id] = k
                           \/ walk'[k].id = Null /\ k = 1
                        /\ \A s \in walk'[k].subs : s \in 1..lastCtx' /\ d[s] = k + 1
      OBVIOUS
    <3>1. /\ walk'[k].id = walk[k].id
          /\ walk'[k].subs \subseteq walk[k].subs \union SubIds(walk[k].id)
      BY <1>4, <2>1 DEF WalkKept
    <3>2. /\ \/ walk[k].id \in 1..lastCtx /\ d[walk[k].id] = k
             \/ walk[k].id = Null /\ k = 1
          /\ \A s \in walk[k].subs : s \in 1..lastCtx /\ d[s] = k + 1
      BY <2>1 DEF WalkDepths
    <3>3. \A s \in SubIds(walk[k].id) : s \in 1..lastCtx /\ d[s] = k + 1
      <4> SUFFICES ASSUME NEW s \in SubIds(walk[k].id) PROVE s \in 1..lastCtx /\ d[s] = k + 1
        OBVIOUS
      <4>1. PICK r \in ctxTab : r.parent = walk[k].id /\ walk[k].id # Null /\ r.id = s
        BY DEF SubIds
      <4>2. d[walk[k].id] = k
        BY <3>2, <4>1
      <4>3. r.id \in 1..lastCtx /\ d[r.id] = d[r.parent] + 1
        BY <4>1 DEF RowDepths
      <4> QED
        BY <4>1, <4>2, <4>3
    <3> QED
      BY <1>1, <3>1, <3>2, <3>3
  <2>3. CASE Len(walk') <= Len(walk)
    <3>1. Len(walk') \in Nat => \A k \in 1..Len(walk') : k \in 1..n
      BY <2>1, <2>3
    <3>2. Len(walk') \in Nat
      BY ExportMoves
    <3> QED
      BY <2>2, <3>1, <3>2 DEF WalkDepths
  <2>4. CASE WalkEntered
    <3>1. PICK s \in walk[n].subs : walk'[n + 1] = Export!NewCall(s)
      BY <2>1, <2>4 DEF WalkEntered
    <3>2. n # 0 /\ n \in 1..n /\ Len(walk') = n + 1
      BY <2>1, <2>4 DEF WalkEntered, Reads
    <3>3. s \in 1..lastCtx /\ d[s] = n + 1
      BY <2>1, <3>1, <3>2 DEF WalkDepths
    <3>4. walk'[n + 1].id = s /\ walk'[n + 1].subs = {}
      BY <3>1 DEF Export!NewCall
    <3>5. \A k \in 1..Len(walk') : k \in 1..n \/ k = n + 1
      BY <2>1, <3>2
    <3> QED
      BY <1>1, <2>2, <3>3, <3>4, <3>5 DEF WalkDepths
  <2> QED
    BY <1>4, <2>3, <2>4
<1> QED
  BY <1>2, <1>3, <1>4, ExportMoves

(* There is room for what the server enters. *)
LEMMA FrameRoom ==
  ASSUME Reads, NEW d, RowDepths(d), FrameDepths(d), stack # <<>>, Last(stack).kids # {}
  PROVE  Len(stack) < MaxDepth
<1>1. PICK n \in Nat : n = Len(stack) /\ Last(stack) = stack[n]
  BY DEF Reads, Last
<1>2. PICK y : y \in stack[n].kids
  BY <1>1
<1>3. n # 0 /\ n \in 1..n
  BY <1>1 DEF Reads
<1>4. y.id \in 1..lastCtx /\ d[y.id] = n + 1
  BY <1>1, <1>2, <1>3 DEF FrameDepths
<1>5. d[y.id] \in 1..MaxDepth
  BY <1>4 DEF RowDepths
<1> QED
  BY <1>1, <1>4, <1>5, RoundTripAssumption

(* A step of the server. *)
LEMMA FrameDepthsStep ==
  ASSUME Typed, Reads, NEW d, RowDepths(d), FrameDepths(d), Server!Step, UNCHANGED vars
  PROVE  FrameDepths(d)' /\ stack' \in Seq(ServerFrame)
<1>1. lastCtx' = lastCtx /\ lastCtx \in Nat
  BY DEF vars, Typed, TypeOK
<1>2. PICK n \in Nat : n = Len(stack)
  BY DEF Reads
<1>3. /\ stack' \in Seq(ServerFrame)
      /\ \/ \E r \in ctxTab : r.parent = Null /\ stack' = <<Server!NewFrame(r.id)>>
         \/ FramesKept /\ (Len(stack') <= Len(stack) \/ Entered)
  BY ServerMoves
<1>4. ASSUME NEW r \in ctxTab, r.parent = Null, stack' = <<Server!NewFrame(r.id)>>
      PROVE  FrameDepths(d)'
  <2>1. Len(stack') = 1 /\ stack'[1].ctx = r.id /\ stack'[1].kids = {}
    BY <1>4 DEF Server!NewFrame
  <2>2. r.id \in 1..lastCtx /\ d[r.id] = 1
    BY <1>1, <1>4 DEF RowDepths, Null
  <2> QED
    BY <1>1, <2>1, <2>2 DEF FrameDepths
<1>5. ASSUME FramesKept, Len(stack') <= Len(stack) \/ Entered
      PROVE  FrameDepths(d)'
  <2>1. \A k \in 1..Len(stack') : k \in 1..n =>
          /\ stack'[k].ctx \in 1..lastCtx' /\ d[stack'[k].ctx] = k
          /\ \A y \in stack'[k].kids : y.id \in 1..lastCtx' /\ d[y.id] = k + 1
    <3> SUFFICES ASSUME NEW k \in 1..Len(stack'), k \in 1..n
                 PROVE  /\ stack'[k].ctx \in 1..lastCtx' /\ d[stack'[k].ctx] = k
                        /\ \A y \in stack'[k].kids : y.id \in 1..lastCtx' /\ d[y.id] = k + 1
      OBVIOUS
    <3>1. /\ stack'[k].ctx = stack[k].ctx
          /\ \A y \in stack'[k].kids :
               y \in stack[k].kids \/ (y \in AsTable.ctxs /\ y.parent = stack[k].ctx)
      BY <1>2, <1>5 DEF FramesKept
    <3>2. /\ stack[k].ctx \in 1..lastCtx /\ d[stack[k].ctx] = k
          /\ \A y \in stack[k].kids : y.id \in 1..lastCtx /\ d[y.id] = k + 1
      BY <1>2 DEF FrameDepths
    <3>3. ASSUME NEW y \in AsTable.ctxs, y.parent = stack[k].ctx
          PROVE  y.id \in 1..lastCtx /\ d[y.id] = k + 1
      <4>1. PICK r \in ctxTab : r.id = y.id /\ r.parent = y.parent
        BY ServerSees
      <4>2. r.parent # Null
        BY <1>1, <3>2, <3>3, <4>1 DEF Null
      <4>3. r.id \in 1..lastCtx /\ d[r.id] = d[r.parent] + 1
        BY <4>2 DEF RowDepths
      <4> QED
        BY <3>2, <3>3, <4>1, <4>3
    <3> QED
      BY <1>1, <3>1, <3>2, <3>3
  <2>2. CASE Len(stack') <= Len(stack)
    <3>1. Len(stack') \in Nat => \A k \in 1..Len(stack') : k \in 1..n
      BY <1>2, <2>2
    <3>2. Len(stack') \in Nat
      BY <1>3
    <3> QED
      BY <2>1, <3>1, <3>2 DEF FrameDepths
  <2>3. CASE Entered
    <3>1. PICK y \in stack[n].kids : stack'[n + 1] = Server!NewFrame(y.id)
      BY <1>2, <2>3 DEF Entered
    <3>2. n # 0 /\ n \in 1..n /\ Len(stack') = n + 1
      BY <1>2, <2>3 DEF Entered, Reads
    <3>3. y.id \in 1..lastCtx /\ d[y.id] = n + 1
      BY <1>2, <3>1, <3>2 DEF FrameDepths
    <3>4. stack'[n + 1].ctx = y.id /\ stack'[n + 1].kids = {}
      BY <3>1 DEF Server!NewFrame
    <3>5. \A k \in 1..Len(stack') : k \in 1..n \/ k = n + 1
      BY <1>2, <3>2
    <3> QED
      BY <1>1, <2>1, <3>3, <3>4, <3>5 DEF FrameDepths
  <2> QED
    BY <1>5, <2>2, <2>3
<1> QED
  BY <1>3, <1>4, <1>5

-----------------------------------------------------------------------------
(* All of it together. *)

Orderly ==
  /\ Typed /\ Tree /\ Depth /\ Leveled /\ Named
  /\ Reads /\ Deep

LEMMA OrderlyInitially == RoundTripInit => Orderly
<1> SUFFICES ASSUME RoundTripInit PROVE Orderly
  OBVIOUS
<1>1. Init /\ walk = <<>> /\ stack = <<>> /\ pcS = "module"
  BY DEF RoundTripInit, Export!Init, Server!Init
<1>2. Typed
  BY <1>1, TypedInitially
<1>3. /\ file \in Files /\ pos = 0 /\ nodes = <<NewNode(Default)>> /\ ctxs = << 1 >> /\ pc = "parse"
      /\ ctxTab = {} /\ lastCtx = 0
  BY <1>1 DEF Init, Started
<1>4. Tree
  BY <1>3, TreeOfOne
<1>5. Depth
  <2>1. Len(ctxs) = 1
    BY <1>3
  <2> QED
    BY <1>3, <2>1, DepthBegins
<1>6. Leveled /\ Named
  BY <1>3, LevelsOfOne
<1>7. Reads
  BY <1>1 DEF Reads
<1>8. Deep
  <2> DEFINE d == [i \in 1..lastCtx |-> 1]
  <2>1. RowDepths(d)
    BY <1>3 DEF RowDepths
  <2> HIDE DEF d
  <2> QED
    BY <1>1, <1>3, <2>1 DEF Deep, CallDepths, WalkDepths, FrameDepths
<1> QED
  BY <1>1, <1>2, <1>4, <1>5, <1>6, <1>7, <1>8 DEF Orderly

LEMMA OrderlyNext == Orderly /\ [RoundTripNext]_allVars => Orderly'
<1> SUFFICES ASSUME Orderly, [RoundTripNext]_allVars PROVE Orderly'
  OBVIOUS
<1>1. [Next]_vars
  BY ImporterMoves DEF allVars
<1>2. /\ Typed /\ Tree /\ Depth /\ Leveled /\ Named
      /\ Reads /\ Deep
  BY DEF Orderly
<1>3. Typed' /\ Tree' /\ Depth'
  BY <1>1, <1>2, TypedNext, TreeNext, DepthNext
<1>4. Leveled' /\ Named'
  BY <1>1, <1>2, <1>3, LevelsNext
<1>5. PICK d : RowDepths(d) /\ CallDepths(d) /\ WalkDepths(d) /\ FrameDepths(d)
  BY <1>2 DEF Deep
<1>6. ASSUME UNCHANGED vars
      PROVE  RowDepths(d)' /\ CallDepths(d)'
  <2>1. UNCHANGED <<lastCtx, ctxTab, pc, calls>>
    BY <1>6 DEF vars
  <2> QED
    BY <1>5, <2>1 DEF RowDepths, CallDepths
<1>7. CASE UNCHANGED readVars
  <2>1. UNCHANGED <<walk, stack, pcS>>
    BY <1>7 DEF readVars, exportVars, serverVars
  <2>2. PICK e : RowDepths(e)' /\ CallDepths(e)' /\ Extends(d, e)
    BY <1>1, <1>2, <1>3, <1>5, DepthsKept
  <2>3. WalkDepths(e)' /\ FrameDepths(e)'
    BY <1>5, <2>1, <2>2, ReaderDepthsKept
  <2>4. Reads' /\ Deep'
    BY <1>2, <2>1, <2>2, <2>3 DEF Reads, Deep
  <2> QED
    BY <1>3, <1>4, <2>4 DEF Orderly
<1>8. CASE ExportStep
  <2>1. UNCHANGED <<vars, stack, pcS>> /\ Export!Next
    BY <1>8 DEF ExportStep, serverVars
  <2>2. UNCHANGED lastCtx
    BY <2>1 DEF vars
  <2>3. walk' \in Seq(ExportCall)
    BY <1>2, <2>1, ExportMoves
  <2>4. WalkDepths(d)'
    BY <1>2, <1>5, <2>1, WalkDepthsStep
  <2>5. FrameDepths(d)'
    BY <1>5, <2>1, <2>2 DEF FrameDepths
  <2>6. Reads' /\ Deep'
    BY <1>2, <1>6, <2>1, <2>3, <2>4, <2>5 DEF Reads, Deep
  <2> QED
    BY <1>3, <1>4, <2>6 DEF Orderly
<1>9. CASE ServerStep
  <2>1. UNCHANGED <<vars, walk>> /\ Server!Step
    BY <1>9 DEF ServerStep, exportVars
  <2>2. UNCHANGED lastCtx
    BY <2>1 DEF vars
  <2>3. FrameDepths(d)' /\ stack' \in Seq(ServerFrame)
    BY <1>2, <1>5, <2>1, FrameDepthsStep
  <2>4. WalkDepths(d)'
    BY <1>5, <2>1, <2>2 DEF WalkDepths
  <2>5. Reads' /\ Deep'
    BY <1>2, <1>5, <1>6, <2>1, <2>3, <2>4 DEF Reads, Deep
  <2> QED
    BY <1>3, <1>4, <2>3, <2>5 DEF Orderly
<1> QED
  BY <1>7, <1>8, <1>9 DEF RoundTripNext, ImporterStep, allVars

(* However the imports and a reader interleave, wherever the imports die and *)
(* whatever they import: neither recursion of a reader gets deeper than the  *)
(* files have sections within each other.  Whether the server survives a row *)
(* that an import deletes under its hands is another question, which the     *)
(* theorem leaves open as EmptyRow does.                                     *)
THEOREM ReadersBounded == RoundTripSpec => []Bounded
<1>1. Orderly => (stack # <<>> /\ Last(stack).kids # {} => Len(stack) < MaxDepth)
  BY FrameRoom DEF Orderly, Deep
<1>2. Orderly => Len(walk) <= MaxDepth
  <2> SUFFICES ASSUME Orderly PROVE Len(walk) <= MaxDepth
    OBVIOUS
  <2>1. PICK n \in Nat : n = Len(walk)
    BY DEF Orderly, Reads
  <2>2. PICK d : RowDepths(d) /\ WalkDepths(d)
    BY DEF Orderly, Deep
  <2>3. MaxDepth \in Nat \ {0}
    BY RoundTripAssumption
  <2>4. CASE n = 0
    BY <2>1, <2>3, <2>4
  <2>5. CASE n # 0
    <3>1. n \in 1..n
      BY <2>5
    <3>2. (walk[n].id \in 1..lastCtx /\ d[walk[n].id] = n) \/ n = 1
      BY <2>1, <2>2, <3>1 DEF WalkDepths
    <3>3. n \in 1..MaxDepth \/ n = 1
      BY <2>2, <3>2 DEF RowDepths
    <3> QED
      BY <2>1, <2>3, <3>3
  <2> QED
    BY <2>4, <2>5
<1>3. Orderly => Bounded
  BY <1>1, <1>2 DEF Bounded
<1> QED
  BY <1>3, OrderlyInitially, OrderlyNext, PTL DEF RoundTripSpec

-----------------------------------------------------------------------------
(* The tags that are open behind the lines of a text.  OpenTags is recursive *)
(* over the lines; that it is what it says follows from the least line where *)
(* it would not be.                                                          *)

LEMMA UpTo ==
  ASSUME NEW n \in Nat, NEW S, 0 \in S, \A i \in 1..n : i - 1 \in S => i \in S
  PROVE  0..n \subseteq S
<1> DEFINE T == {i \in 0..n : i \notin S}
<1> SUFFICES ASSUME T # {} PROVE FALSE
  OBVIOUS
<1>1. T \in SUBSET Nat
  OBVIOUS
<1>2. PICK x \in T : \A y \in T : ~(<<y, x>> \in OpToRel(<, Nat))
  BY <1>1, NatLessThanWellFounded, WFMin
<1>3. x \in 1..n /\ x \notin S
  OBVIOUS
<1>4. x - 1 \in Nat /\ x \in Nat /\ x - 1 < x /\ x - 1 \in 0..n
  BY <1>3
<1>5. x - 1 \in T
  BY <1>3, <1>4
<1>6. \A y \in Nat : \A z \in Nat : y < z => <<y, z>> \in OpToRel(<, Nat)
  BY Zenon DEF OpToRel
<1>7. <<x - 1, x>> \in OpToRel(<, Nat)
  BY <1>4, <1>6
<1> QED
  BY <1>2, <1>5, <1>7

(* The open tags behind one more line. *)
After(tags, line) ==
  IF line.kind = "open" THEN Append(tags, line.what)
  ELSE IF line.kind = "close" /\ tags # <<>> THEN Front(tags)
  ELSE tags

IsPath(f, ls, n) == f = [i \in 0..n |-> IF i = 0 THEN <<>> ELSE After(f[i - 1], ls[i])]

LEMMA PathTo ==
  ASSUME NEW ls, NEW n \in Nat
  PROVE  \E f : IsPath(f, ls, n)
<1> DEFINE S == {k \in 0..n : \E f : IsPath(f, ls, k)}
<1>1. 0 \in S
  <2> DEFINE f == [i \in 0..0 |-> <<>>]
  <2>1. f = [i \in 0..0 |-> IF i = 0 THEN <<>> ELSE After(f[i - 1], ls[i])]
    OBVIOUS
  <2> HIDE DEF f
  <2> QED
    BY <2>1 DEF IsPath
<1>2. ASSUME NEW k \in 1..n, k - 1 \in S PROVE k \in S
  <2>1. PICK f : IsPath(f, ls, k - 1)
    BY <1>2
  <2>2. 0..k = (0..(k - 1)) \union {k} /\ k \notin 0..(k - 1) /\ \A i \in 1..(k - 1) : i - 1 \in 0..(k - 1)
    OBVIOUS
  <2>3. /\ DOMAIN f = 0..(k - 1)
        /\ \A i \in 0..(k - 1) : f[i] = IF i = 0 THEN <<>> ELSE After(f[i - 1], ls[i])
    BY <2>1 DEF IsPath
  <2> DEFINE g == [i \in 0..k |-> IF i = k THEN After(f[k - 1], ls[k]) ELSE f[i]]
  <2>4. /\ DOMAIN g = 0..k /\ g = [i \in 0..k |-> g[i]]
        /\ g[k] = After(f[k - 1], ls[k]) /\ \A i \in 0..(k - 1) : g[i] = f[i]
    BY <2>2
  <2> HIDE DEF g
  <2>5. \A i \in 0..k : g[i] = IF i = 0 THEN <<>> ELSE After(g[i - 1], ls[i])
    <3> SUFFICES ASSUME NEW i \in 0..k
                 PROVE  g[i] = IF i = 0 THEN <<>> ELSE After(g[i - 1], ls[i])
      OBVIOUS
    <3>1. CASE i = k
      <4>1. i # 0 /\ i - 1 \in 0..(k - 1)
        BY <3>1
      <4> QED
        BY <2>4, <3>1, <4>1
    <3>2. CASE i # k
      <4>1. i \in 0..(k - 1) /\ (i # 0 => i - 1 \in 0..(k - 1))
        BY <3>2
      <4> QED
        BY <2>3, <2>4, <4>1
    <3> QED
      BY <3>1, <3>2
  <2>6. g = [i \in 0..k |-> IF i = 0 THEN <<>> ELSE After(g[i - 1], ls[i])]
    BY <2>4, <2>5
  <2>7. IsPath(g, ls, k)
    BY <2>6 DEF IsPath
  <2> QED
    BY <1>2, <2>7
<1> HIDE DEF S
<1>3. 0..n \subseteq S
  BY <1>1, <1>2, UpTo
<1>4. n \in S
  BY <1>3
<1> QED
  BY <1>4 DEF S

LEMMA OpenTagsIs ==
  ASSUME NEW ls, Len(ls) \in Nat
  PROVE  /\ OpenTags(ls)[0] = <<>>
         /\ \A i \in 1..Len(ls) : OpenTags(ls)[i] = After(OpenTags(ls)[i - 1], ls[i])
<1>1. PICK n \in Nat : n = Len(ls)
  OBVIOUS
<1>2. \E f : IsPath(f, ls, n)
  BY PathTo
<1>3. OpenTags(ls) = CHOOSE f : IsPath(f, ls, n)
  BY <1>1 DEF OpenTags, IsPath, After
<1>4. IsPath(OpenTags(ls), ls, n)
  BY <1>2, <1>3
<1>5. \A i \in 0..n :
        OpenTags(ls)[i] = IF i = 0 THEN <<>> ELSE After(OpenTags(ls)[i - 1], ls[i])
  BY <1>4 DEF IsPath
<1> QED
  BY <1>1, <1>5

(* q goes on from p, which is for the n lines before these new ones. *)
Continues(p, q, n, new) ==
  /\ \A i \in 0..n : q[i] = p[i]
  /\ \A j \in 1..Len(new) : q[n + j] = After(q[n + j - 1], new[j])

LEMMA OpenTagsMore ==
  ASSUME NEW S, NEW ls \in Seq(S), NEW new \in Seq(S)
  PROVE  Continues(OpenTags(ls), OpenTags(ls \o new), Len(ls), new)
<1>0. Len(ls) \in Nat /\ Len(new) \in Nat /\ ls \o new \in Seq(S)
  BY ConcatProperties
<1>1. PICK n \in Nat, m \in Nat, all \in Seq(S) :
        n = Len(ls) /\ m = Len(new) /\ all = ls \o new
  BY ONLY <1>0, Zenon
<1> DEFINE T == {i \in 0..n : OpenTags(all)[i] = OpenTags(ls)[i]}
<1>2. /\ Len(all) = n + m /\ \A i \in 1..n : all[i] = ls[i]
      /\ \A j \in 1..m : all[n + j] = new[j]
  <2>1. Len(all) = Len(ls) + Len(new)
        /\ \A i \in 1..Len(ls) + Len(new) : all[i] = IF i <= Len(ls) THEN ls[i] ELSE new[i - Len(ls)]
    BY <1>1, ConcatProperties
  <2>2. \A i \in 1..n : i \in 1..n + m /\ i <= n
    OBVIOUS
  <2>3. \A j \in 1..m : n + j \in 1..n + m /\ ~(n + j <= n) /\ n + j - n = j
    OBVIOUS
  <2>4. Len(all) = n + m
    BY <1>1, <2>1
  <2>5. \A i \in 1..n + m : all[i] = IF i <= n THEN ls[i] ELSE new[i - n]
    BY <1>1, <2>1
  <2>6. \A i \in 1..n : all[i] = ls[i]
    BY ONLY <2>2, <2>5
  <2>7. \A j \in 1..m : all[n + j] = new[j]
    <3> SUFFICES ASSUME NEW j \in 1..m PROVE all[n + j] = new[j]
      OBVIOUS
    <3>1. n + j \in 1..n + m /\ ~(n + j <= n) /\ n + j - n = j
      BY <2>3
    <3>2. all[n + j] = new[n + j - n]
      BY ONLY <2>5, <3>1
    <3> QED
      BY ONLY <3>1, <3>2
  <2> QED
    BY ONLY <2>4, <2>6, <2>7
<1>3. Len(all) \in Nat /\ n + m \in Nat
  BY <1>2
<1>4. 0 \in T
  BY <1>3, OpenTagsIs
<1>5. ASSUME NEW i \in 1..n, i - 1 \in T PROVE i \in T
  <2>1. i \in 1..(n + m)
    OBVIOUS
  <2>2. OpenTags(all)[i] = After(OpenTags(all)[i - 1], all[i])
    BY <1>2, <1>3, <2>1, OpenTagsIs
  <2>3. OpenTags(ls)[i] = After(OpenTags(ls)[i - 1], ls[i])
    BY <1>1, OpenTagsIs
  <2> QED
    BY <1>2, <1>5, <2>2, <2>3
<1> HIDE DEF T
<1>6. 0..n \subseteq T
  BY <1>4, <1>5, UpTo
<1>7. \A j \in 1..m : OpenTags(all)[n + j] = After(OpenTags(all)[n + j - 1], new[j])
  <2> SUFFICES ASSUME NEW j \in 1..m
               PROVE  OpenTags(all)[n + j] = After(OpenTags(all)[n + j - 1], new[j])
    OBVIOUS
  <2>1. n + j \in 1..(n + m)
    OBVIOUS
  <2>2. \A i \in 1..(n + m) : OpenTags(all)[i] = After(OpenTags(all)[i - 1], all[i])
    <3>1. \A i \in 1..Len(all) : OpenTags(all)[i] = After(OpenTags(all)[i - 1], all[i])
      BY <1>3, OpenTagsIs
    <3> QED
      BY ONLY <1>2, <3>1
  <2>3. OpenTags(all)[n + j] = After(OpenTags(all)[n + j - 1], all[n + j])
    BY ONLY <2>1, <2>2
  <2> QED
    BY ONLY <1>2, <2>3, j \in 1..m
<1>8. \A i \in 0..n : OpenTags(all)[i] = OpenTags(ls)[i]
  BY ONLY <1>6 DEF T
<1> QED
  BY <1>1, <1>7, <1>8 DEF Continues

(* Directives open and close nothing. *)
AllDirs(new) == Len(new) \in Nat /\ \A j \in 1..Len(new) : new[j].kind = "dir"

Stays(p, q, n, new) == \A j \in 0..Len(new) : q[n + j] = p[n]

LEMMA OpenTagsDirs ==
  ASSUME NEW p, NEW q, NEW n \in Nat, NEW new, AllDirs(new), Continues(p, q, n, new)
  PROVE  Stays(p, q, n, new)
<1>1. Len(new) \in Nat
  BY DEF AllDirs
<1>2. PICK m \in Nat : m = Len(new)
  BY ONLY <1>1, Zenon
<1> DEFINE T == {j \in 0..m : q[n + j] = p[n]}
<1>3. /\ \A i \in 0..n : q[i] = p[i]
      /\ \A j \in 1..m : q[n + j] = After(q[n + j - 1], new[j])
  BY <1>2 DEF Continues
<1>4. 0 \in T
  BY <1>3
<1>5. ASSUME NEW j \in 1..m, j - 1 \in T PROVE j \in T
  <2>1. q[n + j] = q[n + j - 1]
    BY <1>3, <1>2 DEF After, AllDirs
  <2>2. n + j - 1 = n + (j - 1) /\ j \in 0..m
    OBVIOUS
  <2> QED
    BY <1>5, <2>1, <2>2
<1> HIDE DEF T
<1>6. 0..m \subseteq T
  BY <1>4, <1>5, UpTo
<1> QED
  BY <1>6, <1>2 DEF T, Stays

-----------------------------------------------------------------------------
(* What the ids given so far stand for. *)

(* The label of each context id and the directive of each directive id.  A   *)
(* row keeps its label and its directive, and a mapping is one of `made'.    *)
Remembered(lab, dir) ==
  /\ lab \in [1..lastCtx -> Labels] /\ dir \in [1..lastConf -> Dir]
  /\ \A r \in ctxTab : /\ r.id \in 1..lastCtx /\ r.label = lab[r.id]
                       /\ r.parent = Null => r.label = Default
  /\ \A c \in confTab : c.id \in 1..lastConf /\ c.dir = dir[c.id]
  /\ \A m \in Values(mapTab) : /\ m.ctx \in 1..lastCtx /\ m.conf \in 1..lastConf
                               /\ <<lab[m.ctx], dir[m.conf]>> \in made

(* A function on the first n numbers, and one more. *)
Lengthens(f, g, n, x, S) ==
  g \in [1..(n + 1) -> S] /\ g[n + 1] = x /\ \A i \in 1..n : g[i] = f[i]

LEMMA OneMore ==
  ASSUME NEW n \in Nat, NEW S, NEW f \in [1..n -> S], NEW x \in S
  PROVE  \E g : Lengthens(f, g, n, x, S)
<1> DEFINE g == [i \in 1..(n + 1) |-> IF i = n + 1 THEN x ELSE f[i]]
<1>1. 1..(n + 1) = (1..n) \union {n + 1} /\ n + 1 \notin 1..n
  OBVIOUS
<1>2. g \in [1..(n + 1) -> S] /\ g[n + 1] = x /\ \A i \in 1..n : g[i] = f[i]
  BY <1>1
<1> HIDE DEF g
<1> QED
  BY <1>2 DEF Lengthens

LEMMA RememberedRow ==
  ASSUME Typed, NEW lab, NEW dir, Remembered(lab, dir), NEW parent, NEW label \in Labels,
         InsertCtxRow(parent, label), parent = Null => label = Default, made' = made
  PROVE  \E l : Remembered(l, dir)' /\ Extends(lab, l)
<1>1. PICK n \in Nat : n = lastCtx
  BY DEF Typed, TypeOK
<1>2. /\ lastCtx' = n + 1 /\ lastConf' = lastConf /\ confTab' = confTab /\ mapTab' = mapTab
      /\ ctxTab' = ctxTab \union {[id |-> n + 1, parent |-> parent, label |-> label]}
  BY <1>1 DEF InsertCtxRow
<1>3. PICK l \in [1..(n + 1) -> Labels] : l[n + 1] = label /\ \A i \in 1..n : l[i] = lab[i]
  <2>1. lab \in [1..n -> Labels]
    BY <1>1 DEF Remembered
  <2>2. \E l : Lengthens(lab, l, n, label, Labels)
    BY <2>1, OneMore
  <2> QED
    BY <2>2 DEF Lengthens
<1>4. 1..n \subseteq 1..(n + 1) /\ n + 1 \in 1..(n + 1)
  OBVIOUS
<1>5. Extends(lab, l)
  BY <1>1, <1>2, <1>3, <1>4 DEF Extends
<1>6. ASSUME NEW r \in ctxTab'
      PROVE  r.id \in 1..(n + 1) /\ r.label = l[r.id] /\ (r.parent = Null => r.label = Default)
  <2>1. CASE r \in ctxTab
    BY <1>1, <1>3, <1>4, <2>1 DEF Remembered
  <2>2. CASE r = [id |-> n + 1, parent |-> parent, label |-> label]
    BY <1>3, <1>4, <2>2
  <2> QED
    BY <1>2, <1>6, <2>1, <2>2
<1>7. \A m \in Values(mapTab) : /\ m.ctx \in 1..(n + 1) /\ m.conf \in 1..lastConf
                                /\ <<l[m.ctx], dir[m.conf]>> \in made
  BY <1>1, <1>3, <1>4 DEF Remembered
<1>8. Values(mapTab)' = Values(mapTab)
  BY <1>2 DEF Values
<1>9. Remembered(l, dir)'
  BY <1>2, <1>3, <1>6, <1>7, <1>8 DEF Remembered
<1> QED
  BY <1>5, <1>9

LEMMA RememberedLess ==
  ASSUME NEW lab, NEW dir, Remembered(lab, dir), ctxTab' \subseteq ctxTab,
         confTab' \subseteq confTab, Values(mapTab') \subseteq Values(mapTab),
         UNCHANGED <<lastCtx, lastConf>>, made \subseteq made'
  PROVE  Remembered(lab, dir)' /\ Extends(lab, lab)
  BY DEF Remembered, Extends

LEMMA RememberedNext ==
  ASSUME Typed, Trees, Mapped, NEW lab, NEW dir, Remembered(lab, dir), ImporterStep
  PROVE  \E l, d : Remembered(l, d)' /\ Extends(lab, l)
<1>0. /\ lastCtx \in Nat /\ lastConf \in Nat /\ mapTab \in Seq(MapRow)
      /\ calls \in Seq(CallIn(Len(nodes))) /\ nodes \in Seq(NodeIn(Len(nodes)))
  BY DEF Typed, TypeOK
<1>1. made' = IF Len(mapTab') > Len(mapTab) THEN made \union MadeBy(mapTab'[Len(mapTab')]) ELSE made
  BY DEF ImporterStep
<1>2. mapTab' = mapTab => made' = made
  BY <1>0, <1>1
<1>3. calls # <<>> => Len(calls) \in 1..Len(calls) /\ Top = calls[Len(calls)] /\ Top \in CallIn(Len(nodes))
  BY <1>0 DEF Top
<1>4. pc = "process" /\ calls # <<>> => \E r \in ctxTab : r.id = Top.id
  BY <1>3 DEF Trees, RowsOfCalls
<1>5. CASE InsertRoot
  <2>1. InsertCtxRow(Null, Default) /\ mapTab' = mapTab
    BY <1>5 DEF InsertRoot, InsertCtxRow
  <2>2. \E l : Remembered(l, dir)' /\ Extends(lab, l)
    BY <1>2, <2>1, RememberedRow DEF Labels
  <2> QED
    BY <2>2
<1>6. CASE InsertCtx
  <2>1. /\ InsertCtxRow(Top.id, nodes[Head(Top.subs)].label) /\ mapTab' = mapTab
        /\ pc = "process" /\ calls # <<>> /\ Top.subs # <<>>
    BY <1>6 DEF InsertCtx, InsertCtxRow, At
  <2>2. Top.subs \in Seq(1..Len(nodes))
    BY <1>3, <2>1 DEF CallIn
  <2>3. Head(Top.subs) \in 1..Len(nodes)
    BY <2>1, <2>2
  <2>4. nodes[Head(Top.subs)].label \in Labels
    <3>1. nodes[Head(Top.subs)] \in NodeIn(Len(nodes))
      BY <1>0, <2>3
    <3>2. \A x \in NodeIn(Len(nodes)) : x.label \in Labels
      BY DEF NodeIn, Labels
    <3> QED
      BY <3>1, <3>2
  <2>5. Top.id # Null
    BY <1>0, <1>4, <2>1 DEF Remembered, Null
  <2>6. \E l : Remembered(l, dir)' /\ Extends(lab, l)
    BY <1>2, <2>1, <2>4, <2>5, RememberedRow
  <2> QED
    BY <2>6
<1>7. CASE InsertConf
  <2>1. /\ confTab' = confTab \union {[id |-> lastConf + 1, dir |-> Head(Top.dirs)]}
        /\ lastConf' = lastConf + 1 /\ ctxTab' = ctxTab /\ mapTab' = mapTab /\ lastCtx' = lastCtx
        /\ calls # <<>> /\ Top.dirs # <<>>
    BY <1>7 DEF InsertConf, At
  <2>2. Top.dirs \in Seq(Dir)
    BY <1>3, <2>1 DEF CallIn
  <2>3. Head(Top.dirs) \in Dir
    BY <2>1, <2>2
  <2>4. PICK n \in Nat, x \in Dir : n = lastConf /\ x = Head(Top.dirs)
    BY <1>0, <2>3
  <2>5. PICK d \in [1..(n + 1) -> Dir] : d[n + 1] = x /\ \A i \in 1..n : d[i] = dir[i]
    <3>1. dir \in [1..n -> Dir]
      BY <2>4 DEF Remembered
    <3>2. \E d : Lengthens(dir, d, n, x, Dir)
      BY <3>1, OneMore
    <3> QED
      BY <3>2 DEF Lengthens
  <2>6. 1..n \subseteq 1..(n + 1) /\ n + 1 \in 1..(n + 1)
    OBVIOUS
  <2>7. ASSUME NEW c \in confTab' PROVE c.id \in 1..(n + 1) /\ c.dir = d[c.id]
    <3>1. CASE c \in confTab
      BY <2>4, <2>5, <2>6, <3>1 DEF Remembered
    <3>2. CASE c = [id |-> n + 1, dir |-> x]
      BY <2>5, <2>6, <3>2
    <3> QED
      BY <2>1, <2>4, <2>7, <3>1, <3>2
  <2>8. \A m \in Values(mapTab) : /\ m.ctx \in 1..lastCtx /\ m.conf \in 1..(n + 1)
                                  /\ <<lab[m.ctx], d[m.conf]>> \in made
    BY <2>4, <2>5, <2>6 DEF Remembered
  <2>9. Values(mapTab)' = Values(mapTab) /\ made' = made
    BY <1>2, <2>1 DEF Values
  <2>10. Remembered(lab, d)'
    BY <2>1, <2>4, <2>5, <2>7, <2>8, <2>9 DEF Remembered
  <2>11. Extends(lab, lab)
    BY <2>1 DEF Extends
  <2> QED
    BY <2>10, <2>11
<1>8. CASE InsertMap
  <2>1. /\ mapTab' = Append(mapTab, [ctx |-> Top.id, conf |-> Top.conf])
        /\ UNCHANGED <<ctxTab, confTab, lastCtx, lastConf>>
        /\ pc = "process" /\ calls # <<>> /\ Top.at = "map"
    BY <1>8 DEF InsertMap, At
  <2>2. PICK n \in Nat, m \in {[ctx |-> Top.id, conf |-> Top.conf]} : n = Len(mapTab)
    <3>1. Len(mapTab) \in Nat
      BY <1>0
    <3> QED
      BY ONLY <3>1, Zenon
  <2>3. PICK r \in ctxTab : r.id = Top.id
    BY <1>4, <2>1
  <2>4. PICK c \in confTab : c.id = Top.conf
    <3>1. Top \in Values(calls)
      BY <1>0, <1>3, <2>1 DEF Values
    <3> QED
      BY <2>1, <3>1 DEF Mapped, RightCalls, OwnRow
  <2>5. /\ Len(mapTab') = n + 1 /\ mapTab'[n + 1] = m
        /\ \A i \in 1..n : mapTab'[i] = mapTab[i]
        /\ DOMAIN mapTab' = 1..(n + 1) /\ DOMAIN mapTab = 1..n
    BY <1>0, <2>1, <2>2
  <2>6. Values(mapTab') \subseteq Values(mapTab) \union {m}
    <3>1. \A i \in 1..(n + 1) : i \in 1..n \/ i = n + 1
      OBVIOUS
    <3> QED
      BY <2>5, <3>1 DEF Values
  <2>7. made' = made \union MadeBy(m)
    BY <1>1, <2>2, <2>5
  <2>8. <<r.label, c.dir>> \in MadeBy(m)
    BY <2>2, <2>3, <2>4 DEF MadeBy
  <2>9. m.ctx \in 1..lastCtx /\ m.conf \in 1..lastConf /\ <<lab[m.ctx], dir[m.conf]>> \in made'
    BY <2>2, <2>3, <2>4, <2>7, <2>8 DEF Remembered
  <2>10. \A x \in Values(mapTab') : /\ x.ctx \in 1..lastCtx /\ x.conf \in 1..lastConf
                                    /\ <<lab[x.ctx], dir[x.conf]>> \in made'
    BY <2>6, <2>7, <2>9 DEF Remembered
  <2>11. Remembered(lab, dir)'
    BY <2>1, <2>10 DEF Remembered
  <2>12. Extends(lab, lab)
    BY <2>1 DEF Extends
  <2> QED
    BY <2>11, <2>12
<1>9. CASE DeleteMaps
  <2>1. mapTab' = <<>> /\ UNCHANGED <<ctxTab, confTab, lastCtx, lastConf>>
    BY <1>9 DEF DeleteMaps
  <2>2. Values(mapTab') = {} /\ made' = made
    <3>1. Len(mapTab') = 0 /\ DOMAIN mapTab' = {}
      BY <2>1
    <3> QED
      BY <1>0, <1>1, <3>1 DEF Values
  <2> QED
    BY <2>1, <2>2, RememberedLess
<1>10. CASE Parse \/ DeleteCtxs \/ DeleteConfs \/ SelectRoot \/ SelectConf \/ SelectCtx
            \/ Return \/ Exit \/ Die \/ Rerun
  <2>1. ctxTab' \subseteq ctxTab /\ confTab' \subseteq confTab
        /\ UNCHANGED <<mapTab, lastCtx, lastConf>>
    BY <1>10 DEF Parse, OpenLine, CloseLine, BadClose, DirLine, EndOfFile, DeleteCtxs,
                 DeleteConfs, SelectRoot, SelectConf, SelectCtx, Return, Exit, Die, Rerun, tables
  <2>2. made' = made /\ Values(mapTab') \subseteq Values(mapTab)
    BY <1>2, <2>1
  <2> QED
    BY <2>1, <2>2, RememberedLess
<1> QED
  BY <1>5, <1>6, <1>7, <1>8, <1>9, <1>10 DEF ImporterStep, Step, Statement

(* The tables are finite. *)
Finite == IsFiniteSet(ctxTab) /\ IsFiniteSet(confTab)

LEMMA FiniteNext == Finite /\ [Next]_vars => Finite'
<1> SUFFICES ASSUME Finite, [Next]_vars PROVE Finite'
  OBVIOUS
<1>1. ASSUME NEW parent, NEW label, InsertCtxRow(parent, label) PROVE Finite'
  BY <1>1, FS_AddElement DEF InsertCtxRow, Finite
<1>2. CASE InsertRoot
  BY <1>1, <1>2 DEF InsertRoot
<1>3. CASE InsertCtx
  BY <1>1, <1>3 DEF InsertCtx
<1>4. CASE InsertConf
  BY <1>4, FS_AddElement DEF InsertConf, Finite
<1>5. CASE DeleteCtxs
  BY <1>5, FS_EmptySet DEF DeleteCtxs, Finite
<1>6. CASE DeleteConfs
  BY <1>6, FS_EmptySet DEF DeleteConfs, Finite
<1>7. CASE Parse \/ DeleteMaps \/ SelectRoot \/ SelectConf \/ InsertMap \/ SelectCtx
           \/ Return \/ Exit \/ Die \/ Rerun \/ UNCHANGED vars
  <2>1. UNCHANGED <<ctxTab, confTab>>
    BY <1>7 DEF Parse, OpenLine, CloseLine, BadClose, DirLine, EndOfFile, DeleteMaps, SelectRoot,
                SelectConf, InsertMap, SelectCtx, Return, Exit, Die, Rerun, tables, vars
  <2> QED
    BY <2>1 DEF Finite
<1> QED
  BY <1>2, <1>3, <1>4, <1>5, <1>6, <1>7 DEF Next, Step, Statement

-----------------------------------------------------------------------------
(* The text of the exporter. *)

Tags == {Shown[l] : l \in Labels} \union {Blank}

TextLine == [kind : {"open", "dir", "close"}, ctx : Nat, conf : Nat, what : Tags \union Dir]

(* The calls that know the tag of their context, and the tags that are open  *)
(* within these calls: the outermost prints none.                            *)
RowsRead(w) == IF w # <<>> /\ w[Len(w)].at = "row" THEN Len(w) - 1 ELSE Len(w)

Around(w) == [k \in 1..(RowsRead(w) - 1) |-> w[k + 1].label]

(* A directive within these tags is one that was imported with the last. *)
Fits(S, tags, d) ==
  \/ tags # <<>> /\ Last(tags) = Blank
  \/ \E m \in S : /\ m[2] = d
                  /\ IF tags = <<>> THEN m[1] = Default ELSE Shown[m[1]] = Last(tags)

AllFit(S, ls) ==
  \A i \in 1..Len(ls) : ls[i].kind = "dir" => Fits(S, OpenTags(ls)[i], ls[i].what)

Printed ==
  /\ text \in Seq(TextLine)
  /\ OpenTags(text)[Len(text)] = Around(walk)
  /\ AllFit(made, text)
  /\ step = "start" => walk = <<>>

(* A call that has a tag has that of its row, or of none; the outermost is   *)
(* that of a default context, or of none.                                    *)
CallNamed(lab, c) ==
  c.at # "row" => c.label = Blank \/ (c.id \in 1..lastCtx /\ c.label = Shown[lab[c.id]])

RootNamed(lab, c) == c.id = Null \/ (c.id \in 1..lastCtx /\ lab[c.id] = Default)

WalkNamed(lab) ==
  /\ \A k \in 1..Len(walk) : CallNamed(lab, walk[k]) /\ (k < Len(walk) => walk[k].at = "loop")
  /\ walk # <<>> => RootNamed(lab, walk[1])

(* The directives in these new lines fit, behind those before. *)
NewFit(S, ls, new) ==
  \A j \in 1..Len(new) :
    new[j].kind = "dir" => Fits(S, OpenTags(ls \o new)[Len(ls) + j], new[j].what)

LEMMA AllFitMore ==
  ASSUME NEW S, NEW T, NEW ls \in Seq(T), NEW new \in Seq(T), AllFit(S, ls), NewFit(S, ls, new)
  PROVE  AllFit(S, ls \o new)
<1>0. Len(ls) \in Nat /\ Len(new) \in Nat /\ ls \o new \in Seq(T)
  BY ConcatProperties
<1>1. PICK n \in Nat, m \in Nat, all \in Seq(T) :
        n = Len(ls) /\ m = Len(new) /\ all = ls \o new
  BY ONLY <1>0, Zenon
<1>2. /\ Len(all) = n + m
      /\ \A i \in 1..n + m : all[i] = IF i <= n THEN ls[i] ELSE new[i - n]
  BY <1>1, ConcatProperties
<1>3. Continues(OpenTags(ls), OpenTags(all), n, new)
  BY <1>1, OpenTagsMore
<1> SUFFICES ASSUME NEW i \in 1..(n + m), all[i].kind = "dir"
             PROVE  Fits(S, OpenTags(all)[i], all[i].what)
  BY <1>1, <1>2 DEF AllFit
<1>4. CASE i <= n
  <2>1. i \in 0..n /\ i \in 1..Len(ls) /\ all[i] = ls[i]
    BY <1>1, <1>2, <1>4
  <2>2. OpenTags(all)[i] = OpenTags(ls)[i]
    BY <1>3, <2>1 DEF Continues
  <2> QED
    BY <2>1, <2>2 DEF AllFit
<1>5. CASE ~(i <= n)
  <2>1. i - n \in 1..m /\ n + (i - n) = i
    BY <1>5
  <2>2. all[i] = new[i - n]
    BY <1>2, <1>5
  <2>3. new[i - n].kind = "dir" => Fits(S, OpenTags(all)[n + (i - n)], new[i - n].what)
    BY <1>1, <2>1 DEF NewFit
  <2> QED
    BY <2>1, <2>2, <2>3
<1> QED
  BY <1>4, <1>5

(* The open tags, when a call has read its row, and when it returns. *)
LEMMA AroundSame ==
  ASSUME NEW v, NEW w, NEW r \in Nat, RowsRead(v) = r, RowsRead(w) = r,
         \A k \in 1..r : w[k].label = v[k].label
  PROVE  Around(w) = Around(v)
<1>1. \A k \in 1..(r - 1) : k + 1 \in 1..r
  OBVIOUS
<1> QED
  BY <1>1 DEF Around

LEMMA AroundNone ==
  ASSUME NEW w, RowsRead(w) \in {0, 1}
  PROVE  Around(w) = <<>>
<1>1. 1..(RowsRead(w) - 1) = {}
  OBVIOUS
<1> QED
  BY <1>1 DEF Around

LEMMA AroundMore ==
  ASSUME NEW v, NEW w, NEW r \in Nat \ {0}, RowsRead(v) = r, RowsRead(w) = r + 1,
         \A k \in 1..r : w[k].label = v[k].label
  PROVE  /\ Around(w) = Append(Around(v), w[r + 1].label)
         /\ Around(v) = Front(Around(w)) /\ Around(w) # <<>>
         /\ Last(Around(w)) = w[r + 1].label
<1>1. PICK m \in Nat : m = r - 1 /\ m + 1 = r
  OBVIOUS
<1>2. \A k \in 1..m : k + 1 \in 1..r
  BY <1>1
<1>3. Around(v) = [k \in 1..m |-> v[k + 1].label]
  BY <1>1 DEF Around
<1>4. Around(w) = [k \in 1..(m + 1) |-> w[k + 1].label]
  BY <1>1 DEF Around
<1> DEFINE S == {w[k + 1].label : k \in 1..(m + 1)}
<1>5. Around(w) \in Seq(S) /\ Len(Around(w)) = m + 1 /\ Around(w)[m + 1] = w[m + 2].label
  <2>1. \A k \in 1..(m + 1) : w[k + 1].label \in S
    OBVIOUS
  <2> HIDE DEF S
  <2>2. [k \in 1..(m + 1) |-> w[k + 1].label] \in [1..(m + 1) -> S]
    BY ONLY <2>1
  <2>3. Around(w) \in [1..(m + 1) -> S] /\ m + 1 \in Nat
    BY <1>4, <2>2
  <2>4. m + 1 \in 1..(m + 1) /\ (m + 1) + 1 = m + 2
    OBVIOUS
  <2>5. Around(w)[m + 1] = w[m + 2].label
    BY ONLY <1>4, <2>4
  <2>6. Around(w) \in Seq(S) /\ Len(Around(w)) = m + 1
    BY ONLY <2>3
  <2> QED
    BY <2>5, <2>6
<1>6. Around(v) \in Seq(S) /\ Len(Around(v)) = m
  <2>1. \A k \in 1..m : v[k + 1].label \in S
    <3> SUFFICES ASSUME NEW k \in 1..m PROVE v[k + 1].label \in S
      OBVIOUS
    <3>1. k \in 1..(m + 1) /\ v[k + 1].label = w[k + 1].label
      BY <1>2
    <3> QED
      BY <3>1
  <2> HIDE DEF S
  <2>2. [k \in 1..m |-> v[k + 1].label] \in [1..m -> S]
    BY ONLY <2>1
  <2>3. Around(v) \in [1..m -> S]
    BY <1>3, <2>2
  <2> QED
    BY ONLY <2>3, m \in Nat
<1>7. \A k \in 1..m : Around(w)[k] = Around(v)[k]
  <2> SUFFICES ASSUME NEW k \in 1..m PROVE Around(w)[k] = Around(v)[k]
    OBVIOUS
  <2>1. k \in 1..(m + 1) /\ v[k + 1].label = w[k + 1].label
    BY <1>2
  <2>2. Around(w)[k] = w[k + 1].label
    BY ONLY <1>4, <2>1
  <2>3. Around(v)[k] = v[k + 1].label
    BY ONLY <1>3, k \in 1..m
  <2> QED
    BY <2>1, <2>2, <2>3
<1> HIDE DEF S
<1>8. Around(w) # <<>> /\ Last(Around(w)) = w[r + 1].label /\ m + 2 = r + 1
  BY <1>1, <1>5 DEF Last
<1>9. Around(w) = Append(Around(v), w[r + 1].label)
  BY <1>5, <1>6, <1>7, <1>8
<1>10. Around(v) = Front(Around(w))
  BY <1>5, <1>6, <1>9 DEF Front
<1> QED
  BY <1>8, <1>9, <1>10

LEMMA AroundTop ==
  ASSUME NEW w, NEW r \in Nat \ {0}, RowsRead(w) = r + 1
  PROVE  Around(w) # <<>> /\ Last(Around(w)) = w[r + 1].label
<1>1. PICK m \in Nat : m = r - 1 /\ m + 1 = r /\ m + 2 = r + 1
  OBVIOUS
<1>2. Around(w) = [k \in 1..(m + 1) |-> w[k + 1].label]
  BY <1>1 DEF Around
<1>3. PICK l \in Nat \ {0} : l = m + 1 /\ l + 1 = r + 1
  BY <1>1
<1>4. Around(w) = [k \in 1..l |-> w[k + 1].label]
  BY <1>2, <1>3
<1> DEFINE S == {w[k + 1].label : k \in 1..l}
<1>5. \A k \in 1..l : w[k + 1].label \in S
  OBVIOUS
<1> HIDE DEF S
<1>6. [k \in 1..l |-> w[k + 1].label] \in [1..l -> S]
  BY ONLY <1>5
<1>7. Around(w) \in [1..l -> S]
  BY <1>4, <1>6
<1>8. Len(Around(w)) = l /\ l \in 1..l
  BY ONLY <1>7, l \in Nat \ {0}
<1>9. Around(w)[l] = w[l + 1].label
  BY ONLY <1>4, <1>8
<1>10. Around(w) # <<>>
  BY ONLY <1>8, l \in Nat \ {0}
<1> QED
  BY <1>3, <1>8, <1>9, <1>10 DEF Last

(* Only the innermost call changes. *)
LEMMA TopNamed ==
  ASSUME Reads, walk # <<>>, NEW n \in Nat \ {0}, n = Len(walk), NEW call \in ExportCall,
         Export!SetTop(call), call.id = walk[n].id,
         NEW lab, WalkNamed(lab), CallNamed(lab, call), lastCtx' = lastCtx
  PROVE  /\ WalkNamed(lab)' /\ walk' # <<>>
         /\ Len(walk') = n /\ walk'[n] = call /\ \A k \in 1..(n - 1) : walk'[k] = walk[k]
<1>1. walk \in Seq(ExportCall) /\ walk' = [walk EXCEPT ![n] = call]
  BY DEF Reads, Export!SetTop
<1>2. Len(walk') = n /\ walk'[n] = call /\ \A k \in 1..n : k # n => walk'[k] = walk[k]
  BY <1>1
<1>3. walk' # <<>> /\ \A k \in 1..(n - 1) : walk'[k] = walk[k]
  BY <1>1, <1>2
<1>4. ASSUME NEW k \in 1..n
      PROVE  CallNamed(lab, walk'[k]) /\ (k < n => walk'[k].at = "loop")
  <2>1. CASE k = n
    BY <1>2, <2>1
  <2>2. CASE k # n
    BY <1>2, <2>2 DEF WalkNamed
  <2> QED
    BY <2>1, <2>2
<1>5. RootNamed(lab, walk'[1])
  <2>1. walk'[1].id = walk[1].id
    BY <1>2
  <2> QED
    BY <2>1 DEF WalkNamed, RootNamed
<1> HIDE DEF Reads
<1>6. WalkNamed(lab)'
  BY <1>2, <1>4, <1>5 DEF WalkNamed, CallNamed, RootNamed
<1> QED
  BY <1>2, <1>3, <1>6

(* The innermost call, and which calls have read their row. *)
LEMMA TopRead ==
  ASSUME Reads, walk # <<>>
  PROVE  \E n \in Nat \ {0} :
           /\ n = Len(walk) /\ n \in 1..n /\ Export!Top = walk[n] /\ walk[n] \in ExportCall
           /\ RowsRead(walk) = IF walk[n].at = "row" THEN n - 1 ELSE n
<1>1. Len(walk) \in Nat \ {0} /\ Len(walk) \in 1..Len(walk) /\ walk[Len(walk)] \in ExportCall
  BY DEF Reads
<1>2. PICK n \in Nat \ {0} : n = Len(walk)
  BY ONLY <1>1, Zenon
<1> QED
  BY <1>1, <1>2 DEF Export!Top, RowsRead

(* The outermost call begins. *)
LEMMA NamedRoot ==
  ASSUME Typed, NEW lab, NEW dir, Remembered(lab, dir), Printed, UNCHANGED <<vars, made>>,
         Export!SelectRoot
  PROVE  WalkNamed(lab)' /\ Printed'
<1>1. PICK id \in IF Export!Parentless = {} THEN {Null} ELSE Export!Parentless :
        walk' = <<Export!NewCall(id)>>
  BY DEF Export!SelectRoot
<1>2. walk = <<>> /\ text' = text /\ step' = "collect" /\ made' = made /\ lastCtx' = lastCtx
  BY DEF Export!SelectRoot, Printed, vars
<1>3. /\ Len(walk') = 1 /\ walk'[1] = Export!NewCall(id) /\ walk' # <<>>
      /\ walk'[1].at = "row" /\ walk'[1].id = id
  BY <1>1 DEF Export!NewCall
<1>4. RootNamed(lab, walk'[1])
  <2>1. id = Null \/ \E r \in ctxTab : r.parent = Null /\ r.id = id
    BY <1>1 DEF Export!Parentless
  <2>2. id = Null \/ (id \in 1..lastCtx /\ lab[id] = Default)
    BY <2>1 DEF Remembered
  <2> QED
    BY <1>3, <2>2 DEF RootNamed
<1>5. WalkNamed(lab)'
  BY <1>2, <1>3, <1>4 DEF WalkNamed, CallNamed, RootNamed
<1>6. RowsRead(walk) = 0 /\ RowsRead(walk') = 0
  BY <1>2, <1>3 DEF RowsRead
<1>7. Around(walk') = Around(walk)
  BY <1>6, AroundNone
<1>8. Printed'
  BY <1>2, <1>7 DEF Printed
<1> QED
  BY <1>5, <1>8

(* One more tag. *)
Ends(ls, tags) == OpenTags(ls)[Len(ls)] = tags

LEMMA TextTag ==
  ASSUME NEW S, NEW ls \in Seq(TextLine), NEW l \in TextLine, l.kind # "dir", AllFit(S, ls),
         NEW tags, Ends(ls, tags)
  PROVE  /\ ls \o << l >> \in Seq(TextLine) /\ AllFit(S, ls \o << l >>)
         /\ Ends(ls \o << l >>, After(tags, l))
<1>1. PICK all : all = ls \o << l >>
  OBVIOUS
<1>2. Len(ls) \in Nat
  OBVIOUS
<1>3. PICK n \in Nat : n = Len(ls)
  BY ONLY <1>2, Zenon
<1>4. PICK new \in Seq(TextLine) : new = << l >>
  <2>1. << l >> \in Seq(TextLine)
    OBVIOUS
  <2> QED
    BY ONLY <2>1, Zenon
<1>5. Len(new) = 1 /\ new[1] = l /\ 1 \in 1..1
  BY <1>4
<1>6. all = ls \o new
  BY <1>1, <1>4
<1>7. Len(all) = n + 1 /\ all \in Seq(TextLine)
  <2>1. ls \o new \in Seq(TextLine) /\ Len(ls \o new) = Len(ls) + Len(new)
    BY ConcatProperties
  <2> QED
    BY ONLY <1>3, <1>5, <1>6, <2>1
<1>8. Continues(OpenTags(ls), OpenTags(all), n, new)
  BY <1>3, <1>6, OpenTagsMore
<1>9. OpenTags(all)[n] = OpenTags(ls)[n] /\ OpenTags(all)[n + 1] = After(OpenTags(all)[n + 1 - 1], l)
  <2>1. n \in 0..n
    OBVIOUS
  <2> QED
    BY <1>5, <1>8, <2>1 DEF Continues
<1>10. Ends(all, After(tags, l))
  <2>1. n + 1 - 1 = n
    OBVIOUS
  <2> QED
    BY <1>3, <1>7, <1>9, <2>1 DEF Ends
<1>11. NewFit(S, ls, new)
  BY <1>5 DEF NewFit
<1>12. AllFit(S, all)
  BY <1>6, <1>11, AllFitMore
<1> QED
  BY <1>1, <1>7, <1>10, <1>12

(* The tag of the row with this id, if there is one. *)
LEMMA RowLabel ==
  ASSUME NEW lab, NEW dir, Remembered(lab, dir), NEW id
  PROVE  LET l == Export!LabelOf(id) IN
         l \in Tags /\ (l = Blank \/ (id \in 1..lastCtx /\ l = Shown[lab[id]]))
<1>1. CASE \E r \in ctxTab : r.id = id
  <2>1. PICK r \in ctxTab : r = CHOOSE s \in ctxTab : s.id = id
    BY <1>1
  <2>2. r.id = id
    BY <1>1, <2>1
  <2>3. Export!LabelOf(id) = Shown[r.label]
    BY <1>1, <2>1 DEF Export!LabelOf
  <2>4. id \in 1..lastCtx /\ r.label = lab[id] /\ lab[id] \in Labels
    BY <2>2 DEF Remembered
  <2> QED
    BY <2>3, <2>4 DEF Tags
<1>2. CASE ~ \E r \in ctxTab : r.id = id
  <2>1. Export!LabelOf(id) = Blank
    BY <1>2 DEF Export!LabelOf
  <2> QED
    BY <2>1 DEF Tags
<1> QED
  BY <1>1, <1>2

(* The tags of the exporter are lines of its text. *)
LEMMA TagTyped ==
  ASSUME NEW kind \in {"open", "close"}, NEW id \in Nat, NEW label \in Tags
  PROVE  LET l == Export!Tag(kind, id, label) IN
         l \in TextLine /\ l.kind = kind /\ l.what = label
  BY DEF Export!Tag, TextLine, Null

(* A call reads its row. *)
LEMMA NamedRow ==
  ASSUME Reads, NEW lab, NEW dir, Remembered(lab, dir), WalkNamed(lab), Printed,
         UNCHANGED <<vars, made>>, Export!SelectRow
  PROVE  WalkNamed(lab)' /\ Printed'
<1>1. walk # <<>> /\ lastCtx' = lastCtx /\ made' = made /\ step' = step /\ step = "collect"
  BY DEF Export!SelectRow, Export!At, vars
<1>2. PICK n \in Nat \ {0} :
        /\ n = Len(walk) /\ n \in 1..n /\ Export!Top = walk[n] /\ walk[n] \in ExportCall
        /\ RowsRead(walk) = IF walk[n].at = "row" THEN n - 1 ELSE n
  BY <1>1, TopRead
<1>3. PICK label : label = Export!LabelOf(walk[n].id)
  OBVIOUS
<1>4. label \in Tags /\ (label = Blank \/ (walk[n].id \in 1..lastCtx /\ label = Shown[lab[walk[n].id]]))
  BY <1>3, RowLabel
<1> DEFINE call == [walk[n] EXCEPT !.at = "dirs", !.label = label]
<1>5. walk[n].at = "row" /\ Export!SetTop(call) /\ walk[n].id \in Nat
  BY <1>2, <1>3 DEF Export!SelectRow, Export!At, ExportCall
<1>6. call \in ExportCall /\ call.id = walk[n].id /\ call.at = "dirs" /\ call.label = label
  BY <1>2, <1>4 DEF ExportCall, Tags
<1> HIDE DEF call
<1>7. CallNamed(lab, call)
  BY <1>4, <1>6 DEF CallNamed
<1>8. /\ WalkNamed(lab)' /\ walk' # <<>>
      /\ Len(walk') = n /\ walk'[n] = call /\ \A k \in 1..(n - 1) : walk'[k] = walk[k]
  BY <1>1, <1>2, <1>5, <1>6, <1>7, TopNamed
<1>9. RowsRead(walk) = n - 1 /\ RowsRead(walk') = n
  BY <1>2, <1>5, <1>6, <1>8 DEF RowsRead
<1>10. CASE n = 1
  <2>1. text' = text \o <<>>
    BY <1>2, <1>10 DEF Export!SelectRow, Export!Tagged
  <2>2. text' = text
    BY <2>1 DEF Printed
  <2>3. Around(walk') = Around(walk)
    BY <1>9, <1>10, AroundNone
  <2>4. Printed'
    BY <1>1, <2>2, <2>3 DEF Printed
  <2> QED
    BY <1>8, <2>4
<1>11. CASE n # 1
  <2>1. PICK l \in TextLine : /\ l = Export!Tag("open", walk[n].id, label)
                              /\ l.kind = "open" /\ l.what = label
    BY <1>4, <1>5, TagTyped
  <2>2. text' = text \o << l >>
    BY <1>2, <1>3, <1>11, <2>1 DEF Export!SelectRow, Export!Tagged
  <2>3. /\ text' \in Seq(TextLine) /\ AllFit(made, text')
        /\ OpenTags(text')[Len(text')] = After(Around(walk), l)
    <3>1. text \in Seq(TextLine) /\ AllFit(made, text) /\ Ends(text, Around(walk)) /\ l.kind # "dir"
      BY <2>1 DEF Printed, Ends
    <3>2. Ends(text', After(Around(walk), l)) /\ text' \in Seq(TextLine) /\ AllFit(made, text')
      BY <2>1, <2>2, <3>1, TextTag
    <3> QED
      BY <3>2 DEF Ends
  <2>4. PICK r \in Nat \ {0} : r = n - 1 /\ r + 1 = n
    BY <1>11
  <2>5. Around(walk') = Append(Around(walk), walk'[r + 1].label)
    BY <1>8, <1>9, <2>4, AroundMore
  <2>6. OpenTags(text')[Len(text')] = Around(walk')
    BY <1>6, <1>8, <2>1, <2>3, <2>4, <2>5 DEF After, Printed
  <2>7. Printed'
    BY <1>1, <2>3, <2>6 DEF Printed
  <2> QED
    BY <1>8, <2>7
<1> QED
  BY <1>10, <1>11

(* The answer to the join, in any order: its rows, one after the other. *)
LEMMA SameCountExport == \A S : Export!Cardinality(S) = Cardinality(S)
  BY DEF Export!Cardinality, Cardinality

LEMMA JoinFinite ==
  ASSUME Typed, Finite, NEW id
  PROVE  IsFiniteSet(Export!Join(id))
<1>1. DOMAIN mapTab = 1..Len(mapTab) /\ Len(mapTab) \in Nat
  BY DEF Typed, TypeOK
<1>2. IsFiniteSet(DOMAIN mapTab)
  <2>1. IsFiniteSet(1..Len(mapTab))
    BY ONLY <1>1, FS_Interval
  <2> QED
    BY <1>1, <2>1
<1>3. IsFiniteSet((DOMAIN mapTab) \X confTab)
  BY <1>2, FS_Product DEF Finite
<1>4. Export!Join(id) \subseteq (DOMAIN mapTab) \X confTab
  BY DEF Export!Join
<1> QED
  BY <1>3, <1>4, FS_Subset

LEMMA JoinRows ==
  ASSUME Typed, Finite, NEW id, NEW rows \in Export!SetToSeqs(Export!Join(id))
  PROVE  \E m \in Nat : DOMAIN rows = 1..m /\ \A j \in 1..m : rows[j] \in Export!Join(id)
<1>1. PICK J : J = Export!Join(id)
  OBVIOUS
<1>2. PICK m \in Nat : m = Export!Cardinality(J)
  BY <1>1, JoinFinite, SameCountExport, FS_CardinalityType
<1>3. rows \in [1..m -> J]
  BY <1>1, <1>2 DEF Export!SetToSeqs
<1> QED
  BY <1>1, <1>3

(* A call reads its directives. *)
LEMMA NamedDirs ==
  ASSUME Typed, Reads, Finite, NEW lab, NEW dir, Remembered(lab, dir), WalkNamed(lab), Printed,
         UNCHANGED <<vars, made>>, Export!SelectDirs
  PROVE  WalkNamed(lab)' /\ Printed'
<1>1. walk # <<>> /\ lastCtx' = lastCtx /\ made' = made /\ step' = step /\ step = "collect"
  BY DEF Export!SelectDirs, Export!At, vars
<1>2. PICK n \in Nat \ {0} :
        /\ n = Len(walk) /\ n \in 1..n /\ Export!Top = walk[n] /\ walk[n] \in ExportCall
        /\ RowsRead(walk) = IF walk[n].at = "row" THEN n - 1 ELSE n
  BY <1>1, TopRead
<1>3. PICK id \in Nat : id = walk[n].id
  BY <1>2 DEF ExportCall
<1> DEFINE call == [walk[n] EXCEPT !.at = "ctxs"]
<1>4. walk[n].at = "dirs" /\ Export!SetTop(call)
  BY <1>2 DEF Export!SelectDirs, Export!At
<1>5. call \in ExportCall /\ call.id = walk[n].id /\ call.at = "ctxs" /\ call.label = walk[n].label
  BY <1>2 DEF ExportCall
<1>6. CallNamed(lab, walk[n]) /\ RootNamed(lab, walk[1])
  BY <1>1, <1>2 DEF WalkNamed
<1> HIDE DEF call
<1>7. CallNamed(lab, call)
  BY <1>4, <1>5, <1>6 DEF CallNamed
<1>8. /\ WalkNamed(lab)' /\ walk' # <<>>
      /\ Len(walk') = n /\ walk'[n] = call /\ \A k \in 1..(n - 1) : walk'[k] = walk[k]
  BY <1>1, <1>2, <1>4, <1>5, <1>7, TopNamed
<1>9. RowsRead(walk) = n /\ RowsRead(walk') = n
  BY <1>2, <1>4, <1>5, <1>8 DEF RowsRead
<1>10. Around(walk') = Around(walk)
  <2>1. \A k \in 1..n : walk'[k].label = walk[k].label
    BY <1>5, <1>8
  <2> QED
    BY <1>9, <2>1, AroundSame
<1>11. PICK rows \in Export!SetToSeqs(Export!Join(id)) :
         text' = text \o [i \in DOMAIN rows |-> Export!Directive(id, rows[i][2])]
  BY <1>2, <1>3 DEF Export!SelectDirs
<1>12. PICK m \in Nat : DOMAIN rows = 1..m /\ \A j \in 1..m : rows[j] \in Export!Join(id)
  BY <1>11, JoinRows
<1>13. PICK new : new = [i \in 1..m |-> Export!Directive(id, rows[i][2])]
  OBVIOUS
<1>14. text' = text \o new
  BY <1>11, <1>12, <1>13
(* What the lines say. *)
<1>15. ASSUME NEW j \in 1..m
       PROVE  /\ new[j] \in TextLine /\ new[j].kind = "dir"
              /\ id \in 1..lastCtx /\ <<lab[id], new[j].what>> \in made
  <2>1. PICK p \in (DOMAIN mapTab) \X confTab :
          p = rows[j] /\ mapTab[p[1]].ctx = id /\ mapTab[p[1]].conf = p[2].id
    BY <1>12 DEF Export!Join
  <2>2. PICK x \in Values(mapTab), c \in confTab : x.ctx = id /\ x.conf = c.id /\ c = rows[j][2]
    BY <2>1 DEF Values
  <2>3. id \in 1..lastCtx /\ <<lab[id], dir[x.conf]>> \in made /\ dir[x.conf] = c.dir
    BY <2>2 DEF Remembered
  <2>4. new[j] = Export!Directive(id, c)
    BY <1>13, <2>2
  <2>5. c.id \in Nat /\ c.dir \in Dir
    BY DEF Typed, TypeOK, ConfRow
  <2>6. new[j] \in TextLine /\ new[j].kind = "dir" /\ new[j].what = c.dir
    BY <1>3, <2>4, <2>5 DEF Export!Directive, TextLine
  <2> QED
    BY <2>3, <2>6
<1>16. new \in Seq(TextLine) /\ Len(new) = m
  <2>1. new \in [1..m -> TextLine]
    BY <1>13, <1>15
  <2> QED
    BY ONLY <2>1, m \in Nat
<1>17. PICK len \in Nat : len = Len(text)
  <2>1. Len(text) \in Nat
    BY DEF Printed
  <2> QED
    BY ONLY <2>1, Zenon
<1>18. text \in Seq(TextLine) /\ AllFit(made, text) /\ OpenTags(text)[len] = Around(walk)
  BY <1>17 DEF Printed
<1>19. text' \in Seq(TextLine) /\ Len(text') = len + m
  BY <1>14, <1>16, <1>17, <1>18, ConcatProperties
<1>20. \A j \in 0..m : OpenTags(text')[len + j] = Around(walk)
  <2>1. Continues(OpenTags(text), OpenTags(text'), len, new)
    BY <1>14, <1>16, <1>17, <1>18, OpenTagsMore
  <2>2. AllDirs(new)
    BY <1>15, <1>16 DEF AllDirs
  <2>3. Stays(OpenTags(text), OpenTags(text'), len, new)
    BY <2>1, <2>2, OpenTagsDirs
  <2> QED
    BY <1>16, <1>18, <2>3 DEF Stays
(* They are directives of the innermost tag. *)
<1>21. ASSUME NEW j \in 1..m
       PROVE  Fits(made, Around(walk), new[j].what)
  <2>1. id \in 1..lastCtx /\ <<lab[id], new[j].what>> \in made
    BY <1>15
  <2>2. CASE n = 1
    <3>1. id # Null
      BY <1>3, <2>1 DEF Null
    <3>2. lab[id] = Default
      BY <1>3, <1>6, <2>2, <3>1 DEF RootNamed
    <3>3. Around(walk) = <<>>
      BY <1>9, <2>2, AroundNone
    <3> QED
      BY <2>1, <3>2, <3>3 DEF Fits
  <2>3. CASE n # 1
    <3>1. PICK r \in Nat \ {0} : r = n - 1 /\ r + 1 = n
      BY <2>3
    <3>2. Around(walk) # <<>> /\ Last(Around(walk)) = walk[n].label
      BY <1>9, <3>1, AroundTop
    <3>3. walk[n].label = Blank \/ walk[n].label = Shown[lab[id]]
      BY <1>3, <1>4, <1>6 DEF CallNamed
    <3> QED
      BY <2>1, <3>2, <3>3 DEF Fits
  <2> QED
    BY <2>2, <2>3
<1>22. NewFit(made, text, new)
  <2>1. \A j \in 1..m : j \in 0..m
    OBVIOUS
  <2> QED
    BY <1>14, <1>16, <1>17, <1>20, <1>21, <2>1 DEF NewFit
<1>23. AllFit(made, text')
  BY <1>14, <1>16, <1>18, <1>22, AllFitMore
<1>24. OpenTags(text')[Len(text')] = Around(walk')
  <2>1. m \in 0..m
    OBVIOUS
  <2> QED
    BY <1>10, <1>19, <1>20, <2>1
<1>25. Printed'
  BY <1>1, <1>19, <1>23, <1>24 DEF Printed
<1> QED
  BY <1>8, <1>25

(* A call reads its sub-contexts, and enters one of them. *)
LEMMA NamedCtxs ==
  ASSUME Typed, Reads, NEW lab, WalkNamed(lab), Printed, UNCHANGED <<vars, made>>,
         Export!SelectCtxs
  PROVE  WalkNamed(lab)' /\ Printed'
<1>1. /\ walk # <<>> /\ lastCtx' = lastCtx /\ made' = made /\ step' = step /\ text' = text
      /\ step = "collect"
  BY DEF Export!SelectCtxs, Export!At, vars
<1>2. PICK n \in Nat \ {0} :
        /\ n = Len(walk) /\ n \in 1..n /\ Export!Top = walk[n] /\ walk[n] \in ExportCall
        /\ RowsRead(walk) = IF walk[n].at = "row" THEN n - 1 ELSE n
  BY <1>1, TopRead
<1>3. PICK subs \in SUBSET Nat : subs = Export!Children(walk[n].id)
  <2>1. ctxTab \subseteq CtxRow
    BY DEF Typed, TypeOK
  <2> QED
    BY <2>1 DEF Export!Children, CtxRow
<1> DEFINE call == [walk[n] EXCEPT !.at = "loop", !.subs = subs]
<1>4. walk[n].at = "ctxs" /\ Export!SetTop(call)
  BY <1>2, <1>3 DEF Export!SelectCtxs, Export!At
<1>5. call \in ExportCall /\ call.id = walk[n].id /\ call.at = "loop" /\ call.label = walk[n].label
  BY <1>2, <1>3 DEF ExportCall
<1>6. CallNamed(lab, walk[n])
  BY <1>1, <1>2 DEF WalkNamed
<1> HIDE DEF call
<1>7. CallNamed(lab, call)
  BY <1>4, <1>5, <1>6 DEF CallNamed
<1>8. /\ WalkNamed(lab)' /\ walk' # <<>>
      /\ Len(walk') = n /\ walk'[n] = call /\ \A k \in 1..(n - 1) : walk'[k] = walk[k]
  BY <1>1, <1>2, <1>4, <1>5, <1>7, TopNamed
<1>9. RowsRead(walk) = n /\ RowsRead(walk') = n
  BY <1>2, <1>4, <1>5, <1>8 DEF RowsRead
<1>10. Around(walk') = Around(walk)
  <2>1. \A k \in 1..n : walk'[k].label = walk[k].label
    BY <1>5, <1>8
  <2> QED
    BY <1>9, <2>1, AroundSame
<1>11. Printed'
  BY <1>1, <1>10 DEF Printed
<1> QED
  BY <1>8, <1>11

LEMMA NamedEnter ==
  ASSUME Typed, Reads, NEW lab, WalkNamed(lab), Printed, UNCHANGED <<vars, made>>, Export!EnterCtx
  PROVE  WalkNamed(lab)' /\ Printed'
<1>1. /\ walk # <<>> /\ lastCtx' = lastCtx /\ made' = made /\ step' = step /\ text' = text
      /\ step = "collect"
  BY DEF Export!EnterCtx, Export!At, vars
<1>2. PICK n \in Nat \ {0} :
        /\ n = Len(walk) /\ n \in 1..n /\ Export!Top = walk[n] /\ walk[n] \in ExportCall
        /\ RowsRead(walk) = IF walk[n].at = "row" THEN n - 1 ELSE n
  BY <1>1, TopRead
<1>3. PICK s \in walk[n].subs :
        walk' = Append([walk EXCEPT ![n].subs = @ \ {s}], Export!NewCall(s))
  BY <1>1, <1>2 DEF Export!EnterCtx
<1> DEFINE top == [walk[n] EXCEPT !.subs = @ \ {s}]
<1>4. walk[n].at = "loop"
  BY <1>2 DEF Export!EnterCtx, Export!At
<1>5. PICK new \in ExportCall : new = Export!NewCall(s) /\ new.at = "row"
  <2>1. s \in Nat
    BY <1>2 DEF ExportCall
  <2>2. Export!NewCall(s) \in ExportCall /\ Export!NewCall(s).at = "row"
    BY <2>1, NewCallTyped DEF Export!NewCall
  <2> QED
    BY <2>2
<1>6. top \in ExportCall /\ top.id = walk[n].id /\ top.at = "loop" /\ top.label = walk[n].label
  BY <1>2, <1>4 DEF ExportCall
<1>7. walk' = Append([walk EXCEPT ![n] = top], new)
  BY <1>1, <1>3, <1>5
<1> HIDE DEF top
<1>8. /\ Len(walk') = n + 1 /\ walk'[n + 1] = new /\ walk'[n] = top /\ walk' # <<>>
      /\ \A i \in 1..(n - 1) : walk'[i] = walk[i]
  <2>1. /\ walk' \in Seq(ExportCall) /\ Len(walk') = n + 1 /\ walk'[n + 1] = new /\ walk'[n] = top
        /\ \A i \in 1..(n - 1) : walk'[i] = walk[i]
    BY <1>1, <1>2, <1>5, <1>6, <1>7, LastReplacedAndAdded DEF Reads
  <2> QED
    BY <2>1
<1>9. \A k \in 1..n : /\ walk'[k].id = walk[k].id /\ walk'[k].label = walk[k].label
                      /\ walk'[k].at = "loop" /\ walk[k].at = "loop"
  <2> SUFFICES ASSUME NEW k \in 1..n
               PROVE  /\ walk'[k].id = walk[k].id /\ walk'[k].label = walk[k].label
                      /\ walk'[k].at = "loop" /\ walk[k].at = "loop"
    OBVIOUS
  <2>1. CASE k = n
    BY <1>4, <1>6, <1>8, <2>1
  <2>2. CASE k # n
    <3>1. k \in 1..(n - 1) /\ k < n
      BY <2>2
    <3>2. walk[k].at = "loop"
      BY <1>2, <3>1 DEF WalkNamed
    <3> QED
      BY <1>8, <3>1, <3>2
  <2> QED
    BY <2>1, <2>2
<1>10. WalkNamed(lab)'
  <2>1. ASSUME NEW k \in 1..(n + 1)
        PROVE  CallNamed(lab, walk'[k]) /\ (k < n + 1 => walk'[k].at = "loop")
    <3>1. CASE k = n + 1
      BY <1>5, <1>8, <3>1 DEF CallNamed
    <3>2. CASE k # n + 1
      <4>1. k \in 1..n
        BY <3>2
      <4>2. CallNamed(lab, walk[k])
        BY <1>2, <4>1 DEF WalkNamed
      <4> QED
        BY <1>9, <4>1, <4>2 DEF CallNamed
    <3> QED
      BY <3>1, <3>2
  <2>2. RootNamed(lab, walk'[1])
    <3>1. 1 \in 1..n
      OBVIOUS
    <3> QED
      BY <1>1, <1>9, <3>1 DEF WalkNamed, RootNamed
  <2> QED
    BY <1>1, <1>8, <2>1, <2>2 DEF WalkNamed, CallNamed, RootNamed
<1>11. RowsRead(walk) = n /\ RowsRead(walk') = n
  BY <1>2, <1>4, <1>5, <1>8 DEF RowsRead
<1>12. Around(walk') = Around(walk)
  BY <1>9, <1>11, AroundSame
<1>13. Printed'
  BY <1>1, <1>12 DEF Printed
<1> QED
  BY <1>10, <1>13

(* A call returns. *)
LEMMA NamedLeave ==
  ASSUME Reads, NEW lab, WalkNamed(lab), Printed, UNCHANGED <<vars, made>>, Export!LeaveCtx
  PROVE  WalkNamed(lab)' /\ Printed'
<1>1. /\ walk # <<>> /\ lastCtx' = lastCtx /\ made' = made /\ step' = step /\ step = "collect"
  BY DEF Export!LeaveCtx, Export!At, vars
<1>2. PICK n \in Nat \ {0} :
        /\ n = Len(walk) /\ n \in 1..n /\ Export!Top = walk[n] /\ walk[n] \in ExportCall
        /\ RowsRead(walk) = IF walk[n].at = "row" THEN n - 1 ELSE n
  BY <1>1, TopRead
<1>3. walk[n].at = "loop" /\ walk[n].label \in Tags /\ walk[n].id \in Nat
  BY <1>2 DEF Export!LeaveCtx, Export!At, ExportCall, Tags
<1>4. PICK m \in Nat : m = n - 1 /\ n = m + 1
  OBVIOUS
<1>5. /\ walk' \in Seq(ExportCall) /\ Len(walk') = m
      /\ \A k \in 1..m : walk'[k] = walk[k]
  <2>1. walk \in Seq(ExportCall) /\ walk' = SubSeq(walk, 1, Len(walk) - 1)
    BY DEF Reads, Export!LeaveCtx
  <2> QED
    BY <1>1, <1>2, <1>4, <2>1, LastDropped
<1>6. \A k \in 1..m : k \in 1..n /\ CallNamed(lab, walk'[k]) /\ walk'[k].at = "loop"
  BY <1>2, <1>4, <1>5 DEF WalkNamed
<1>7. walk' # <<>> => m # 0 /\ 1 \in 1..m
  BY <1>5
<1>8. WalkNamed(lab)'
  <2>1. walk' # <<>> => RootNamed(lab, walk'[1])
    BY <1>1, <1>5, <1>7 DEF WalkNamed
  <2> QED
    BY <1>1, <1>5, <1>6, <2>1 DEF WalkNamed, CallNamed, RootNamed
<1>9. RowsRead(walk) = m + 1 /\ RowsRead(walk') = m
  <2>1. walk' # <<>> => walk'[Len(walk')].at = "loop"
    BY <1>5, <1>6, <1>7
  <2> QED
    BY <1>2, <1>3, <1>4, <1>5, <2>1 DEF RowsRead
<1>10. CASE n = 1
  <2>1. text' = text \o <<>>
    BY <1>2, <1>10 DEF Export!LeaveCtx, Export!Tagged
  <2>2. text' = text
    BY <2>1 DEF Printed
  <2>3. Around(walk') = Around(walk)
    BY <1>4, <1>9, <1>10, AroundNone
  <2>4. Printed'
    BY <1>1, <2>2, <2>3 DEF Printed
  <2> QED
    BY <1>8, <2>4
<1>11. CASE n # 1
  <2>1. PICK l \in TextLine : l = Export!Tag("close", walk[n].id, walk[n].label) /\ l.kind = "close"
    BY <1>3, TagTyped
  <2>2. text' = text \o << l >>
    BY <1>2, <1>11, <2>1 DEF Export!LeaveCtx, Export!Tagged
  <2>3. /\ text' \in Seq(TextLine) /\ AllFit(made, text')
        /\ OpenTags(text')[Len(text')] = After(Around(walk), l)
    <3>1. text \in Seq(TextLine) /\ AllFit(made, text) /\ Ends(text, Around(walk)) /\ l.kind # "dir"
      BY <2>1 DEF Printed, Ends
    <3>2. Ends(text', After(Around(walk), l)) /\ text' \in Seq(TextLine) /\ AllFit(made, text')
      BY <2>1, <2>2, <3>1, TextTag
    <3> QED
      BY <3>2 DEF Ends
  <2>4. m # 0 /\ \A k \in 1..m : walk[k].label = walk'[k].label
    BY <1>4, <1>5, <1>11
  <2>5. Around(walk') = Front(Around(walk)) /\ Around(walk) # <<>>
    BY <1>9, <2>4, AroundMore
  <2>6. OpenTags(text')[Len(text')] = Around(walk')
    BY <2>1, <2>3, <2>5 DEF After, Printed
  <2>7. Printed'
    BY <1>1, <2>3, <2>6 DEF Printed
  <2> QED
    BY <1>8, <2>7
<1> QED
  BY <1>10, <1>11

(* A step of the importer, and one of a reader. *)
NamesKept == \E lab, dir : Remembered(lab, dir) /\ WalkNamed(lab)

LEMMA NamedImport ==
  ASSUME Typed, Trees, Mapped, NamesKept, Printed, ImporterStep
  PROVE  NamesKept' /\ Printed'
<1>1. PICK lab, dir : Remembered(lab, dir) /\ WalkNamed(lab)
  BY DEF NamesKept
<1>2. PICK l, d : Remembered(l, d)' /\ Extends(lab, l)
  BY <1>1, RememberedNext
<1>3. UNCHANGED <<walk, text, step>> /\ made \subseteq made'
  BY DEF ImporterStep, readVars, exportVars
<1>4. WalkNamed(l)'
  BY <1>1, <1>2, <1>3 DEF WalkNamed, CallNamed, RootNamed, Extends
<1>5. AllFit(made', text)
  BY <1>3 DEF Printed, AllFit, Fits
<1>6. Printed'
  BY <1>3, <1>5 DEF Printed
<1> QED
  BY <1>2, <1>4, <1>6 DEF NamesKept

LEMMA NamedExport ==
  ASSUME Typed, Reads, Finite, NamesKept, Printed, UNCHANGED <<vars, made>>,
         Export!Next \/ UNCHANGED exportVars
  PROVE  NamesKept' /\ Printed'
<1>1. PICK lab, dir : Remembered(lab, dir) /\ WalkNamed(lab)
  BY DEF NamesKept
<1>2. UNCHANGED <<lastCtx, lastConf, ctxTab, confTab, mapTab, made>>
  BY DEF vars
<1>3. Remembered(lab, dir)'
  BY <1>1, <1>2 DEF Remembered
<1>4. ASSUME UNCHANGED <<walk, text>>, step' # "start" \/ step' = step
      PROVE  WalkNamed(lab)' /\ Printed'
  BY <1>1, <1>2, <1>4 DEF WalkNamed, CallNamed, RootNamed, Printed
<1>5. ASSUME Export!Show \/ Export!Die PROVE WalkNamed(lab)' /\ Printed'
  <2>1. UNCHANGED <<walk, text>> /\ step' # "start"
    BY <1>5 DEF Export!Show, Export!Die
  <2> QED
    BY <1>4, <2>1
<1>6. ASSUME UNCHANGED exportVars PROVE WalkNamed(lab)' /\ Printed'
  BY <1>4, <1>6 DEF exportVars
<1>7. WalkNamed(lab)' /\ Printed'
  BY <1>1, <1>5, <1>6, NamedRoot, NamedRow, NamedDirs, NamedCtxs, NamedEnter, NamedLeave
     DEF Export!Next
<1> QED
  BY <1>3, <1>7 DEF NamesKept

Kept == Orderly /\ Trees /\ Mapped /\ Finite /\ NamesKept /\ Printed

LEMMA KeptInitially == RoundTripInit => Kept
<1> SUFFICES ASSUME RoundTripInit PROVE Kept
  OBVIOUS
<1>1. Init /\ walk = <<>> /\ text = <<>> /\ made = {}
  BY DEF RoundTripInit, Export!Init
<1>2. /\ nodes = <<NewNode(Default)>> /\ ctxs = << 1 >> /\ pc = "parse" /\ calls = <<>>
      /\ ctxTab = {} /\ confTab = {} /\ mapTab = <<>> /\ lastCtx = 0 /\ lastConf = 0
      /\ mapTab = old.maps
  BY <1>1 DEF Init, Started
<1>3. Trees
  BY <1>1 DEF Init, Started, Trees, Numbered, RowsOfCalls, Connected
<1>4. Mapped
  BY <1>2 DEF Mapped, Deletes, RightCalls, MapsRight, NewNode
<1>5. Finite
  BY <1>2, FS_EmptySet DEF Finite
<1>6. NamesKept
  <2> DEFINE lab == [i \in 1..0 |-> Default]
             dir == [i \in 1..0 |-> Default]
  <2>1. lab \in [1..lastCtx -> Labels] /\ dir \in [1..lastConf -> Dir]
    BY <1>2
  <2> HIDE DEF lab, dir
  <2>2. Values(mapTab) = {}
    BY <1>2 DEF Values
  <2>3. Remembered(lab, dir)
    BY <1>2, <2>1, <2>2 DEF Remembered
  <2>4. WalkNamed(lab)
    BY <1>1 DEF WalkNamed
  <2> QED
    BY <2>3, <2>4 DEF NamesKept
<1>7. Printed
  <2>1. text \in Seq(TextLine) /\ Len(text) = 0
    BY <1>1
  <2>2. OpenTags(text)[0] = <<>>
    BY <2>1, OpenTagsIs
  <2>3. Around(walk) = <<>>
    <3>1. RowsRead(walk) = 0
      BY <1>1 DEF RowsRead
    <3> QED
      BY <3>1, AroundNone
  <2> QED
    BY <1>1, <2>1, <2>2, <2>3 DEF Printed, AllFit
<1> QED
  BY <1>3, <1>4, <1>5, <1>6, <1>7, OrderlyInitially DEF Kept

LEMMA KeptNext == Kept /\ [RoundTripNext]_allVars => Kept'
<1> SUFFICES ASSUME Kept, [RoundTripNext]_allVars PROVE Kept'
  OBVIOUS
<1>1. [Next]_vars
  BY ImporterMoves DEF allVars
<1>2. Orderly /\ Trees /\ Mapped /\ Finite /\ NamesKept /\ Printed /\ Typed /\ Reads
  BY DEF Kept, Orderly
<1>3. Orderly' /\ Trees' /\ Mapped' /\ Finite'
  BY <1>1, <1>2, OrderlyNext, TreesNext, MappedNext, FiniteNext
<1>4. NamesKept' /\ Printed'
  <2>1. CASE ImporterStep
    BY <1>2, <2>1, NamedImport
  <2>2. CASE ExportStep
    <3>1. UNCHANGED <<vars, made>> /\ Export!Next
      BY <2>2 DEF ExportStep
    <3> QED
      BY <1>2, <3>1, NamedExport
  <2>3. CASE ServerStep \/ UNCHANGED allVars
    <3>1. UNCHANGED <<vars, made>> /\ UNCHANGED exportVars
      BY <2>3 DEF ServerStep, allVars, readVars
    <3> QED
      BY <1>2, <3>1, NamedExport
  <2> QED
    BY <2>1, <2>2, <2>3 DEF RoundTripNext
<1> QED
  BY <1>3, <1>4 DEF Kept

(* Whatever is imported or deleted between its queries, sql2conf.pl never    *)
(* puts a directive within a tag that it was not imported with: the ids it   *)
(* holds name the row they named when it read them, or none.                 *)
THEOREM NeverMixed == RoundTripSpec => []NoMixture
<1>1. Kept => NoMixture
  <2> SUFFICES ASSUME Kept PROVE NoMixture
    OBVIOUS
  <2>1. AllFit(made, text) /\ DOMAIN text = 1..Len(text)
    BY DEF Kept, Printed
  <2> QED
    BY <2>1 DEF AllFit, Fits, NoMixture
<1> QED
  BY <1>1, KeptInitially, KeptNext, PTL DEF RoundTripSpec

-----------------------------------------------------------------------------
(* What a reader delivers from tables that stand still: all that is below    *)
(* the root it began with.                                                   *)

(* The rows of the contexts with this parent. *)
Under(c) == {r.id : r \in {s \in ctxTab : s.parent = c}}

(* The rows to deliver for a context, and that they are among those in G. *)
Applying(c) ==
  {<<m.ctx, m.conf>> : m \in {n \in Values(mapTab) : /\ n.ctx = c
                                                   /\ \E x \in confTab : x.id = n.conf}}

Paid(G, c) == Applying(c) \subseteq G

(* So it is for the contexts in D, and for those below them. *)
Finished(G, D) == \A c \in D : Paid(G, c) /\ Under(c) \subseteq D

(* A call that came this far has delivered what applies to its context, and  *)
(* knows of the sub-contexts that are neither finished nor being read.       *)
CallOwes(W, k, D, G, root) ==
  /\ W[k].id \in Below(ctxTab, root.id)
  /\ W[k].subs \subseteq Below(ctxTab, root.id)
  /\ W[k].at \in {"ctxs", "loop"} => Paid(G, W[k].id)
  /\ W[k].at = "loop" =>
       \A c \in Under(W[k].id) : c \in D \/ c \in W[k].subs \/ (k < Len(W) /\ c = W[k + 1].id)

(* W are the calls, the innermost last. *)
Owes(W, D, G, root) ==
  /\ Finished(G, D) /\ G \subseteq RowsBelow(root)
  /\ \A k \in 1..Len(W) : CallOwes(W, k, D, G, root)
  /\ IF Len(W) = 0 THEN root.id \in D ELSE W[1].id = root.id

LEMMA BelowRoot ==
  ASSUME NEW root \in ctxTab
  PROVE  root.id \in Below(ctxTab, root.id)
  BY DEF Below

LEMMA BelowKid ==
  ASSUME NEW root, NEW c \in Below(ctxTab, root.id)
  PROVE  Under(c) \subseteq Below(ctxTab, root.id)
  BY DEF Below, Under

LEMMA PaidMore ==
  ASSUME NEW G, NEW H, G \subseteq H, NEW c, Paid(G, c)
  PROVE  Paid(H, c)
  BY DEF Paid

(* Nothing is missing when the outermost call has returned. *)
LEMMA NothingOwed ==
  ASSUME NEW W, Len(W) = 0, NEW D, NEW G, NEW root \in ctxTab, Owes(W, D, G, root)
  PROVE  G = RowsBelow(root)
<1> DEFINE ids == {r.id : r \in ctxTab}
           S == D \intersect ids
<1>1. Finished(G, D) /\ G \subseteq RowsBelow(root) /\ root.id \in D
  BY DEF Owes
<1>2. root.id \in S
  BY <1>1
<1>3. \A r \in ctxTab : r.parent \in S => r.id \in S
  BY <1>1 DEF Finished, Under
<1>4. Below(ctxTab, root.id) \subseteq D
  BY <1>2, <1>3 DEF Below
<1>5. ASSUME NEW m \in Values(mapTab), m.ctx \in Below(ctxTab, root.id),
             \E c \in confTab : c.id = m.conf
      PROVE  <<m.ctx, m.conf>> \in G
  <2>1. m.ctx \in D
    BY <1>4, <1>5
  <2>2. Paid(G, m.ctx)
    BY <1>1, <2>1 DEF Finished
  <2> QED
    BY <1>5, <2>2 DEF Paid, Applying
<1>6. RowsBelow(root) \subseteq G
  BY <1>5 DEF RowsBelow
<1> QED
  BY <1>1, <1>6

(* The innermost call goes on. *)
LEMMA OwesMoved ==
  ASSUME NEW V, NEW W, NEW n \in Nat \ {0}, Len(V) = n, Len(W) = n,
         \A k \in 1..(n - 1) : W[k] = V[k], W[n].id = V[n].id,
         NEW D, NEW G, NEW H, NEW root, Owes(V, D, G, root),
         G \subseteq H, H \subseteq RowsBelow(root), CallOwes(W, n, D, H, root)
  PROVE  Owes(W, D, H, root)
<1>1. Finished(G, D) /\ V[1].id = root.id /\ \A k \in 1..n : CallOwes(V, k, D, G, root)
  BY DEF Owes
<1>2. Finished(H, D)
  BY <1>1, PaidMore DEF Finished
<1>3. ASSUME NEW k \in 1..n PROVE CallOwes(W, k, D, H, root)
  <2>1. CASE k = n
    BY <2>1
  <2>2. CASE k # n
    <3>1. k \in 1..(n - 1) /\ k + 1 \in 1..n /\ k < n
      BY <2>2
    <3>2. W[k] = V[k] /\ W[k + 1].id = V[k + 1].id
      BY <3>1
    <3>3. CallOwes(V, k, D, G, root)
      BY <1>1
    <3>4. Paid(G, V[k].id) => Paid(H, V[k].id)
      BY PaidMore
    <3> QED
      BY <3>1, <3>2, <3>3, <3>4 DEF CallOwes
  <2> QED
    BY <2>1, <2>2
<1>4. W[1].id = root.id
  <2>1. 1 = n \/ 1 \in 1..(n - 1)
    OBVIOUS
  <2> QED
    BY <1>1, <2>1
<1> QED
  BY <1>2, <1>3, <1>4 DEF Owes

(* It calls for a sub-context. *)
LEMMA OwesEntered ==
  ASSUME NEW V, NEW W, NEW n \in Nat \ {0}, Len(V) = n, Len(W) = n + 1,
         \A k \in 1..(n - 1) : W[k] = V[k], W[n].id = V[n].id, W[n].at = "loop", V[n].at = "loop",
         NEW s \in V[n].subs, V[n].subs \subseteq W[n].subs \union {s}, W[n].subs \subseteq V[n].subs,
         W[n + 1].id = s, W[n + 1].at = "row", W[n + 1].subs = {},
         NEW D, NEW G, NEW root, Owes(V, D, G, root)
  PROVE  Owes(W, D, G, root)
<1>1. /\ Finished(G, D) /\ V[1].id = root.id /\ G \subseteq RowsBelow(root)
      /\ \A k \in 1..n : CallOwes(V, k, D, G, root)
  BY DEF Owes
<1>2. n \in 1..n /\ n < n + 1
  OBVIOUS
<1>3. CallOwes(V, n, D, G, root)
  BY <1>1, <1>2
<1>4. CallOwes(W, n + 1, D, G, root)
  BY <1>3 DEF CallOwes
<1>5. CallOwes(W, n, D, G, root)
  BY <1>2, <1>3 DEF CallOwes
<1>6. ASSUME NEW k \in 1..(n - 1) PROVE CallOwes(W, k, D, G, root)
  <2>1. k + 1 \in 1..n /\ k < n /\ k < n + 1 /\ k \in 1..n
    OBVIOUS
  <2>2. k + 1 = n \/ k + 1 \in 1..(n - 1)
    BY <2>1
  <2>3. W[k] = V[k] /\ W[k + 1].id = V[k + 1].id
    BY <2>2
  <2>4. CallOwes(V, k, D, G, root)
    BY <1>1, <2>1
  <2> QED
    BY <2>1, <2>3, <2>4 DEF CallOwes
<1>7. \A k \in 1..(n + 1) : k = n + 1 \/ k = n \/ k \in 1..(n - 1)
  OBVIOUS
<1>8. W[1].id = root.id
  <2>1. 1 = n \/ 1 \in 1..(n - 1)
    OBVIOUS
  <2> QED
    BY <1>1, <2>1
<1> QED
  BY <1>1, <1>4, <1>5, <1>6, <1>7, <1>8 DEF Owes

(* It returns, and its context is finished. *)
LEMMA OwesLeft ==
  ASSUME NEW V, NEW W, NEW n \in Nat \ {0}, Len(V) = n, Len(W) = n - 1,
         \A k \in 1..(n - 1) : W[k] = V[k], V[n].at = "loop", V[n].subs = {},
         NEW D, NEW G, NEW root, Owes(V, D, G, root)
  PROVE  Owes(W, D \union {V[n].id}, G, root)
<1>1. /\ Finished(G, D) /\ V[1].id = root.id /\ G \subseteq RowsBelow(root)
      /\ \A k \in 1..n : CallOwes(V, k, D, G, root)
  BY DEF Owes
<1>2. PICK E : E = D \union {V[n].id}
  OBVIOUS
<1>3. n \in 1..n /\ ~(n < n)
  OBVIOUS
<1>4. Paid(G, V[n].id) /\ Under(V[n].id) \subseteq D
  BY <1>1, <1>3 DEF CallOwes
<1>5. Finished(G, E)
  BY <1>1, <1>2, <1>4 DEF Finished
<1>6. ASSUME NEW k \in 1..(n - 1) PROVE CallOwes(W, k, E, G, root)
  <2>1. k + 1 \in 1..n /\ k < n /\ k \in 1..n
    OBVIOUS
  <2>2. CallOwes(V, k, D, G, root) /\ W[k] = V[k]
    BY <1>1, <2>1
  <2>3. k + 1 = n \/ (k < n - 1 /\ k + 1 \in 1..(n - 1))
    BY <2>1
  <2>4. \A c : k < n /\ c = V[k + 1].id => c \in E \/ (k < Len(W) /\ c = W[k + 1].id)
    BY <1>2, <2>3
  <2>5. D \subseteq E
    BY <1>2
  <2> QED
    BY <2>2, <2>4, <2>5 DEF CallOwes
<1>7. Len(W) = 0 => n = 1 /\ root.id \in E
  BY <1>1, <1>2
<1>8. Len(W) # 0 => 1 \in 1..(n - 1)
  OBVIOUS
<1> QED
  BY <1>1, <1>2, <1>5, <1>6, <1>7, <1>8 DEF Owes

(* The calls of a reader that begins at this root. *)
LEMMA OwesBegun ==
  ASSUME NEW W, Len(W) = 1, NEW root \in ctxTab, W[1].id = root.id, W[1].at = "row",
         W[1].subs = {}
  PROVE  Owes(W, {}, {}, root)
<1>1. CallOwes(W, 1, {}, {}, root)
  BY BelowRoot DEF CallOwes
<1> QED
  BY <1>1 DEF Owes, Finished

LEMMA OwesSame ==
  ASSUME UNCHANGED <<ctxTab, confTab, mapTab>>, NEW CONSTANT W, NEW CONSTANT D, NEW CONSTANT G,
         NEW CONSTANT root, Owes(W, D, G, root)
  PROVE  Owes(W, D, G, root)'
<1>1. ctxTab' = ctxTab /\ confTab' = confTab /\ mapTab' = mapTab
  OBVIOUS
<1>2. \A c : Under(c)' = Under(c)
  BY <1>1 DEF Under
<1>3. \A c : Paid(G, c)' <=> Paid(G, c)
  BY <1>1 DEF Paid, Applying, Values
<1>4. Below(ctxTab, root.id)' = Below(ctxTab, root.id)
  BY <1>1 DEF Below
<1>5. RowsBelow(root)' = RowsBelow(root)
  BY <1>1 DEF RowsBelow, Below, Values
<1>6. Finished(G, D)'
  BY <1>2, <1>3 DEF Owes, Finished
<1>7. \A k : CallOwes(W, k, D, G, root)' <=> CallOwes(W, k, D, G, root)
  BY <1>2, <1>3, <1>4 DEF CallOwes
<1>8. \A k \in 1..Len(W) : CallOwes(W, k, D, G, root)'
  BY <1>7 DEF Owes
<1>9. (G \subseteq RowsBelow(root))'
  BY <1>5 DEF Owes
<1> QED
  BY <1>6, <1>8, <1>9 DEF Owes


LEMMA ApplyingBelow ==
  ASSUME NEW root, NEW c \in Below(ctxTab, root.id)
  PROVE  Applying(c) \subseteq RowsBelow(root)
  BY DEF Applying, RowsBelow

(* The rows of two texts are those of the one and those of the other. *)
LEMMA RowsOfMore ==
  ASSUME NEW T, NEW ls \in Seq(T), NEW new \in Seq(T)
  PROVE  RowsOf(ls \o new) = RowsOf(ls) \union RowsOf(new)
<1>0. Len(ls) \in Nat /\ Len(new) \in Nat /\ ls \o new \in Seq(T)
  BY ConcatProperties
<1>1. PICK n \in Nat, m \in Nat, all \in Seq(T) :
        n = Len(ls) /\ m = Len(new) /\ all = ls \o new
  BY ONLY <1>0, Zenon
<1>2. /\ Len(all) = n + m
      /\ \A i \in 1..n + m : all[i] = IF i <= n THEN ls[i] ELSE new[i - n]
  BY <1>1, ConcatProperties
<1>3. DOMAIN ls = 1..n /\ DOMAIN new = 1..m /\ DOMAIN all = 1..(n + m)
  <2>1. all \in Seq(T)
    BY <1>1, ConcatProperties
  <2> QED
    BY <1>1, <1>2, <2>1
<1>4. \A i \in 1..n : i \in 1..(n + m) /\ all[i] = ls[i]
  BY <1>2
<1>5. \A j \in 1..m : n + j \in 1..(n + m) /\ all[n + j] = new[j]
  <2> SUFFICES ASSUME NEW j \in 1..m PROVE n + j \in 1..(n + m) /\ all[n + j] = new[j]
    OBVIOUS
  <2>1. n + j \in 1..(n + m) /\ ~(n + j <= n) /\ n + j - n = j
    OBVIOUS
  <2>2. all[n + j] = new[n + j - n]
    BY <1>2, <2>1
  <2> QED
    BY <2>1, <2>2
<1>6. \A i \in 1..(n + m) : i \in 1..n \/ (i - n \in 1..m /\ n + (i - n) = i)
  OBVIOUS
<1>7. ASSUME NEW x \in RowsOf(all) PROVE x \in RowsOf(ls) \union RowsOf(new)
  <2>1. PICK i \in 1..(n + m) : all[i].kind = "dir" /\ x = <<all[i].ctx, all[i].conf>>
    BY <1>3 DEF RowsOf
  <2>2. CASE i \in 1..n
    BY <1>3, <1>4, <2>1, <2>2 DEF RowsOf
  <2>3. CASE i - n \in 1..m /\ n + (i - n) = i
    <3>1. all[i] = new[i - n]
      BY <1>5, <2>3
    <3> QED
      BY <1>3, <2>1, <2>3, <3>1 DEF RowsOf
  <2> QED
    BY <1>6, <2>2, <2>3
<1>8. RowsOf(ls) \subseteq RowsOf(all)
  BY <1>3, <1>4 DEF RowsOf
<1>9. ASSUME NEW x \in RowsOf(new) PROVE x \in RowsOf(all)
  <2>1. PICK j \in 1..m : new[j].kind = "dir" /\ x = <<new[j].ctx, new[j].conf>>
    BY <1>3 DEF RowsOf
  <2>2. n + j \in 1..(n + m) /\ all[n + j] = new[j]
    BY <1>5
  <2> QED
    BY <1>3, <2>1, <2>2 DEF RowsOf
<1> QED
  BY <1>1, <1>7, <1>8, <1>9

LEMMA RowsOfTag ==
  ASSUME NEW T, NEW ls \in Seq(T), NEW l, l.kind # "dir"
  PROVE  RowsOf(ls \o << l >>) = RowsOf(ls)
<1>1. PICK U : U = T \union {l}
  OBVIOUS
<1>2. ls \in Seq(U)
  BY <1>1, SeqMonotonic
<1>3. PICK new \in Seq(U) : new = << l >>
  <2>1. << l >> \in Seq(U)
    BY <1>1
  <2> QED
    BY ONLY <2>1, Zenon
<1>4. DOMAIN new = {1} /\ new[1] = l
  BY <1>3
<1>5. RowsOf(new) = {}
  BY <1>4 DEF RowsOf
<1>6. RowsOf(ls \o new) = RowsOf(ls) \union RowsOf(new)
  BY <1>2, RowsOfMore
<1> QED
  BY ONLY <1>3, <1>5, <1>6

LEMMA RowsOfNone == RowsOf(<<>>) = {}
  BY DEF RowsOf

(* The lines for the answer to the join, each row of which comes once.       *)
LEMMA JoinDelivers ==
  ASSUME Typed, Finite, NEW id, NEW rows \in Export!SetToSeqs(Export!Join(id)),
         NEW m \in Nat, DOMAIN rows = 1..m,
         NEW new, new = [i \in 1..m |-> Export!Directive(id, rows[i][2])]
  PROVE  RowsOf(new) = Applying(id)
<1>1. PICK J : J = Export!Join(id)
  OBVIOUS
<1>2. IsFiniteSet(J)
  BY <1>1, JoinFinite
<1>3. PICK k \in Nat : k = Cardinality(J)
  BY <1>2, FS_CardinalityType
<1>4. rows \in [1..k -> J] /\ \A i, j \in 1..k : i # j => rows[i] # rows[j]
  BY <1>1, <1>3, SameCountExport DEF Export!SetToSeqs
<1>5. rows \in Injection(1..k, J)
  BY <1>4 DEF Injection, IsInjective
<1>6. Cardinality(1..k) = k
  BY <1>3, FS_Interval
<1>7. rows \in Surjection(1..k, J)
  BY <1>2, <1>3, <1>5, <1>6, FS_Injection
<1>8. /\ \A i \in 1..m : rows[i] \in J
      /\ \A p \in J : \E i \in 1..m : rows[i] = p
  BY <1>4, <1>7 DEF Surjection
<1>9. /\ DOMAIN new = 1..m
      /\ \A i \in 1..m : new[i].kind = "dir" /\ new[i].ctx = id /\ new[i].conf = rows[i][2].id
  BY DEF Export!Directive
<1>10. RowsOf(new) = {<<id, rows[i][2].id>> : i \in 1..m}
  BY <1>9 DEF RowsOf
<1>11. ASSUME NEW i \in 1..m PROVE <<id, rows[i][2].id>> \in Applying(id)
  <2>1. PICK p \in (DOMAIN mapTab) \X confTab :
          p = rows[i] /\ mapTab[p[1]].ctx = id /\ mapTab[p[1]].conf = p[2].id
    BY <1>1, <1>8 DEF Export!Join
  <2>2. PICK x \in Values(mapTab), c \in confTab : x.ctx = id /\ x.conf = c.id /\ c = rows[i][2]
    BY <2>1 DEF Values
  <2> QED
    BY <2>2 DEF Applying
<1>12. ASSUME NEW y \in Applying(id) PROVE \E i \in 1..m : y = <<id, rows[i][2].id>>
  <2>1. PICK x \in Values(mapTab), c \in confTab : x.ctx = id /\ x.conf = c.id /\ y = <<id, x.conf>>
    BY DEF Applying
  <2>2. PICK a \in DOMAIN mapTab : mapTab[a] = x
    BY DEF Values
  <2>3. <<a, c>> \in J
    BY <1>1, <2>1, <2>2 DEF Export!Join
  <2>4. PICK i \in 1..m : rows[i] = <<a, c>>
    BY <1>8, <2>3
  <2> QED
    BY <2>1, <2>4
<1> QED
  BY <1>10, <1>11, <1>12

(* What the exporter has collected in ls, in the calls W.  Without a root it *)
(* asks for the context that is undef, and finds nothing.                    *)
NothingFound(W, ls) ==
  ls = <<>> /\ (Len(W) # 0 => Len(W) = 1 /\ W[1].id = Null /\ W[1].subs = {})

Collected(W, ls) ==
  IF RootsOf(ctxTab) = {} THEN NothingFound(W, ls)
  ELSE \E root \in RootsOf(ctxTab) : \E D : Owes(W, D, RowsOf(ls), root)

LEMMA CollectedSame ==
  ASSUME UNCHANGED <<ctxTab, confTab, mapTab>>, NEW CONSTANT W, NEW CONSTANT ls, Collected(W, ls)
  PROVE  Collected(W, ls)'
<1>1. RootsOf(ctxTab)' = RootsOf(ctxTab)
  BY DEF RootsOf
<1>2. CASE RootsOf(ctxTab) = {}
  BY <1>1, <1>2 DEF Collected, NothingFound
<1>3. CASE RootsOf(ctxTab) # {}
  <2>0. PICK root \in RootsOf(ctxTab) : \E D : Owes(W, D, RowsOf(ls), root)
    BY <1>3 DEF Collected
  <2>1. PICK D : Owes(W, D, RowsOf(ls), root)
    BY <2>0
  <2>2. PICK G : G = RowsOf(ls)
    OBVIOUS
  <2>3. Owes(W, D, G, root)'
    BY <2>1, <2>2, OwesSame
  <2>4. RowsOf(ls)' = RowsOf(ls)
    BY DEF RowsOf
  <2> QED
    BY <1>1, <1>3, <2>2, <2>3, <2>4 DEF Collected
<1> QED
  BY <1>2, <1>3

Collects == \E W, ls : W = walk' /\ ls = text' /\ Collected(W, ls)

(* A tag is no directive, and the outermost call prints none. *)
LEMMA TagCollected ==
  ASSUME Printed, NEW kind \in {"open", "close"}, NEW id, NEW label,
         text' = text \o Export!Tagged(<<Export!Tag(kind, id, label)>>)
  PROVE  RowsOf(text') = RowsOf(text) /\ (Len(walk) = 1 => text' = text)
<1>1. text \in Seq(TextLine)
  BY DEF Printed
<1>2. PICK l : l = Export!Tag(kind, id, label)
  OBVIOUS
<1>3. l.kind # "dir"
  BY <1>2 DEF Export!Tag
<1>4. CASE Len(walk) > 1
  <2>1. text' = text \o << l >>
    BY <1>2, <1>4 DEF Export!Tagged
  <2>2. Len(walk) # 1
    <3> SUFFICES ASSUME Len(walk) = 1 PROVE FALSE
      OBVIOUS
    <3>1. 1 > 1
      BY ONLY <1>4, Len(walk) = 1, Zenon
    <3> QED
      BY ONLY <3>1
  <2> QED
    BY <1>1, <1>3, <2>1, <2>2, RowsOfTag
<1>5. CASE ~(Len(walk) > 1)
  <2>1. text' = text \o <<>>
    BY <1>5 DEF Export!Tagged
  <2>2. text' = text
    BY <1>1, <2>1
  <2> QED
    BY <2>2
<1> QED
  BY <1>4, <1>5

(* The innermost call goes on. *)
LEMMA TopSet ==
  ASSUME Reads, NEW n \in Nat \ {0}, n = Len(walk), NEW call, Export!SetTop(call)
  PROVE  Len(walk') = n /\ walk'[n] = call /\ \A k \in 1..(n - 1) : walk'[k] = walk[k]
<1>1. walk \in Seq(ExportCall) /\ walk' = [walk EXCEPT ![n] = call]
  BY DEF Reads, Export!SetTop
<1>2. Len(walk') = n /\ walk'[n] = call /\ \A k \in 1..n : k # n => walk'[k] = walk[k]
  BY <1>1
<1> QED
  BY <1>2

LEMMA CollectMoved ==
  ASSUME Reads, NEW n \in Nat \ {0}, n = Len(walk), NEW call, Export!SetTop(call),
         call.id = walk[n].id, Collected(walk, text),
         RootsOf(ctxTab) = {} => text' = <<>> /\ call.subs = {},
         \A root \in RootsOf(ctxTab) : \A D :
           Owes(walk, D, RowsOf(text), root) =>
             /\ RowsOf(text) \subseteq RowsOf(text') /\ RowsOf(text') \subseteq RowsBelow(root)
             /\ \A W : W = walk' => CallOwes(W, n, D, RowsOf(text'), root)
  PROVE  Collects
<1>1. PICK W, ls : W = walk' /\ ls = text'
  OBVIOUS
<1>2. Len(W) = n /\ W[n] = call /\ \A k \in 1..(n - 1) : W[k] = walk[k]
  BY <1>1, TopSet
<1>3. CASE RootsOf(ctxTab) = {}
  <2>1. NothingFound(walk, text)
    BY <1>3 DEF Collected
  <2>2. NothingFound(W, ls)
    BY <1>1, <1>2, <1>3, <2>1 DEF NothingFound
  <2> QED
    BY <1>1, <1>3, <2>2 DEF Collects, Collected
<1>4. CASE RootsOf(ctxTab) # {}
  <2>0. PICK root \in RootsOf(ctxTab) : \E D : Owes(walk, D, RowsOf(text), root)
    BY <1>4 DEF Collected
  <2>1. PICK D : Owes(walk, D, RowsOf(text), root)
    BY <2>0
  <2>2. PICK G, H : G = RowsOf(text) /\ H = RowsOf(ls)
    OBVIOUS
  <2>3. G \subseteq H /\ H \subseteq RowsBelow(root) /\ CallOwes(W, n, D, H, root)
    BY <1>1, <2>1, <2>2
  <2>4. Owes(walk, D, G, root)
    BY <2>1, <2>2
  <2>5. PICK V : V = walk
    OBVIOUS
  <2>6. Owes(W, D, H, root)
    BY <1>2, <2>3, <2>4, <2>5, OwesMoved
  <2> QED
    BY <1>1, <1>4, <2>2, <2>6 DEF Collects, Collected
<1> QED
  BY <1>3, <1>4

(* The script begins. *)
LEMMA CollectBegins ==
  ASSUME text = <<>>, Export!SelectRoot
  PROVE  Collects
<1>1. PICK id \in IF Export!Parentless = {} THEN {Null} ELSE Export!Parentless :
        walk' = <<Export!NewCall(id)>>
  BY DEF Export!SelectRoot
<1>2. text' = <<>>
  BY DEF Export!SelectRoot
<1>3. PICK W, ls : W = walk' /\ ls = text'
  OBVIOUS
<1>4. /\ Len(W) = 1 /\ W[1] = Export!NewCall(id) /\ W[1].at = "row" /\ W[1].id = id
      /\ W[1].subs = {}
  BY <1>1, <1>3 DEF Export!NewCall
<1>5. Export!Parentless = {r.id : r \in RootsOf(ctxTab)}
  BY DEF Export!Parentless, RootsOf
<1>6. CASE RootsOf(ctxTab) = {}
  <2>1. id = Null
    BY <1>1, <1>5, <1>6
  <2>2. NothingFound(W, ls)
    BY <1>2, <1>3, <1>4, <2>1 DEF NothingFound
  <2> QED
    BY <1>3, <1>6, <2>2 DEF Collects, Collected
<1>7. CASE RootsOf(ctxTab) # {}
  <2>1. PICK root \in RootsOf(ctxTab) : root.id = id
    BY <1>1, <1>5, <1>7
  <2>2. root \in ctxTab
    BY DEF RootsOf
  <2>3. Owes(W, {}, {}, root)
    BY <1>4, <2>1, <2>2, OwesBegun
  <2>4. RowsOf(ls) = {}
    BY <1>2, <1>3, RowsOfNone
  <2>5. Owes(W, {}, RowsOf(ls), root)
    BY <2>3, <2>4
  <2> QED
    BY <1>3, <1>7, <2>5 DEF Collects, Collected
<1> QED
  BY <1>6, <1>7

(* A call reads its row, ... *)
LEMMA CollectRow ==
  ASSUME Reads, Printed, Collected(walk, text), Export!SelectRow
  PROVE  Collects
<1>1. walk # <<>>
  BY DEF Export!SelectRow, Export!At
<1>2. PICK n \in Nat \ {0} :
        /\ n = Len(walk) /\ n \in 1..n /\ Export!Top = walk[n] /\ walk[n] \in ExportCall
        /\ RowsRead(walk) = IF walk[n].at = "row" THEN n - 1 ELSE n
  BY <1>1, TopRead
<1>3. PICK label : label = Export!LabelOf(walk[n].id)
  OBVIOUS
<1>4. PICK call : call = [walk[n] EXCEPT !.at = "dirs", !.label = label]
  OBVIOUS
<1>5. /\ Export!SetTop(call) /\ call.id = walk[n].id /\ call.at = "dirs"
      /\ call.subs = walk[n].subs
  BY <1>2, <1>3, <1>4 DEF Export!SelectRow, ExportCall
<1>6. text' = text \o Export!Tagged(<<Export!Tag("open", walk[n].id, label)>>)
  BY <1>2, <1>3 DEF Export!SelectRow
<1>7. RowsOf(text') = RowsOf(text) /\ (n = 1 => text' = text)
  BY <1>2, <1>6, TagCollected
<1>8. RootsOf(ctxTab) = {} => text' = <<>> /\ call.subs = {}
  BY <1>2, <1>5, <1>7 DEF Collected, NothingFound
<1>9. ASSUME NEW root, NEW D, Owes(walk, D, RowsOf(text), root), NEW W, W = walk'
      PROVE  /\ RowsOf(text) \subseteq RowsBelow(root)
             /\ CallOwes(W, n, D, RowsOf(text), root)
  <2>1. W[n] = call
    BY <1>2, <1>5, <1>9, TopSet
  <2>2. CallOwes(walk, n, D, RowsOf(text), root) /\ RowsOf(text) \subseteq RowsBelow(root)
    BY <1>2, <1>9 DEF Owes
  <2> QED
    BY <1>5, <2>1, <2>2 DEF CallOwes
<1> QED
  BY <1>2, <1>5, <1>7, <1>8, <1>9, CollectMoved

(* ... then all that applies to its context, ... *)
LEMMA CollectDirs ==
  ASSUME Typed, Reads, Finite, Printed, Printed', NEW lab, NEW dir, Remembered(lab, dir),
         Collected(walk, text), Export!SelectDirs
  PROVE  Collects
<1>1. walk # <<>>
  BY DEF Export!SelectDirs, Export!At
<1>2. PICK n \in Nat \ {0} :
        /\ n = Len(walk) /\ n \in 1..n /\ Export!Top = walk[n] /\ walk[n] \in ExportCall
        /\ RowsRead(walk) = IF walk[n].at = "row" THEN n - 1 ELSE n
  BY <1>1, TopRead
<1>3. PICK id \in Nat : id = walk[n].id
  BY <1>2 DEF ExportCall
<1>4. PICK call : call = [walk[n] EXCEPT !.at = "ctxs"]
  OBVIOUS
<1>5. /\ Export!SetTop(call) /\ call.id = walk[n].id /\ call.at = "ctxs"
      /\ call.subs = walk[n].subs
  BY <1>2, <1>4 DEF Export!SelectDirs, ExportCall
<1>6. PICK rows \in Export!SetToSeqs(Export!Join(id)) :
        text' = text \o [i \in DOMAIN rows |-> Export!Directive(id, rows[i][2])]
  BY <1>2, <1>3 DEF Export!SelectDirs
<1>7. PICK m \in Nat : DOMAIN rows = 1..m /\ \A j \in 1..m : rows[j] \in Export!Join(id)
  BY <1>6, JoinRows
<1>8. PICK new : new = [i \in 1..m |-> Export!Directive(id, rows[i][2])]
  OBVIOUS
<1>9. text' = text \o new
  BY <1>6, <1>7, <1>8
<1>10. RowsOf(new) = Applying(id)
  BY <1>6, <1>7, <1>8, JoinDelivers
<1>11. PICK T : T = TextLine \union {new[i] : i \in 1..m}
  OBVIOUS
<1>12. new \in Seq(T) /\ text \in Seq(T) /\ text \in Seq(TextLine)
  <2>1. new \in [1..m -> T]
    BY <1>8, <1>11
  <2>2. new \in Seq(T)
    BY ONLY <2>1, m \in Nat
  <2> QED
    BY <1>11, <2>2, SeqMonotonic DEF Printed
<1>13. RowsOf(text') = RowsOf(text) \union Applying(id)
  BY <1>9, <1>10, <1>12, RowsOfMore
<1>14. RootsOf(ctxTab) = {} => text' = <<>> /\ call.subs = {}
  <2> SUFFICES ASSUME RootsOf(ctxTab) = {} PROVE text' = <<>> /\ call.subs = {}
    OBVIOUS
  <2>1. text = <<>> /\ id = Null /\ walk[n].subs = {}
    BY <1>2, <1>3 DEF Collected, NothingFound
  <2>2. m = 0
    <3>1. Export!Join(id) = {}
      <4> SUFFICES ASSUME NEW p \in (DOMAIN mapTab) \X confTab, mapTab[p[1]].ctx = Null
                   PROVE  FALSE
        BY <2>1 DEF Export!Join
      <4>1. mapTab[p[1]] \in Values(mapTab)
        BY DEF Values
      <4>2. Null \in 1..lastCtx
        BY <4>1 DEF Remembered
      <4> QED
        BY <4>2 DEF Null
    <3>2. 1 \notin 1..m
      BY <1>7, <3>1
    <3> QED
      BY <3>2
  <2>3. Len(new) = 0
    BY <1>8, <2>2
  <2>4. new = <<>>
    BY <1>12, <2>3
  <2> QED
    BY <1>5, <1>9, <2>1, <2>4
<1>15. ASSUME NEW root, NEW D, Owes(walk, D, RowsOf(text), root), NEW W, W = walk'
       PROVE  /\ RowsOf(text') \subseteq RowsBelow(root)
              /\ CallOwes(W, n, D, RowsOf(text'), root)
  <2>1. W[n] = call
    BY <1>2, <1>5, <1>15, TopSet
  <2>2. CallOwes(walk, n, D, RowsOf(text), root) /\ RowsOf(text) \subseteq RowsBelow(root)
    BY <1>2, <1>15 DEF Owes
  <2>3. id \in Below(ctxTab, root.id)
    BY <1>3, <2>2 DEF CallOwes
  <2>4. Applying(id) \subseteq RowsBelow(root)
    BY <2>3, ApplyingBelow
  <2>5. Paid(RowsOf(text'), id)
    BY <1>13 DEF Paid
  <2>6. CallOwes(W, n, D, RowsOf(text'), root)
    BY <1>3, <1>5, <2>1, <2>2, <2>5 DEF CallOwes
  <2> QED
    BY <1>13, <2>2, <2>4, <2>6
<1> QED
  BY <1>2, <1>5, <1>13, <1>14, <1>15, CollectMoved

(* ... then its sub-contexts, ... *)
LEMMA CollectCtxs ==
  ASSUME Typed, Reads, NEW lab, NEW dir, Remembered(lab, dir), Collected(walk, text),
         Export!SelectCtxs
  PROVE  Collects
<1>1. walk # <<>> /\ text' = text
  BY DEF Export!SelectCtxs, Export!At
<1>2. PICK n \in Nat \ {0} :
        /\ n = Len(walk) /\ n \in 1..n /\ Export!Top = walk[n] /\ walk[n] \in ExportCall
        /\ RowsRead(walk) = IF walk[n].at = "row" THEN n - 1 ELSE n
  BY <1>1, TopRead
<1>3. PICK id \in Nat : id = walk[n].id
  BY <1>2 DEF ExportCall
<1>4. PICK call : call = [walk[n] EXCEPT !.at = "loop", !.subs = Export!Children(id)]
  OBVIOUS
<1>5. /\ Export!SetTop(call) /\ call.id = walk[n].id /\ call.at = "loop"
      /\ call.subs = Export!Children(id) /\ walk[n].at = "ctxs"
  BY <1>2, <1>3, <1>4 DEF Export!SelectCtxs, Export!At, ExportCall
<1>6. Export!Children(id) = IF id = Null THEN {} ELSE Under(id)
  BY DEF Export!Children, Under
<1>7. RootsOf(ctxTab) = {} => text' = <<>> /\ call.subs = {}
  <2> SUFFICES ASSUME RootsOf(ctxTab) = {} PROVE text' = <<>> /\ call.subs = {}
    OBVIOUS
  <2>1. text = <<>> /\ id = Null
    BY <1>2, <1>3 DEF Collected, NothingFound
  <2> QED
    BY <1>1, <1>5, <1>6, <2>1
<1>8. ASSUME NEW root, NEW D, Owes(walk, D, RowsOf(text), root), NEW W, W = walk'
      PROVE  /\ RowsOf(text) \subseteq RowsBelow(root)
             /\ CallOwes(W, n, D, RowsOf(text), root)
  <2>1. W[n] = call
    BY <1>2, <1>5, <1>8, TopSet
  <2>2. CallOwes(walk, n, D, RowsOf(text), root) /\ RowsOf(text) \subseteq RowsBelow(root)
    BY <1>2, <1>8 DEF Owes
  <2>3. id \in Below(ctxTab, root.id) /\ Paid(RowsOf(text), id)
    BY <1>3, <1>5, <2>2 DEF CallOwes
  <2>4. id # Null
    BY <2>3 DEF Below, Remembered, Null
  <2>5. call.subs = Under(id) /\ Under(id) \subseteq Below(ctxTab, root.id)
    BY <1>5, <1>6, <2>3, <2>4, BelowKid
  <2> QED
    BY <1>3, <1>5, <2>1, <2>2, <2>3, <2>5 DEF CallOwes
<1> QED
  BY <1>1, <1>2, <1>5, <1>7, <1>8, CollectMoved

(* ... then it enters each of them, ... *)
LEMMA CollectEnters ==
  ASSUME Reads, Collected(walk, text), Export!EnterCtx
  PROVE  Collects
<1>1. walk # <<>> /\ text' = text
  BY DEF Export!EnterCtx, Export!At
<1>2. PICK n \in Nat \ {0} :
        /\ n = Len(walk) /\ n \in 1..n /\ Export!Top = walk[n] /\ walk[n] \in ExportCall
        /\ RowsRead(walk) = IF walk[n].at = "row" THEN n - 1 ELSE n
  BY <1>1, TopRead
<1>3. PICK s \in walk[n].subs :
        walk' = Append([walk EXCEPT ![n].subs = @ \ {s}], Export!NewCall(s))
  BY <1>1, <1>2 DEF Export!EnterCtx
<1>4. PICK top, new : top = [walk[n] EXCEPT !.subs = @ \ {s}] /\ new = Export!NewCall(s)
  OBVIOUS
<1>5. /\ top \in ExportCall /\ top.id = walk[n].id /\ top.at = "loop" /\ walk[n].at = "loop"
      /\ top.subs = walk[n].subs \ {s}
  BY <1>2, <1>4 DEF ExportCall, Export!EnterCtx, Export!At
<1>6. new \in ExportCall /\ new.id = s /\ new.at = "row" /\ new.subs = {}
  <2>1. s \in Nat
    BY <1>2 DEF ExportCall
  <2> QED
    BY <1>4, <2>1, NewCallTyped DEF Export!NewCall
<1>7. PICK V, W : V = walk /\ W = walk'
  OBVIOUS
<1>8. /\ Len(V) = n /\ Len(W) = n + 1 /\ W[n + 1] = new /\ W[n] = top
      /\ \A i \in 1..(n - 1) : W[i] = V[i]
  <2>1. walk' = Append([walk EXCEPT ![n] = top], new)
    BY <1>3, <1>4
  <2>2. /\ walk' \in Seq(ExportCall) /\ Len(walk') = n + 1 /\ walk'[n + 1] = new /\ walk'[n] = top
        /\ \A i \in 1..(n - 1) : walk'[i] = walk[i]
    BY <1>1, <1>2, <1>5, <1>6, <2>1, LastReplacedAndAdded DEF Reads
  <2> QED
    BY <1>2, <1>7, <2>2
<1>9. RootsOf(ctxTab) # {}
  <2> SUFFICES ASSUME RootsOf(ctxTab) = {} PROVE FALSE
    OBVIOUS
  <2>1. walk[n].subs = {}
    BY <1>2 DEF Collected, NothingFound
  <2> QED
    BY <2>1
<1>9a. PICK root \in RootsOf(ctxTab) : \E D : Owes(walk, D, RowsOf(text), root)
  BY <1>9 DEF Collected
<1>10. PICK D : Owes(walk, D, RowsOf(text), root)
  BY <1>9a
<1>11. PICK G : G = RowsOf(text)
  OBVIOUS
<1>12. Owes(V, D, G, root)
  BY <1>7, <1>10, <1>11
<1>13. s \in V[n].subs /\ V[n].subs \subseteq W[n].subs \union {s} /\ W[n].subs \subseteq V[n].subs
  BY <1>5, <1>7, <1>8
<1>14. Owes(W, D, G, root)
  BY <1>5, <1>6, <1>7, <1>8, <1>12, <1>13, OwesEntered
<1> QED
  BY <1>1, <1>7, <1>9, <1>11, <1>14 DEF Collects, Collected

(* ... and returns. *)
LEMMA CollectLeaves ==
  ASSUME Reads, Printed, Collected(walk, text), Export!LeaveCtx
  PROVE  Collects
<1>1. walk # <<>>
  BY DEF Export!LeaveCtx, Export!At
<1>2. PICK n \in Nat \ {0} :
        /\ n = Len(walk) /\ n \in 1..n /\ Export!Top = walk[n] /\ walk[n] \in ExportCall
        /\ RowsRead(walk) = IF walk[n].at = "row" THEN n - 1 ELSE n
  BY <1>1, TopRead
<1>3. walk[n].at = "loop" /\ walk[n].subs = {}
  BY <1>2 DEF Export!LeaveCtx, Export!At
<1>4. text' = text \o Export!Tagged(<<Export!Tag("close", walk[n].id, walk[n].label)>>)
  BY <1>2 DEF Export!LeaveCtx
<1>5. RowsOf(text') = RowsOf(text) /\ (n = 1 => text' = text)
  BY <1>2, <1>4, TagCollected
<1>6. PICK V, W : V = walk /\ W = walk'
  OBVIOUS
<1>7. Len(V) = n /\ Len(W) = n - 1 /\ \A k \in 1..(n - 1) : W[k] = V[k]
  <2>1. walk \in Seq(ExportCall) /\ walk' = SubSeq(walk, 1, Len(walk) - 1)
    BY DEF Reads, Export!LeaveCtx
  <2>2. /\ walk' \in Seq(ExportCall) /\ Len(walk') = n - 1
        /\ \A k \in 1..(n - 1) : walk'[k] = walk[k]
    BY <1>1, <1>2, <2>1, LastDropped
  <2> QED
    BY <1>2, <1>6, <2>2
<1>8. CASE RootsOf(ctxTab) = {}
  <2>1. text = <<>> /\ n = 1
    BY <1>2, <1>8 DEF Collected, NothingFound
  <2>2. Len(W) = 0
    BY <1>7, <2>1
  <2>3. NothingFound(W, text')
    BY <1>5, <2>1, <2>2 DEF NothingFound
  <2> QED
    BY <1>6, <1>8, <2>3 DEF Collects, Collected
<1>9. CASE RootsOf(ctxTab) # {}
  <2>0. PICK root \in RootsOf(ctxTab) : \E D : Owes(walk, D, RowsOf(text), root)
    BY <1>9 DEF Collected
  <2>1. PICK D : Owes(walk, D, RowsOf(text), root)
    BY <2>0
  <2>2. PICK G : G = RowsOf(text)
    OBVIOUS
  <2>3. Owes(V, D, G, root)
    BY <1>6, <2>1, <2>2
  <2>4. Owes(W, D \union {V[n].id}, G, root)
    BY <1>3, <1>6, <1>7, <2>3, OwesLeft
  <2> QED
    BY <1>5, <1>6, <1>9, <2>2, <2>4 DEF Collects, Collected
<1> QED
  BY <1>8, <1>9

(* What sql2conf.pl has found and shows, if nobody writes meanwhile. *)
ExportOwed ==
  /\ step = "start" => text = <<>>
  /\ quiet /\ step \in {"collect", "end"} => Collected(walk, text)
  /\ step = "end" => walk = <<>> /\ output = text

LEMMA ExportOwedKept ==
  ASSUME ExportOwed, UNCHANGED exportVars,
         quiet' /\ step # "start" => quiet /\ UNCHANGED <<ctxTab, confTab, mapTab>>
  PROVE  ExportOwed'
<1>1. UNCHANGED <<step, walk, text, output>>
  BY DEF exportVars
<1>2. ASSUME quiet', step \in {"collect", "end"} PROVE Collected(walk, text)'
  <2>1. Collected(walk, text) /\ UNCHANGED <<ctxTab, confTab, mapTab>>
    BY <1>2 DEF ExportOwed
  <2>2. PICK W, ls : W = walk /\ ls = text
    OBVIOUS
  <2>3. Collected(W, ls)
    BY <2>1, <2>2
  <2>4. Collected(W, ls)'
    BY <2>1, <2>3, CollectedSame
  <2>5. W = walk' /\ ls = text'
    BY <1>1, <2>2
  <2> QED
    BY <2>4, <2>5
<1> QED
  BY <1>1, <1>2 DEF ExportOwed

LEMMA ExportOwedExports ==
  ASSUME Kept, Kept', ExportOwed, ExportStep
  PROVE  ExportOwed'
<1>1. /\ Typed /\ Reads /\ Finite /\ Printed /\ Printed'
      /\ UNCHANGED <<ctxTab, confTab, mapTab>> /\ quiet' = quiet /\ Export!Next
  BY DEF Kept, Orderly, ExportStep, vars
<1>2. PICK lab, dir : Remembered(lab, dir)
  BY DEF Kept, NamesKept
<1>3. ASSUME Collects, step' = "collect" PROVE ExportOwed'
  <2>1. PICK W, ls : W = walk' /\ ls = text' /\ Collected(W, ls)
    BY <1>3 DEF Collects
  <2>2. Collected(W, ls)'
    BY <1>1, <2>1, CollectedSame
  <2>3. Collected(walk, text)'
    BY <2>1, <2>2
  <2> QED
    BY <1>3, <2>3 DEF ExportOwed
<1>4. ASSUME ~quiet, step' = "collect" PROVE ExportOwed'
  BY <1>1, <1>4 DEF ExportOwed
<1>5. CASE Export!SelectRoot
  <2>1. text = <<>> /\ step' = "collect"
    BY <1>5 DEF Export!SelectRoot, ExportOwed
  <2> QED
    BY <1>3, <1>5, <2>1, CollectBegins
<1>6. CASE \/ Export!SelectRow \/ Export!SelectDirs \/ Export!SelectCtxs \/ Export!EnterCtx
           \/ Export!LeaveCtx
  <2>1. step = "collect" /\ step' = "collect"
    BY <1>6 DEF Export!SelectRow, Export!SelectDirs, Export!SelectCtxs, Export!EnterCtx,
                Export!LeaveCtx, Export!At
  <2>2. CASE quiet
    <3>1. Collected(walk, text)
      BY <2>1, <2>2 DEF ExportOwed
    <3>2. Collects
      BY <1>1, <1>2, <1>6, <3>1, CollectRow, CollectDirs, CollectCtxs, CollectEnters, CollectLeaves
    <3> QED
      BY <1>3, <2>1, <3>2
  <2> QED
    BY <1>4, <2>1, <2>2
<1>7. CASE Export!Show
  <2>1. step = "collect" /\ step' = "end" /\ walk = <<>> /\ UNCHANGED <<walk, text>> /\ output' = text
    BY <1>7 DEF Export!Show
  <2>2. PICK W, ls : W = walk /\ ls = text
    OBVIOUS
  <2>3. quiet => Collected(W, ls)
    BY <2>1, <2>2 DEF ExportOwed
  <2>4. quiet => Collected(W, ls)'
    BY <1>1, <2>3, CollectedSame
  <2>5. W = walk' /\ ls = text'
    BY <2>1, <2>2
  <2>6. quiet => Collected(walk, text)'
    BY <2>4, <2>5
  <2> QED
    BY <1>1, <2>1, <2>6 DEF ExportOwed
<1>8. CASE Export!Die
  <2>1. step' = "dead"
    BY <1>8 DEF Export!Die
  <2> QED
    BY <2>1 DEF ExportOwed
<1> QED
  BY <1>1, <1>5, <1>6, <1>7, <1>8 DEF Export!Next

-----------------------------------------------------------------------------
(* The same of the server. *)

ServerLine == [kind : {"open", "dir", "close"}, ctx : Nat, dir : Nat]

(* The rows in these lines. *)
Loaded(ls) == {<<ls[i].ctx, ConfOf(ls[i])>> : i \in {j \in DOMAIN ls : ls[j].kind = "dir"}}

(* An activation as a call. *)
FrameView(f) == [id |-> f.ctx, at |-> f.at, subs |-> {y.id : y \in f.kids}]

View(stk) == [k \in 1..Len(stk) |-> FrameView(stk[k])]

(* The rows that an activation has yet to push. *)
Unpushed(f) == {<<f.ctx, mapTab[d].conf>> : d \in f.dirs}

Pushing(f, G) ==
  f.at = "push" => Unpushed(f) \subseteq Applying(f.ctx) /\ Applying(f.ctx) \subseteq G \union Unpushed(f)

(* What the server has loaded; nothing if there is not exactly one root. *)
Fetched(stk, ls) ==
  IF Cardinality(RootsOf(ctxTab)) = 1
  THEN \E root \in RootsOf(ctxTab) : \E D :
         /\ Owes(View(stk), D, Loaded(ls), root)
         /\ \A k \in 1..Len(stk) : Pushing(stk[k], Loaded(ls))
  ELSE stk = <<>> /\ ls = <<>>

Fetches == \E stk, ls : stk = stack' /\ ls = lines' /\ Fetched(stk, ls)

LEMMA FetchedSame ==
  ASSUME UNCHANGED <<ctxTab, confTab, mapTab>>, NEW CONSTANT stk, NEW CONSTANT ls, Fetched(stk, ls)
  PROVE  Fetched(stk, ls)'
<1>1. RootsOf(ctxTab)' = RootsOf(ctxTab)
  BY DEF RootsOf
<1>2. (Cardinality(RootsOf(ctxTab)) = 1)' <=> Cardinality(RootsOf(ctxTab)) = 1
  BY <1>1
<1>3. CASE Cardinality(RootsOf(ctxTab)) # 1
  BY <1>2, <1>3 DEF Fetched
<1>4. CASE Cardinality(RootsOf(ctxTab)) = 1
  <2>0. PICK root \in RootsOf(ctxTab) : \E D :
          /\ Owes(View(stk), D, Loaded(ls), root)
          /\ \A k \in 1..Len(stk) : Pushing(stk[k], Loaded(ls))
    BY <1>4 DEF Fetched
  <2>1. PICK D :
          /\ Owes(View(stk), D, Loaded(ls), root)
          /\ \A k \in 1..Len(stk) : Pushing(stk[k], Loaded(ls))
    BY <2>0
  <2>2. PICK G, W : G = Loaded(ls) /\ W = View(stk)
    OBVIOUS
  <2>3. Owes(W, D, G, root)'
    BY <2>1, <2>2, OwesSame
  <2>4. Loaded(ls)' = Loaded(ls) /\ View(stk)' = View(stk)
    BY DEF Loaded, View, ConfOf
  <2>5. \A c : Applying(c)' = Applying(c)
    BY DEF Applying, Values
  <2>6. \A k \in 1..Len(stk) : Pushing(stk[k], G)'
    BY <2>1, <2>2, <2>5 DEF Pushing, Unpushed
  <2> QED
    BY <1>1, <1>2, <1>4, <2>2, <2>3, <2>4, <2>6 DEF Fetched
<1> QED
  BY <1>3, <1>4

LEMMA ViewOf ==
  ASSUME NEW stk, NEW n \in Nat, Len(stk) = n
  PROVE  Len(View(stk)) = n /\ \A k \in 1..n : View(stk)[k] = FrameView(stk[k])
<1> DEFINE S == {FrameView(stk[k]) : k \in 1..n}
<1>1. View(stk) = [k \in 1..n |-> FrameView(stk[k])]
  BY DEF View
<1>2. \A k \in 1..n : FrameView(stk[k]) \in S
  OBVIOUS
<1> HIDE DEF S
<1>3. View(stk) \in [1..n -> S]
  BY ONLY <1>1, <1>2
<1>4. Len(View(stk)) = n
  BY ONLY <1>3, n \in Nat
<1> QED
  BY <1>1, <1>4

(* The innermost activation goes on. *)
FrameOwes(f, D, G, root) ==
  /\ f.ctx \in Below(ctxTab, root.id)
  /\ {y.id : y \in f.kids} \subseteq Below(ctxTab, root.id)
  /\ f.at \in {"ctxs", "loop"} => Paid(G, f.ctx)
  /\ f.at = "loop" => \A c \in Under(f.ctx) : c \in D \/ c \in {y.id : y \in f.kids}
  /\ Pushing(f, G)

LEMMA TopFrameOwes ==
  ASSUME NEW stk, NEW n \in Nat \ {0}, Len(stk) = n, NEW D, NEW G, NEW root,
         Owes(View(stk), D, G, root), \A k \in 1..Len(stk) : Pushing(stk[k], G)
  PROVE  FrameOwes(stk[n], D, G, root) /\ G \subseteq RowsBelow(root)
<1>1. n \in 1..n /\ ~(n < n)
  OBVIOUS
<1>2. Len(View(stk)) = n /\ View(stk)[n] = FrameView(stk[n])
  BY <1>1, ViewOf
<1>3. CallOwes(View(stk), n, D, G, root) /\ G \subseteq RowsBelow(root)
  BY <1>1, <1>2 DEF Owes
<1> QED
  BY <1>1, <1>2, <1>3 DEF CallOwes, FrameView, FrameOwes

LEMMA FrameSet ==
  ASSUME Reads, NEW n \in Nat \ {0}, n = Len(stack), NEW frame, Server!SetTop(frame)
  PROVE  Len(stack') = n /\ stack'[n] = frame /\ \A k \in 1..(n - 1) : stack'[k] = stack[k]
<1>1. stack \in Seq(ServerFrame) /\ stack' = [stack EXCEPT ![n] = frame]
  BY DEF Reads, Server!SetTop, Server!WithTop
<1>2. Len(stack') = n /\ stack'[n] = frame /\ \A k \in 1..n : k # n => stack'[k] = stack[k]
  BY <1>1
<1> QED
  BY <1>2

LEMMA FetchMoved ==
  ASSUME Reads, NEW n \in Nat \ {0}, n = Len(stack), NEW frame, Server!SetTop(frame),
         frame.ctx = stack[n].ctx, Fetched(stack, lines),
         Loaded(lines) \subseteq Loaded(lines'),
         \A root \in RootsOf(ctxTab) : \A D :
           FrameOwes(stack[n], D, Loaded(lines), root) /\ Loaded(lines) \subseteq RowsBelow(root) =>
             FrameOwes(frame, D, Loaded(lines'), root) /\ Loaded(lines') \subseteq RowsBelow(root)
  PROVE  Fetches
<1>1. PICK stk, ls, old2 : stk = stack' /\ ls = lines' /\ old2 = stack
  OBVIOUS
<1>2. /\ Len(stk) = n /\ stk[n] = frame /\ \A k \in 1..(n - 1) : stk[k] = old2[k]
      /\ Len(old2) = n
  BY <1>1, FrameSet
<1>3. stack # <<>>
  BY Len(<<>>) = 0
<1>4. Cardinality(RootsOf(ctxTab)) = 1
  BY <1>3 DEF Fetched
<1>4a. PICK root \in RootsOf(ctxTab) : \E D :
        /\ Owes(View(stack), D, Loaded(lines), root)
        /\ \A k \in 1..Len(stack) : Pushing(stack[k], Loaded(lines))
  BY <1>4 DEF Fetched
<1>5. PICK D :
        /\ Owes(View(stack), D, Loaded(lines), root)
        /\ \A k \in 1..Len(stack) : Pushing(stack[k], Loaded(lines))
  BY <1>4a
<1>6. PICK G, H : G = Loaded(lines) /\ H = Loaded(ls)
  OBVIOUS
<1>7. Owes(View(old2), D, G, root) /\ \A k \in 1..n : Pushing(old2[k], G)
  BY <1>1, <1>2, <1>5, <1>6
<1>8. FrameOwes(old2[n], D, G, root) /\ G \subseteq RowsBelow(root)
  BY <1>2, <1>7, TopFrameOwes
<1>9. FrameOwes(frame, D, H, root) /\ H \subseteq RowsBelow(root) /\ G \subseteq H
  BY <1>1, <1>6, <1>8
<1>10. PICK V, W : V = View(old2) /\ W = View(stk)
  OBVIOUS
<1>11. /\ Len(V) = n /\ \A k \in 1..n : V[k] = FrameView(old2[k])
       /\ Len(W) = n /\ \A k \in 1..n : W[k] = FrameView(stk[k])
  BY <1>2, <1>10, ViewOf
<1>12. \A k \in 1..(n - 1) : k \in 1..n /\ W[k] = V[k]
  BY <1>2, <1>11
<1>13. n \in 1..n /\ ~(n < n)
  OBVIOUS
<1>14. W[n] = FrameView(frame) /\ W[n].id = V[n].id
  <2>1. W[n] = FrameView(frame) /\ V[n] = FrameView(stack[n])
    BY <1>1, <1>2, <1>11, <1>13
  <2>2. FrameView(frame).id = frame.ctx /\ FrameView(stack[n]).id = stack[n].ctx
    BY DEF FrameView
  <2> QED
    BY <2>1, <2>2
<1>15. CallOwes(W, n, D, H, root)
  BY <1>9, <1>13, <1>14, <1>11 DEF CallOwes, FrameOwes, FrameView
<1>16. Owes(W, D, H, root)
  BY <1>7, <1>9, <1>10, <1>11, <1>12, <1>14, <1>15, OwesMoved
<1>17. ASSUME NEW k \in 1..n PROVE Pushing(stk[k], H)
  <2>1. CASE k = n
    BY <1>2, <1>9, <2>1 DEF FrameOwes
  <2>2. CASE k # n
    <3>1. k \in 1..(n - 1)
      BY <2>2
    <3>2. stk[k] = old2[k] /\ Pushing(old2[k], G)
      BY <1>2, <1>7, <3>1
    <3> QED
      BY <1>9, <3>2 DEF Pushing
  <2> QED
    BY <2>1, <2>2
<1> QED
  BY <1>1, <1>2, <1>4, <1>6, <1>10, <1>16, <1>17 DEF Fetches, Fetched

LEMMA LoadedMore ==
  ASSUME NEW S, NEW ls \in Seq(S), NEW l \in S
  PROVE  Loaded(Append(ls, l)) = Loaded(ls) \union (IF l.kind = "dir" THEN {<<l.ctx, ConfOf(l)>>} ELSE {})
<1>0. Len(ls) \in Nat /\ Append(ls, l) \in Seq(S)
  BY AppendProperties
<1>1. PICK n \in Nat, all \in Seq(S) : n = Len(ls) /\ all = Append(ls, l)
  BY ONLY <1>0, Zenon
<1>2. /\ DOMAIN ls = 1..n /\ DOMAIN all = 1..(n + 1) /\ all[n + 1] = l
      /\ \A i \in 1..n : all[i] = ls[i]
  BY <1>1
<1>3. 1..(n + 1) = (1..n) \union {n + 1}
  OBVIOUS
<1>4. Loaded(all) = Loaded(ls) \union (IF l.kind = "dir" THEN {<<l.ctx, ConfOf(l)>>} ELSE {})
  BY <1>2, <1>3 DEF Loaded
<1> QED
  BY <1>1, <1>4

(* The mappings of directives that have rows to a context.                   *)
MapsTo(c) == {i \in DOMAIN mapTab : mapTab[i].ctx = c /\ \E x \in confTab : x.id = mapTab[i].conf}

LEMMA ServerMaps ==
  ASSUME Typed, NEW id
  PROVE  Server!DirsOf(AsTable, id) = MapsTo(id)
<1>1. /\ AsTable.confs = {i \in DOMAIN mapTab : \E c \in confTab : c.id = mapTab[i].conf}
      /\ AsTable.maps = {<<i, mapTab[i].ctx>> : i \in DOMAIN mapTab}
  BY DEF AsTable
<1>2. \A i \in DOMAIN mapTab : i \in Ids
  BY DEF Typed, TypeOK, Ids
<1>3. \A i \in DOMAIN mapTab : <<i, id>> \in AsTable.maps <=> mapTab[i].ctx = id
  BY <1>1
<1> QED
  BY <1>1, <1>2, <1>3 DEF Server!DirsOf, MapsTo

(* The rows with this id, of which there is one at most; those below it, and *)
(* the directives: the server sees what is in the tables.                    *)
LEMMA ServerRows ==
  ASSUME Typed, NEW lab, NEW dir, Remembered(lab, dir), Numbered, NEW id
  PROVE  /\ ~(Server!Cardinality(Server!RowsOf(Server!Now, id)) > 1)
         /\ {y.id : y \in Server!KidsOf(Server!Now, id)} = Under(id)
         /\ {<<id, mapTab[d].conf>> : d \in Server!DirsOf(Server!Now, id)} = Applying(id)
<1>1. Server!Now = AsTable
  BY ServerSees
<1> DEFINE seen(r) == [id |-> r.id, parent |-> r.parent, key |-> "named",
                       val |-> IF r.label = Default THEN "null" ELSE "text"]
<1>2. AsTable.ctxs = {seen(r) : r \in ctxTab}
  BY DEF AsTable
<1>3. \A r \in ctxTab : seen(r).id = r.id /\ seen(r).parent = r.parent /\ r.id \in Ids
  BY DEF Remembered, Ids, Typed, TypeOK
<1> HIDE DEF seen
<1>4. Single(Server!RowsOf(Server!Now, id))
  BY <1>1, <1>2, <1>3 DEF Server!RowsOf, Single, Numbered
<1>5. ~(Server!Cardinality(Server!RowsOf(Server!Now, id)) > 1)
  <2>1. PICK S : S = Server!RowsOf(Server!Now, id)
    OBVIOUS
  <2>2. S = {} \/ \E x : S = {x}
    BY <1>4, <2>1 DEF Single
  <2>3. Cardinality(S) = 0 \/ Cardinality(S) = 1
    BY <2>2, FS_EmptySet, FS_Singleton
  <2>4. ~(Cardinality(S) > 1)
    BY <2>3
  <2> QED
    BY <2>1, <2>4, SameCount
<1>6. {y.id : y \in Server!KidsOf(Server!Now, id)} = Under(id)
  BY <1>1, <1>2, <1>3 DEF Server!KidsOf, Under
<1>7. Server!DirsOf(Server!Now, id) = MapsTo(id)
  BY <1>1, ServerMaps
<1>8. ASSUME NEW d \in MapsTo(id) PROVE <<id, mapTab[d].conf>> \in Applying(id)
  <2>1. mapTab[d] \in Values(mapTab) /\ mapTab[d].ctx = id
    BY DEF MapsTo, Values
  <2> QED
    BY <2>1 DEF Applying, MapsTo
<1>9. ASSUME NEW p \in Applying(id) PROVE \E d \in MapsTo(id) : p = <<id, mapTab[d].conf>>
  <2>1. PICK m \in Values(mapTab), c \in confTab : m.ctx = id /\ c.id = m.conf /\ p = <<id, m.conf>>
    BY DEF Applying
  <2>2. PICK d \in DOMAIN mapTab : m = mapTab[d]
    BY DEF Values
  <2>3. d \in MapsTo(id)
    BY <2>1, <2>2 DEF MapsTo
  <2> QED
    BY <2>1, <2>2, <2>3
<1> QED
  BY <1>5, <1>6, <1>7, <1>8, <1>9

(* It begins if the answer to its first query has one row, which it has if   *)
(* and only if there is one root.                                            *)
LEMMA ServerRoots ==
  ASSUME Typed, Finite, Numbered
  PROVE  /\ Server!Cardinality(Server!RootRows) = 1 <=> Cardinality(RootsOf(ctxTab)) = 1
         /\ Cardinality(RootsOf(ctxTab)) = 1 =>
              \E root \in RootsOf(ctxTab) : Server!RootIds = {root.id}
<1> DEFINE seen(r) == [id |-> r.id, parent |-> r.parent, key |-> "named",
                       val |-> IF r.label = Default THEN "null" ELSE "text"]
<1>1. Server!Now.ctxs = {seen(r) : r \in ctxTab}
  BY ServerSees DEF AsTable
<1>2. \A r \in ctxTab : seen(r).id = r.id /\ seen(r).parent = r.parent
  OBVIOUS
<1> HIDE DEF seen
<1>3. PICK S, T : S = RootsOf(ctxTab) /\ T = Server!RootRows
  OBVIOUS
<1>4. T = {seen(r) : r \in S}
  <2>1. T = {x \in Server!Now.ctxs : x.parent = Null}
    BY <1>3 DEF Server!RootRows, Null
  <2> QED
    BY <1>1, <1>2, <1>3, <2>1 DEF RootsOf
<1>5. IsFiniteSet(S)
  BY <1>3, FS_Subset DEF Finite, RootsOf
<1>6. \A r, s \in S : seen(r) = seen(s) => r = s
  BY <1>2, <1>3 DEF Numbered, RootsOf
<1>7. PICK f : f = [r \in S |-> seen(r)]
  OBVIOUS
<1>8. f \in [S -> T] /\ \A r \in S : f[r] = seen(r)
  BY <1>4, <1>7
<1>9. f \in Surjection(S, T) /\ f \in Injection(S, T)
  BY <1>4, <1>6, <1>8 DEF Surjection, Injection, IsInjective
<1>10. IsFiniteSet(T) /\ Cardinality(T) = Cardinality(S)
  BY <1>5, <1>9, FS_Surjection
<1>11. Cardinality(S) = 1 => \E root \in S : Server!RootIds = {root.id}
  <2> SUFFICES ASSUME Cardinality(S) = 1 PROVE \E root \in S : Server!RootIds = {root.id}
    OBVIOUS
  <2>1. PICK root : S = {root}
    BY <1>5, FS_Singleton
  <2>2. Server!RootIds = {x.id : x \in T}
    BY <1>3 DEF Server!RootIds
  <2>3. T = {seen(root)} /\ root \in ctxTab
    BY <1>3, <1>4, <2>1 DEF RootsOf
  <2> QED
    BY <1>2, <2>1, <2>2, <2>3
<1> QED
  BY <1>3, <1>10, <1>11, SameCount

(* The server begins, ... *)
LEMMA FetchBegins ==
  ASSUME Typed, Finite, Numbered, stack = <<>>, lines = <<>>, Server!SelectRoot
  PROVE  Fetches
<1>1. PICK seen \in {"intact"}, id \in Server!RootIds \union {ZeroId} :
        /\ id = ZeroId <=> Server!RootRows = {}
        /\ \/ /\ seen = "intact" => Server!Cardinality(Server!RootRows) = 1
              /\ stack' = <<Server!NewFrame(id)>>
           \/ /\ seen = "intact" => Server!Cardinality(Server!RootRows) # 1
              /\ stack' = stack
  BY DEF Server!SelectRoot
<1>2. PICK stk, ls : stk = stack' /\ ls = lines'
  OBVIOUS
<1>3. ls = <<>>
  BY <1>2 DEF Server!SelectRoot
<1>4. CASE Cardinality(RootsOf(ctxTab)) # 1
  <2>1. stk = <<>>
    BY <1>1, <1>2, <1>4, ServerRoots
  <2> QED
    BY <1>2, <1>3, <1>4, <2>1 DEF Fetches, Fetched
<1>5. CASE Cardinality(RootsOf(ctxTab)) = 1
  <2>1. PICK root \in RootsOf(ctxTab) : Server!RootIds = {root.id}
    BY <1>5, ServerRoots
  <2>2. stk = <<Server!NewFrame(id)>>
    BY <1>1, <1>2, <1>5, ServerRoots
  <2>3. id = root.id
    <3>1. Server!RootRows # {}
      BY <2>1 DEF Server!RootIds
    <3> QED
      BY <1>1, <2>1, <3>1
  <2>4. /\ Len(stk) = 1 /\ stk[1].ctx = id /\ stk[1].at = "row" /\ stk[1].kids = {}
    BY <2>2 DEF Server!NewFrame
  <2>5. PICK W : W = View(stk)
    OBVIOUS
  <2>6. Len(W) = 1 /\ W[1] = FrameView(stk[1])
    BY <2>4, <2>5, ViewOf
  <2>7. W[1].id = root.id /\ W[1].at = "row" /\ W[1].subs = {}
    BY <2>3, <2>4, <2>6 DEF FrameView
  <2>8. root \in ctxTab
    BY DEF RootsOf
  <2>9. Owes(W, {}, {}, root)
    BY <2>6, <2>7, <2>8, OwesBegun
  <2>10. Loaded(ls) = {}
    BY <1>3 DEF Loaded
  <2>11. \A k \in 1..Len(stk) : Pushing(stk[k], Loaded(ls))
    BY <2>4 DEF Pushing
  <2> QED
    BY <1>2, <1>5, <2>5, <2>9, <2>10, <2>11 DEF Fetches, Fetched
<1> QED
  BY <1>4, <1>5

(* ... reads on in the innermost activation, ... *)
LEMMA StackTop ==
  ASSUME Reads, stack # <<>>
  PROVE  \E n \in Nat \ {0} : /\ n = Len(stack) /\ n \in 1..n /\ Server!Top = stack[n]
                              /\ stack[n] \in ServerFrame
<1>1. Len(stack) \in Nat \ {0} /\ Len(stack) \in 1..Len(stack) /\ stack[Len(stack)] \in ServerFrame
  BY DEF Reads
<1>2. PICK n \in Nat \ {0} : n = Len(stack)
  BY ONLY <1>1, Zenon
<1> QED
  BY <1>1, <1>2 DEF Server!Top

(* A tag is no directive. *)
LEMMA TagLoaded ==
  ASSUME lines \in Seq(ServerLine), NEW id \in Nat,
         \/ lines' = lines
         \/ lines' = Append(lines, Server!OpenTag(id))
         \/ lines' = Append(lines, Server!CloseTag(id))
  PROVE  lines' \in Seq(ServerLine) /\ Loaded(lines') = Loaded(lines)
<1>1. CASE lines' = lines
  BY <1>1
<1>2. ASSUME NEW l \in ServerLine, l.kind # "dir", lines' = Append(lines, l)
      PROVE  lines' \in Seq(ServerLine) /\ Loaded(lines') = Loaded(lines)
  <2>1. Loaded(Append(lines, l)) = Loaded(lines) \union (IF l.kind = "dir" THEN {<<l.ctx, ConfOf(l)>>} ELSE {})
    BY LoadedMore
  <2>2. Append(lines, l) \in Seq(ServerLine)
    OBVIOUS
  <2> QED
    BY <1>2, <2>1, <2>2
<1>3. /\ Server!OpenTag(id) \in ServerLine /\ Server!OpenTag(id).kind # "dir"
      /\ Server!CloseTag(id) \in ServerLine /\ Server!CloseTag(id).kind # "dir"
  BY DEF Server!OpenTag, Server!CloseTag, ServerLine, Null
<1> QED
  BY <1>1, <1>2, <1>3

LEMMA FetchRow ==
  ASSUME Reads, lines \in Seq(ServerLine), Fetched(stack, lines),
         Server!ReadRow \/ (Server!RowVanished /\ pcS' # "crashed")
  PROVE  Fetches
<1>1. stack # <<>>
  BY DEF Server!ReadRow, Server!RowVanished, Server!In
<1>2. PICK n \in Nat \ {0} : /\ n = Len(stack) /\ n \in 1..n /\ Server!Top = stack[n]
                             /\ stack[n] \in ServerFrame
  BY <1>1, StackTop
<1>3. stack[n].ctx \in Nat
  BY <1>2 DEF ServerFrame
<1>4. Loaded(lines') = Loaded(lines)
  <2>1. \/ lines' = lines
        \/ lines' = Append(lines, Server!OpenTag(stack[n].ctx))
    BY <1>2 DEF Server!ReadRow, Server!RowVanished, Server!Crash
  <2> QED
    BY <1>3, <2>1, TagLoaded
<1>5. \E frame : /\ Server!SetTop(frame) /\ frame.ctx = stack[n].ctx /\ frame.at = "conf"
                 /\ frame.kids = stack[n].kids
  <2>1. CASE Server!ReadRow
    <3>1. PICK r : Server!SetTop([stack[n] EXCEPT !.at = "conf", !.tagged = Server!IsTagged(r)])
      BY <1>2, <2>1 DEF Server!ReadRow
    <3> DEFINE frame == [stack[n] EXCEPT !.at = "conf", !.tagged = Server!IsTagged(r)]
    <3>2. frame.ctx = stack[n].ctx /\ frame.at = "conf" /\ frame.kids = stack[n].kids
      BY <1>2 DEF ServerFrame
    <3> QED
      BY <3>1, <3>2
  <2>2. CASE Server!RowVanished /\ pcS' # "crashed"
    <3> DEFINE frame == [stack[n] EXCEPT !.at = "conf"]
    <3>1. Server!SetTop(frame)
      BY <1>2, <2>2 DEF Server!RowVanished, Server!Crash
    <3>2. frame.ctx = stack[n].ctx /\ frame.at = "conf" /\ frame.kids = stack[n].kids
      BY <1>2 DEF ServerFrame
    <3> QED
      BY <3>1, <3>2
  <2> QED
    BY <2>1, <2>2
<1>6. PICK frame : /\ Server!SetTop(frame) /\ frame.ctx = stack[n].ctx /\ frame.at = "conf"
                   /\ frame.kids = stack[n].kids
  BY <1>5
<1>7. ASSUME NEW root, NEW D, FrameOwes(stack[n], D, Loaded(lines), root)
      PROVE  FrameOwes(frame, D, Loaded(lines), root)
  BY <1>6, <1>7 DEF FrameOwes, Pushing
<1> QED
  BY <1>2, <1>4, <1>6, <1>7, FetchMoved

LEMMA FetchConf ==
  ASSUME Typed, Reads, NEW lab, NEW dir, Remembered(lab, dir), Numbered, Fetched(stack, lines),
         Server!SelectConf
  PROVE  Fetches
<1>1. stack # <<>> /\ lines' = lines
  BY DEF Server!SelectConf, Server!In
<1>2. PICK n \in Nat \ {0} : /\ n = Len(stack) /\ n \in 1..n /\ Server!Top = stack[n]
                             /\ stack[n] \in ServerFrame
  BY <1>1, StackTop
<1>3. PICK id, dirs : id = stack[n].ctx /\ dirs = Server!DirsOf(Server!Now, id)
  OBVIOUS
<1>4. PICK frame : frame = [stack[n] EXCEPT !.at = "push", !.dirs = dirs]
  OBVIOUS
<1>5. /\ Server!SetTop(frame) /\ frame.ctx = stack[n].ctx /\ frame.at = "push"
      /\ frame.kids = stack[n].kids /\ frame.dirs = dirs
  BY <1>2, <1>3, <1>4 DEF Server!SelectConf, ServerFrame
<1>6. Unpushed(frame) = Applying(id)
  <2>1. {<<id, mapTab[d].conf>> : d \in Server!DirsOf(Server!Now, id)} = Applying(id)
    BY ServerRows
  <2> QED
    BY <1>3, <1>5, <2>1 DEF Unpushed
<1>7. ASSUME NEW root, NEW D, NEW G, FrameOwes(stack[n], D, G, root)
      PROVE  FrameOwes(frame, D, G, root)
  BY <1>3, <1>5, <1>6, <1>7 DEF FrameOwes, Pushing
<1> QED
  BY <1>1, <1>2, <1>5, <1>7, FetchMoved

LEMMA FetchPush ==
  ASSUME Typed, Reads, lines \in Seq(ServerLine), Fetched(stack, lines), Server!PushDirective
  PROVE  Fetches
<1>1. stack # <<>>
  BY DEF Server!PushDirective, Server!In
<1>2. PICK n \in Nat \ {0} : /\ n = Len(stack) /\ n \in 1..n /\ Server!Top = stack[n]
                             /\ stack[n] \in ServerFrame
  BY <1>1, StackTop
<1>3. PICK d \in stack[n].dirs :
        /\ lines' = Append(lines, Server!DirLine(stack[n].ctx, d))
        /\ Server!SetTop([stack[n] EXCEPT !.dirs = @ \ {d}])
  BY <1>2 DEF Server!PushDirective
<1>4. stack[n].at = "push" /\ stack[n].ctx \in Nat /\ d \in Nat
  BY <1>2, <1>3 DEF Server!PushDirective, Server!In, ServerFrame
<1>5. PICK id : id = stack[n].ctx
  OBVIOUS
<1>6. PICK frame : frame = [stack[n] EXCEPT !.dirs = @ \ {d}]
  OBVIOUS
<1>7. /\ Server!SetTop(frame) /\ frame.ctx = stack[n].ctx /\ frame.at = "push"
      /\ frame.kids = stack[n].kids /\ frame.dirs = stack[n].dirs \ {d}
  BY <1>2, <1>3, <1>4, <1>6 DEF ServerFrame
<1>8. PICK l \in ServerLine : /\ l = Server!DirLine(id, d) /\ l.kind = "dir" /\ l.ctx = id
                              /\ l.dir = d
  <2>1. /\ Server!DirLine(id, d) \in ServerLine /\ Server!DirLine(id, d).kind = "dir"
        /\ Server!DirLine(id, d).ctx = id /\ Server!DirLine(id, d).dir = d
    BY <1>4, <1>5 DEF Server!DirLine, ServerLine
  <2> QED
    BY <2>1
<1>9. lines' = Append(lines, l) /\ lines' \in Seq(ServerLine)
  BY <1>3, <1>5, <1>8
<1>10. Loaded(lines') = Loaded(lines) \union {<<id, mapTab[d].conf>>}
  <2>1. Loaded(Append(lines, l)) = Loaded(lines) \union (IF l.kind = "dir" THEN {<<l.ctx, ConfOf(l)>>} ELSE {})
    BY LoadedMore
  <2> QED
    BY <1>8, <1>9, <2>1 DEF ConfOf
<1>11. Unpushed(stack[n]) = Unpushed(frame) \union {<<id, mapTab[d].conf>>}
  BY <1>3, <1>5, <1>7 DEF Unpushed
<1>12. ASSUME NEW root, NEW D, FrameOwes(stack[n], D, Loaded(lines), root),
              Loaded(lines) \subseteq RowsBelow(root)
       PROVE  FrameOwes(frame, D, Loaded(lines'), root) /\ Loaded(lines') \subseteq RowsBelow(root)
  <2>1. /\ id \in Below(ctxTab, root.id)
        /\ Unpushed(stack[n]) \subseteq Applying(id)
        /\ Applying(id) \subseteq Loaded(lines) \union Unpushed(stack[n])
    BY <1>4, <1>5, <1>12 DEF FrameOwes, Pushing
  <2>2. Applying(id) \subseteq RowsBelow(root)
    BY <2>1, ApplyingBelow
  <2>3. Loaded(lines') \subseteq RowsBelow(root)
    BY <1>10, <1>11, <1>12, <2>1, <2>2
  <2>4. Pushing(frame, Loaded(lines'))
    BY <1>5, <1>7, <1>10, <1>11, <2>1 DEF Pushing
  <2>5. FrameOwes(frame, D, Loaded(lines'), root)
    BY <1>7, <1>12, <2>4 DEF FrameOwes
  <2> QED
    BY <2>3, <2>5
<1>13. Loaded(lines) \subseteq Loaded(lines')
  BY <1>10
<1> QED
  BY <1>2, <1>7, <1>12, <1>13, FetchMoved

LEMMA FetchPushed ==
  ASSUME Reads, Fetched(stack, lines), Server!DirectivesDone
  PROVE  Fetches
<1>1. stack # <<>> /\ lines' = lines
  BY DEF Server!DirectivesDone, Server!In
<1>2. PICK n \in Nat \ {0} : /\ n = Len(stack) /\ n \in 1..n /\ Server!Top = stack[n]
                             /\ stack[n] \in ServerFrame
  BY <1>1, StackTop
<1>3. stack[n].at = "push" /\ stack[n].dirs = {}
  BY <1>2 DEF Server!DirectivesDone, Server!In
<1>4. PICK frame : frame = [stack[n] EXCEPT !.at = "ctxs"]
  OBVIOUS
<1>5. /\ Server!SetTop(frame) /\ frame.ctx = stack[n].ctx /\ frame.at = "ctxs"
      /\ frame.kids = stack[n].kids
  BY <1>2, <1>4 DEF Server!DirectivesDone, ServerFrame
<1>6. Unpushed(stack[n]) = {}
  BY <1>3 DEF Unpushed
<1>7. ASSUME NEW root, NEW D, NEW G, FrameOwes(stack[n], D, G, root)
      PROVE  FrameOwes(frame, D, G, root)
  <2>1. Paid(G, stack[n].ctx)
    BY <1>3, <1>6, <1>7 DEF FrameOwes, Pushing, Paid
  <2> QED
    BY <1>5, <1>7, <2>1 DEF FrameOwes, Pushing
<1> QED
  BY <1>1, <1>2, <1>5, <1>7, FetchMoved

LEMMA FetchCtxs ==
  ASSUME Typed, Reads, NEW lab, NEW dir, Remembered(lab, dir), Numbered, Fetched(stack, lines),
         Server!SelectCtxs
  PROVE  Fetches
<1>1. stack # <<>> /\ lines' = lines
  BY DEF Server!SelectCtxs, Server!In
<1>2. PICK n \in Nat \ {0} : /\ n = Len(stack) /\ n \in 1..n /\ Server!Top = stack[n]
                             /\ stack[n] \in ServerFrame
  BY <1>1, StackTop
<1>3. PICK id, kids : id = stack[n].ctx /\ kids = Server!KidsOf(Server!Now, id)
  OBVIOUS
<1>4. PICK frame : frame = [stack[n] EXCEPT !.at = "loop", !.kids = kids]
  OBVIOUS
<1>5. /\ Server!SetTop(frame) /\ frame.ctx = stack[n].ctx /\ frame.at = "loop"
      /\ frame.kids = kids /\ stack[n].at = "ctxs"
  BY <1>2, <1>3, <1>4 DEF Server!SelectCtxs, Server!In, ServerFrame
<1>6. {y.id : y \in frame.kids} = Under(id)
  BY <1>3, <1>5, ServerRows
<1>7. ASSUME NEW root, NEW D, NEW G, FrameOwes(stack[n], D, G, root)
      PROVE  FrameOwes(frame, D, G, root)
  <2>1. id \in Below(ctxTab, root.id) /\ Paid(G, id)
    BY <1>3, <1>5, <1>7 DEF FrameOwes
  <2>2. Under(id) \subseteq Below(ctxTab, root.id)
    BY <2>1, BelowKid
  <2> QED
    BY <1>3, <1>5, <1>6, <2>1, <2>2 DEF FrameOwes, Pushing
<1> QED
  BY <1>1, <1>2, <1>5, <1>7, FetchMoved

(* ... enters a sub-context, ... *)
LEMMA FetchEnters ==
  ASSUME Reads, Fetched(stack, lines), Server!EnterCtx
  PROVE  Fetches
<1>1. stack # <<>> /\ lines' = lines
  BY DEF Server!EnterCtx, Server!In
<1>2. PICK n \in Nat \ {0} : /\ n = Len(stack) /\ n \in 1..n /\ Server!Top = stack[n]
                             /\ stack[n] \in ServerFrame
  BY <1>1, StackTop
<1>3. PICK y \in stack[n].kids :
        stack' = Append(Server!WithTop([stack[n] EXCEPT !.kids = @ \ {y}]), Server!NewFrame(y.id))
  BY <1>2 DEF Server!EnterCtx
<1>4. PICK top, new : top = [stack[n] EXCEPT !.kids = @ \ {y}] /\ new = Server!NewFrame(y.id)
  OBVIOUS
<1>5. /\ top \in ServerFrame /\ top.ctx = stack[n].ctx /\ top.at = "loop" /\ stack[n].at = "loop"
      /\ top.kids = stack[n].kids \ {y}
  BY <1>2, <1>4 DEF ServerFrame, Server!EnterCtx, Server!In
<1>6. new \in ServerFrame /\ new.ctx = y.id /\ new.at = "row" /\ new.kids = {}
  <2>1. y.id \in Nat
    BY <1>2, <1>3 DEF ServerFrame, TableRow
  <2> QED
    BY <1>4, <2>1 DEF Server!NewFrame, ServerFrame
<1>7. PICK old2, stk : old2 = stack /\ stk = stack'
  OBVIOUS
<1>8. /\ Len(old2) = n /\ Len(stk) = n + 1 /\ stk[n + 1] = new /\ stk[n] = top
      /\ \A i \in 1..(n - 1) : stk[i] = old2[i]
  <2>1. stack' = Append([stack EXCEPT ![n] = top], new)
    BY <1>2, <1>3, <1>4 DEF Server!WithTop
  <2>2. /\ stack' \in Seq(ServerFrame) /\ Len(stack') = n + 1 /\ stack'[n + 1] = new
        /\ stack'[n] = top
        /\ \A i \in 1..(n - 1) : stack'[i] = stack[i]
    BY <1>1, <1>2, <1>5, <1>6, <2>1, LastReplacedAndAdded DEF Reads
  <2> QED
    BY <1>2, <1>7, <2>2
<1>9. Cardinality(RootsOf(ctxTab)) = 1
  BY <1>1 DEF Fetched
<1>9a. PICK root \in RootsOf(ctxTab) : \E D :
         /\ Owes(View(stack), D, Loaded(lines), root)
         /\ \A k \in 1..Len(stack) : Pushing(stack[k], Loaded(lines))
  BY <1>9 DEF Fetched
<1>10. PICK D :
         /\ Owes(View(stack), D, Loaded(lines), root)
         /\ \A k \in 1..Len(stack) : Pushing(stack[k], Loaded(lines))
  BY <1>9a
<1>11. PICK G, V, W : G = Loaded(lines) /\ V = View(old2) /\ W = View(stk)
  OBVIOUS
<1>12. Owes(V, D, G, root) /\ \A k \in 1..n : Pushing(old2[k], G)
  BY <1>7, <1>8, <1>10, <1>11
<1>13. Len(V) = n /\ \A k \in 1..n : V[k] = FrameView(old2[k])
  BY <1>8, <1>11, ViewOf
<1>14. Len(W) = n + 1 /\ \A k \in 1..(n + 1) : W[k] = FrameView(stk[k])
  BY <1>8, <1>11, ViewOf
<1>15. n + 1 \in 1..(n + 1) /\ n \in 1..(n + 1) /\ \A k \in 1..(n - 1) : k \in 1..n /\ k \in 1..(n + 1)
  OBVIOUS
<1>16. \A k \in 1..(n - 1) : W[k] = V[k]
  BY <1>8, <1>13, <1>14, <1>15
<1>17. /\ W[n] = FrameView(top) /\ W[n + 1] = FrameView(new) /\ V[n] = FrameView(stack[n])
  BY <1>2, <1>7, <1>8, <1>13, <1>14, <1>15
<1>18. PICK s : s = y.id
  OBVIOUS
<1>19. /\ W[n].id = V[n].id /\ W[n].at = "loop" /\ V[n].at = "loop"
       /\ W[n + 1].id = s /\ W[n + 1].at = "row" /\ W[n + 1].subs = {}
  BY <1>5, <1>6, <1>17, <1>18 DEF FrameView
<1>20. s \in V[n].subs /\ V[n].subs \subseteq W[n].subs \union {s} /\ W[n].subs \subseteq V[n].subs
  BY <1>3, <1>5, <1>17, <1>18 DEF FrameView
<1>21. Owes(W, D, G, root)
  BY <1>12, <1>13, <1>14, <1>16, <1>19, <1>20, OwesEntered
<1>22. ASSUME NEW k \in 1..(n + 1) PROVE Pushing(stk[k], G)
  <2>1. CASE k = n + 1
    BY <1>6, <1>8, <2>1 DEF Pushing
  <2>2. CASE k = n
    BY <1>5, <1>8, <2>2 DEF Pushing
  <2>3. CASE k # n + 1 /\ k # n
    <3>1. k \in 1..(n - 1)
      BY <2>3
    <3> QED
      BY <1>8, <1>12, <1>15, <3>1
  <2> QED
    BY <2>1, <2>2, <2>3
<1> QED
  BY <1>1, <1>7, <1>8, <1>9, <1>11, <1>21, <1>22 DEF Fetches, Fetched

(* ... and returns. *)
LEMMA FetchLeaves ==
  ASSUME Reads, lines \in Seq(ServerLine), Fetched(stack, lines), Server!LeaveCtx
  PROVE  Fetches
<1>1. stack # <<>>
  BY DEF Server!LeaveCtx, Server!In
<1>2. PICK n \in Nat \ {0} : /\ n = Len(stack) /\ n \in 1..n /\ Server!Top = stack[n]
                             /\ stack[n] \in ServerFrame
  BY <1>1, StackTop
<1>3. stack[n].at = "loop" /\ stack[n].kids = {} /\ stack[n].ctx \in Nat
  BY <1>2 DEF Server!LeaveCtx, Server!In, ServerFrame
<1>4. Loaded(lines') = Loaded(lines)
  <2>1. lines' = lines \/ lines' = Append(lines, Server!CloseTag(stack[n].ctx))
    BY <1>2 DEF Server!LeaveCtx
  <2> QED
    BY <1>3, <2>1, TagLoaded
<1>5. PICK old2, stk : old2 = stack /\ stk = stack'
  OBVIOUS
<1>6. PICK m \in Nat : m = n - 1
  OBVIOUS
<1>7. Len(old2) = n /\ Len(stk) = m /\ \A k \in 1..m : stk[k] = old2[k]
  <2>1. stack \in Seq(ServerFrame) /\ stack' = SubSeq(stack, 1, Len(stack) - 1)
    BY DEF Reads, Server!LeaveCtx, Server!Pop
  <2>2. /\ stack' \in Seq(ServerFrame) /\ Len(stack') = n - 1
        /\ \A k \in 1..(n - 1) : stack'[k] = stack[k]
    BY <1>1, <1>2, <2>1, LastDropped
  <2> QED
    BY <1>2, <1>5, <1>6, <2>2
<1>8. Cardinality(RootsOf(ctxTab)) = 1
  BY <1>1 DEF Fetched
<1>8a. PICK root \in RootsOf(ctxTab) : \E D :
        /\ Owes(View(stack), D, Loaded(lines), root)
        /\ \A k \in 1..Len(stack) : Pushing(stack[k], Loaded(lines))
  BY <1>8 DEF Fetched
<1>9. PICK D :
        /\ Owes(View(stack), D, Loaded(lines), root)
        /\ \A k \in 1..Len(stack) : Pushing(stack[k], Loaded(lines))
  BY <1>8a
<1>10. PICK G, V, W : G = Loaded(lines) /\ V = View(old2) /\ W = View(stk)
  OBVIOUS
<1>11. Owes(V, D, G, root) /\ \A k \in 1..n : Pushing(old2[k], G)
  BY <1>5, <1>7, <1>9, <1>10
<1>12. Len(V) = n /\ \A k \in 1..n : V[k] = FrameView(old2[k])
  BY <1>7, <1>10, ViewOf
<1>13. Len(W) = m /\ \A k \in 1..m : W[k] = FrameView(stk[k])
  BY <1>7, <1>10, ViewOf
<1>14. \A k \in 1..m : k \in 1..n
  BY <1>6
<1>15. Len(W) = n - 1 /\ \A k \in 1..(n - 1) : W[k] = V[k]
  BY <1>6, <1>7, <1>12, <1>13, <1>14
<1>16. V[n].at = "loop" /\ V[n].subs = {}
  <2>1. V[n] = FrameView(stack[n])
    BY <1>2, <1>5, <1>12
  <2> QED
    BY <1>3, <2>1 DEF FrameView
<1>17. Owes(W, D \union {V[n].id}, G, root)
  BY <1>11, <1>12, <1>15, <1>16, OwesLeft
<1>18. \A k \in 1..m : Pushing(stk[k], G)
  BY <1>7, <1>11, <1>14
<1> QED
  BY <1>4, <1>5, <1>7, <1>8, <1>10, <1>17, <1>18 DEF Fetches, Fetched

LEMMA LinesTyped ==
  ASSUME Reads, lines \in Seq(ServerLine),
         \/ Server!ReadRow \/ (Server!RowVanished /\ pcS' = "walk") \/ Server!SelectConf
         \/ Server!PushDirective \/ Server!DirectivesDone \/ Server!SelectCtxs
         \/ Server!EnterCtx \/ Server!LeaveCtx
  PROVE  lines' \in Seq(ServerLine)
<1>1. stack # <<>>
  BY DEF Server!ReadRow, Server!RowVanished, Server!SelectConf, Server!PushDirective,
         Server!DirectivesDone, Server!SelectCtxs, Server!EnterCtx, Server!LeaveCtx, Server!In
<1>2. PICK n \in Nat \ {0} : /\ n = Len(stack) /\ n \in 1..n /\ Server!Top = stack[n]
                             /\ stack[n] \in ServerFrame
  BY <1>1, StackTop
<1>3. stack[n].ctx \in Nat /\ stack[n].dirs \subseteq Nat
  BY <1>2 DEF ServerFrame
<1>4. \/ lines' = lines
      \/ lines' = Append(lines, Server!OpenTag(stack[n].ctx))
      \/ lines' = Append(lines, Server!CloseTag(stack[n].ctx))
      \/ \E d \in stack[n].dirs : lines' = Append(lines, Server!DirLine(stack[n].ctx, d))
  BY <1>2 DEF Server!ReadRow, Server!RowVanished, Server!SelectConf, Server!PushDirective,
              Server!DirectivesDone, Server!SelectCtxs, Server!EnterCtx, Server!LeaveCtx,
              Server!Crash
<1>5. ASSUME NEW d \in stack[n].dirs, lines' = Append(lines, Server!DirLine(stack[n].ctx, d))
      PROVE  lines' \in Seq(ServerLine)
  <2>1. d \in Nat
    BY <1>3
  <2>2. Server!DirLine(stack[n].ctx, d) \in ServerLine
    BY <1>3, <2>1 DEF Server!DirLine, ServerLine
  <2> QED
    BY <1>5, <2>2
<1> QED
  BY <1>3, <1>4, <1>5, TagLoaded

(* What the server has loaded, and delivers, if nobody writes meanwhile.     *)
ServerOwed ==
  /\ lines \in Seq(ServerLine)
  /\ pcS \in {"module", "load", "prepare", "define", "open", "root"} => stack = <<>> /\ lines = <<>>
  /\ pcS \in {"close", "cleanup", "done"} => stack = <<>>
  /\ quiet /\ pcS \in {"walk", "close", "cleanup", "done"} => Fetched(stack, lines)

LEMMA ServerOwedKept ==
  ASSUME ServerOwed, UNCHANGED <<stack, lines>>,
         \/ pcS' = pcS
         \/ pcS' \in {"load", "prepare", "define", "open", "root"} /\ stack = <<>> /\ lines = <<>>
         \/ pcS \in {"walk", "close", "cleanup", "done"} /\ pcS' \in {"cleanup", "done"} /\ stack = <<>>,
         quiet' /\ pcS \in {"walk", "close", "cleanup", "done"} =>
           quiet /\ UNCHANGED <<ctxTab, confTab, mapTab>>
  PROVE  ServerOwed'
<1>1. ASSUME quiet', pcS' \in {"walk", "close", "cleanup", "done"} PROVE Fetched(stack, lines)'
  <2>1. pcS \in {"walk", "close", "cleanup", "done"}
    BY <1>1
  <2>2. Fetched(stack, lines) /\ UNCHANGED <<ctxTab, confTab, mapTab>>
    BY <1>1, <2>1 DEF ServerOwed
  <2>3. PICK stk, ls : stk = stack /\ ls = lines
    OBVIOUS
  <2>4. Fetched(stk, ls)
    BY <2>2, <2>3
  <2>5. Fetched(stk, ls)'
    BY <2>2, <2>4, FetchedSame
  <2>6. stk = stack' /\ ls = lines'
    BY <2>3
  <2> QED
    BY <2>5, <2>6
<1> QED
  BY <1>1 DEF ServerOwed

(* The array of a server that crashes is as it was. *)
LEMMA WalkCrashes ==
  ASSUME Server!Walk, pcS' = "crashed"
  PROVE  UNCHANGED <<stack, lines>>
<1>1. Server!NullValue \/ Server!StackOverflow \/ (Server!RowVanished /\ pcS = "walk")
  BY DEF Server!Walk, Server!ReadRowFailed, Server!SelectFailed, Server!Abandon, Server!ReadRow,
         Server!RowVanished, Server!SelectConf, Server!PushDirective, Server!DirectivesDone,
         Server!SelectCtxs, Server!EnterCtx, Server!LeaveCtx, Server!In
<1> QED
  BY <1>1 DEF Server!NullValue, Server!StackOverflow, Server!RowVanished, Server!Crash

LEMMA ServerOwedServes ==
  ASSUME Kept, Kept', ServerOwed, ServerStep
  PROVE  ServerOwed'
<1>1. /\ Typed /\ Reads /\ Finite /\ Numbered
      /\ UNCHANGED <<ctxTab, confTab, mapTab>> /\ quiet' = quiet /\ Server!Step
  BY DEF Kept, Orderly, Trees, ServerStep, vars
<1>2. PICK lab, dir : Remembered(lab, dir)
  BY DEF Kept, NamesKept
<1>3. \A call : ~Server!Fails(call)
  BY DEF Server!Fails
<1>4. ASSUME Fetches, lines' \in Seq(ServerLine), pcS' = "walk" PROVE ServerOwed'
  <2>1. PICK stk, ls : stk = stack' /\ ls = lines' /\ Fetched(stk, ls)
    BY <1>4 DEF Fetches
  <2>2. Fetched(stk, ls)'
    BY <1>1, <2>1, FetchedSame
  <2>3. Fetched(stack, lines)'
    BY <2>1, <2>2
  <2> QED
    BY <1>4, <2>3 DEF ServerOwed
<1>5. ASSUME UNCHANGED <<stack, lines>>,
             \/ pcS' \in {"load", "prepare", "define", "open", "root"} /\ stack = <<>> /\ lines = <<>>
             \/ pcS \in {"walk", "close", "cleanup", "done"} /\ pcS' \in {"cleanup", "done"}
                /\ stack = <<>>
      PROVE  ServerOwed'
  BY <1>1, <1>5, ServerOwedKept
<1>6. CASE Server!CheckModule \/ Server!LoadBackend \/ Server!Prepare \/ Server!DefineConn
           \/ Server!OpenConn
  <2>1. /\ pcS \in {"module", "load", "prepare", "define", "open"} /\ UNCHANGED <<stack, lines>>
        /\ pcS' \in {"load", "prepare", "define", "open", "root"}
    BY <1>3, <1>6 DEF Server!CheckModule, Server!LoadBackend, Server!Prepare, Server!DefineConn,
                      Server!OpenConn, Server!Hook
  <2>2. stack = <<>> /\ lines = <<>>
    BY <2>1 DEF ServerOwed
  <2> QED
    BY <1>5, <2>1, <2>2
<1>7. ~Server!RootFailed
  BY <1>3 DEF Server!RootFailed, Server!NotUnique
<1>8. CASE Server!SelectRoot
  <2>1. pcS = "root" /\ pcS' = "walk" /\ lines' = lines
    BY <1>8 DEF Server!SelectRoot
  <2>2. stack = <<>> /\ lines = <<>> /\ lines' \in Seq(ServerLine)
    BY <2>1 DEF ServerOwed
  <2> QED
    BY <1>1, <1>4, <1>8, <2>1, <2>2, FetchBegins
<1>9. CASE Server!CloseConn \/ Server!CleanUp
  <2>1. /\ UNCHANGED <<stack, lines>> /\ pcS' \in {"cleanup", "done"}
        /\ pcS \in {"walk", "close", "cleanup"} /\ (pcS = "walk" => stack = <<>>)
    BY <1>3, <1>9 DEF Server!CloseConn, Server!CleanUp, Server!Return
  <2>2. stack = <<>>
    BY <2>1 DEF ServerOwed
  <2> QED
    BY <1>5, <2>1, <2>2
<1>10. CASE Server!Walk /\ pcS' = "crashed"
  <2>1. UNCHANGED lines
    BY <1>10, WalkCrashes
  <2> QED
    BY <1>10, <2>1 DEF ServerOwed
<1>11. CASE Server!Walk /\ pcS' # "crashed"
  <2>1. ~Server!ReadRowFailed
    BY <1>1, <1>2, <1>3, ServerRows DEF Server!ReadRowFailed
  <2>2. ~Server!SelectFailed
    BY <1>3 DEF Server!SelectFailed
  <2>3. ~Server!NullValue /\ ~Server!StackOverflow
    BY <1>11 DEF Server!NullValue, Server!StackOverflow, Server!Crash
  <2>4. \/ Server!ReadRow \/ Server!RowVanished \/ Server!SelectConf \/ Server!PushDirective
        \/ Server!DirectivesDone \/ Server!SelectCtxs \/ Server!EnterCtx \/ Server!LeaveCtx
    BY <1>11, <2>1, <2>2, <2>3 DEF Server!Walk
  <2>5. pcS = "walk" /\ pcS' = "walk"
    BY <1>11, <2>4 DEF Server!ReadRow, Server!RowVanished, Server!SelectConf, Server!PushDirective,
                      Server!DirectivesDone, Server!SelectCtxs, Server!EnterCtx, Server!LeaveCtx,
                      Server!In, Server!Crash
  <2>6. lines \in Seq(ServerLine)
    BY DEF ServerOwed
  <2>7. lines' \in Seq(ServerLine)
    BY <1>1, <1>11, <2>4, <2>5, <2>6, LinesTyped
  <2>8. CASE quiet
    <3>1. Fetched(stack, lines)
      BY <2>5, <2>8 DEF ServerOwed
    <3>2. Fetches
      BY <1>1, <1>2, <1>11, <2>4, <2>6, <3>1, FetchRow, FetchConf, FetchPush, FetchPushed, FetchCtxs,
         FetchEnters, FetchLeaves
    <3> QED
      BY <1>4, <2>5, <2>7, <3>2
  <2>9. CASE ~quiet
    BY <1>1, <2>5, <2>7, <2>9 DEF ServerOwed
  <2> QED
    BY <2>8, <2>9
<1> QED
  BY <1>1, <1>6, <1>7, <1>8, <1>9, <1>10, <1>11 DEF Server!Step

(* The programs that do not read have not begun. *)
Apiece ==
  /\ reader \in {"server", "export"}
  /\ reader = "export" => pcS = "module"
  /\ reader = "server" => step = "start"

Owed == Kept /\ Apiece /\ ExportOwed /\ ServerOwed

LEMMA OwedInitially == RoundTripInit => Owed
<1> SUFFICES ASSUME RoundTripInit PROVE Owed
  OBVIOUS
<1>1. /\ step = "start" /\ text = <<>> /\ pcS = "module" /\ stack = <<>> /\ lines = <<>>
      /\ reader \in {"server", "export"}
  BY RoundTripAssumption DEF RoundTripInit, Export!Init, Server!Init
<1>2. Apiece /\ ExportOwed
  BY <1>1 DEF Apiece, ExportOwed
<1>3. lines \in Seq(ServerLine)
  BY <1>1
<1>4. ServerOwed
  BY <1>1, <1>3 DEF ServerOwed
<1> QED
  BY <1>2, <1>4, KeptInitially DEF Owed

LEMMA OwedNext == Owed /\ [RoundTripNext]_allVars => Owed'
<1> SUFFICES ASSUME Owed, [RoundTripNext]_allVars PROVE Owed'
  OBVIOUS
<1>1. Kept /\ Kept' /\ Apiece /\ ExportOwed /\ ServerOwed
  BY KeptNext DEF Owed
<1>2. CASE ImporterStep
  <2>1. UNCHANGED <<reader, exportVars, step, pcS, stack, lines>>
    BY <1>2 DEF ImporterStep, readVars, exportVars, serverVars
  <2>2. quiet' /\ Reading => quiet /\ UNCHANGED <<ctxTab, confTab, mapTab>>
    BY <1>2 DEF ImporterStep
  <2>3. ExportOwed'
    BY <1>1, <2>1, <2>2, ExportOwedKept DEF Reading
  <2>4. ServerOwed'
    BY <1>1, <2>1, <2>2, ServerOwedKept DEF Reading
  <2> QED
    BY <1>1, <2>1, <2>3, <2>4 DEF Owed, Apiece
<1>3. CASE ExportStep
  <2>1. /\ UNCHANGED <<reader, pcS, stack, lines, ctxTab, confTab, mapTab, quiet>>
        /\ reader = "export"
    BY <1>3 DEF ExportStep, serverVars, vars
  <2>2. ExportOwed'
    BY <1>1, <1>3, ExportOwedExports
  <2>3. ServerOwed'
    BY <1>1, <2>1, ServerOwedKept
  <2> QED
    BY <1>1, <2>1, <2>2, <2>3 DEF Owed, Apiece
<1>4. CASE ServerStep
  <2>1. /\ UNCHANGED <<reader, exportVars, step, ctxTab, confTab, mapTab, quiet>>
        /\ reader = "server"
    BY <1>4 DEF ServerStep, exportVars, vars
  <2>2. ServerOwed'
    BY <1>1, <1>4, ServerOwedServes
  <2>3. ExportOwed'
    BY <1>1, <2>1, ExportOwedKept
  <2> QED
    BY <1>1, <2>1, <2>2, <2>3 DEF Owed, Apiece
<1>5. CASE UNCHANGED allVars
  <2>1. UNCHANGED <<reader, exportVars, step, pcS, stack, lines, ctxTab, confTab, mapTab, quiet>>
    BY <1>5 DEF allVars, readVars, exportVars, serverVars, vars
  <2>2. ExportOwed' /\ ServerOwed'
    BY <1>1, <2>1, ExportOwedKept, ServerOwedKept
  <2> QED
    BY <1>1, <2>1, <2>2 DEF Owed, Apiece
<1> QED
  BY <1>2, <1>3, <1>4, <1>5 DEF RoundTripNext

LEMMA ExportedWhole ==
  ASSUME Owed, Served, reader = "export"
  PROVE  IF RootsOf(ctxTab) = {} THEN Delivered = <<>>
         ELSE \E r \in RootsOf(ctxTab) : RowsOf(Delivered) = RowsBelow(r)
<1>1. step = "end" /\ quiet
  BY DEF Owed, Apiece, Served
<1>2. walk = <<>> /\ Delivered = text /\ Collected(walk, text)
  BY <1>1 DEF Owed, ExportOwed, Delivered
<1>3. CASE RootsOf(ctxTab) = {}
  BY <1>2, <1>3 DEF Collected, NothingFound
<1>4. CASE RootsOf(ctxTab) # {}
  <2>0. PICK root \in RootsOf(ctxTab) : \E D : Owes(walk, D, RowsOf(text), root)
    BY <1>2, <1>4 DEF Collected
  <2>1. PICK D : Owes(walk, D, RowsOf(text), root)
    BY <2>0
  <2>2. root \in ctxTab /\ Len(walk) = 0
    BY <1>2 DEF RootsOf
  <2>3. PICK W, G : W = walk /\ G = RowsOf(text)
    OBVIOUS
  <2>4. G = RowsBelow(root)
    BY <2>1, <2>2, <2>3, NothingOwed
  <2> QED
    BY <1>2, <1>4, <2>3, <2>4
<1> QED
  BY <1>3, <1>4

LEMMA ServedWhole ==
  ASSUME Owed, Served, reader = "server"
  PROVE  IF Cardinality(RootsOf(ctxTab)) # 1 THEN Delivered = <<>>
         ELSE \E r \in RootsOf(ctxTab) : RowsOf(Delivered) = RowsBelow(r)
<1>1. pcS = "done" /\ quiet
  BY DEF Owed, Apiece, Served
<1>2. stack = <<>> /\ Delivered = ServerText /\ Fetched(stack, lines) /\ lines \in Seq(ServerLine)
  BY <1>1 DEF Owed, ServerOwed, Delivered
<1>3. CASE Cardinality(RootsOf(ctxTab)) # 1
  <2>1. lines = <<>>
    BY <1>2, <1>3 DEF Fetched
  <2>2. ServerText = <<>>
    BY <2>1 DEF ServerText
  <2> QED
    BY <1>2, <1>3, <2>2
<1>4. CASE Cardinality(RootsOf(ctxTab)) = 1
  <2>0. PICK root \in RootsOf(ctxTab) : \E D : Owes(View(stack), D, Loaded(lines), root)
    BY <1>2, <1>4 DEF Fetched
  <2>1. PICK D : Owes(View(stack), D, Loaded(lines), root)
    BY <2>0
  <2>2. root \in ctxTab /\ Len(stack) = 0
    BY <1>2 DEF RootsOf
  <2>3. PICK W, G : W = View(stack) /\ G = Loaded(lines)
    OBVIOUS
  <2>4. Len(W) = 0
    BY <2>2, <2>3, ViewOf
  <2>5. G = RowsBelow(root)
    BY <2>1, <2>2, <2>3, <2>4, NothingOwed
  <2>6. DOMAIN ServerText = DOMAIN lines
    BY DEF ServerText
  <2>7. \A i \in DOMAIN lines : /\ ServerText[i].kind = lines[i].kind
                                /\ ServerText[i].ctx = lines[i].ctx
                                /\ ServerText[i].conf = ConfOf(lines[i])
    BY DEF ServerText
  <2>8. RowsOf(ServerText) = Loaded(lines)
    BY <2>6, <2>7 DEF RowsOf, Loaded
  <2> QED
    BY <1>2, <1>4, <2>3, <2>5, <2>8
<1> QED
  BY <1>3, <1>4

(* From tables in any state an import leaves them in, the server loads       *)
(* exactly the directives below the only row without a parent, and nothing   *)
(* if there are several; sql2conf.pl shows exactly those below one of them.  *)
(* So it is for every file and number of imports, and wherever they die, if  *)
(* nobody writes after the reader's first query.                             *)
THEOREM LoadsOne == RoundTripSpec => []OneConfiguration
<1>1. Owed => OneConfiguration
  <2> SUFFICES ASSUME Owed, Served PROVE OneConfiguration
    BY DEF OneConfiguration
  <2>1. CASE reader = "export"
    BY <2>1, ExportedWhole DEF OneConfiguration
  <2>2. CASE reader = "server"
    <3>1. RootsOf(ctxTab) = {} => Cardinality(RootsOf(ctxTab)) # 1
      BY FS_EmptySet
    <3> QED
      BY <2>2, <3>1, ServedWhole DEF OneConfiguration
  <2> QED
    BY <2>1, <2>2 DEF Owed, Apiece
<1> QED
  BY <1>1, OwedInitially, OwedNext, PTL DEF RoundTripSpec
=============================================================================
