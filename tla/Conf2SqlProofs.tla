--------------------------- MODULE Conf2SqlProofs ---------------------------
(***************************************************************************)
(* What conf2sql.pl does to the three tables, for all files, labels and    *)
(* directives, all numbers of runs, and all moments at which a run may     *)
(* die: proofs of six of the properties of Conf2SqlProps.                  *)
(*                                                                         *)
(* TypeOK does not say that the ctxnos in the tree and on the stack are    *)
(* those of contexts, nor that a call that waits for the id of a row still *)
(* has the directive or the sub-context the row is for.  Typed does.       *)
(*                                                                         *)
(* For Imported two invariants carry the proof.  Tree is about the file as *)
(* it was read: a context is listed once, by the context that contains it, *)
(* and those read after an open context began are all reachable from it.   *)
(* Walk is about the recursion: every context that was placed has its row  *)
(* and no other row is there, but for the one that was just inserted; and  *)
(* what a call has not yet done is the rest of its two lists.              *)
(***************************************************************************)
EXTENDS Conf2SqlProps, LastLemmas, FiniteSetTheorems

(* A node whose sub-contexts are among the first n. *)
NodeIn(n) == [label : Label \union {Default}, dirs : Seq(Dir), subs : Seq(1..n)]

(* A call for one of the first n nodes, with what its next statement needs. *)
CallIn(n) ==
  {c \in [node : 1..n, id : Nat, dirs : Seq(Dir), subs : Seq(1..n),
          at : {"insert", "select", "map", "find"}, conf : Nat] :
     /\ c.at \in {"select", "map"} => c.dirs # <<>>
     /\ c.at = "find" => c.subs # <<>>}

Typed ==
  /\ TypeOK
  /\ nodes \in Seq(NodeIn(Len(nodes)))
  /\ calls \in Seq(CallIn(Len(nodes)))
  /\ pc = "parse" => calls = <<>> /\ placed = <<>>

(* The server gives each row an id of its own. *)
Numbered ==
  /\ \A r \in ctxTab : r.id \in 1..lastCtx
  /\ \A r, s \in ctxTab : r.id = s.id => r = s

(* A context that is processed has its row. *)
RowsOfCalls ==
  pc = "process" => \A i \in 1..Len(calls) : \E r \in ctxTab : r.id = calls[i].id

Trees == Numbered /\ RowsOfCalls /\ Connected

Single(S) == \A r, s \in S : r = s

(* The roots, at each stage of a run that deletes what was there. *)
Rooted ==
  ~addConf =>
    /\ pc \in {"parse", "delctx"} => ctxTab = old.ctxs
    /\ pc \in {"delconf", "delmap", "root"} => RootsOf(ctxTab) = {}
    /\ pc \in {"findroot", "process", "done"} => Single(RootsOf(ctxTab))
    /\ pc = "dead" => ctxTab = old.ctxs \/ Single(RootsOf(ctxTab))

(* The tables are not touched before the file is read, and only emptied if   *)
(* --add-conf was not given.                                                 *)
Deletes ==
  /\ pc \in {"parse", "delctx", "delconf", "delmap"} => mapTab = old.maps
  /\ pc \in {"delctx", "delconf", "delmap"} => ~addConf

(* A call works off the directives of its context, into the row of a context *)
(* with the same tag.                                                        *)
OwnRow(c) ==
  /\ c.node \in DOMAIN placed
  /\ ctxs = <<1>> => \E r \in ctxTab : r.id = c.id /\ r.label = nodes[c.node].label
  /\ Values(c.dirs) \subseteq Values(nodes[c.node].dirs)
  /\ c.at = "map" => \E k \in confTab : k.id = c.conf /\ k.dir = Head(c.dirs)

RightCalls ==
  /\ nodes[1].label = Default
  /\ pc = "process" => \A c \in Values(calls) : OwnRow(c)

Mapped == Deletes /\ RightCalls /\ MapsRight

-----------------------------------------------------------------------------
(* Types. *)

(* A context that may name more sub-contexts; and what Typed says in the     *)
(* words of TypeOK.                                                          *)
LEMMA Wider ==
  ASSUME NEW n \in Nat
  PROVE  /\ NodeIn(n) \subseteq NodeIn(n + 1)
         /\ NodeIn(n) \subseteq Node
         /\ CallIn(n) \subseteq Call
         /\ Seq(NodeIn(n)) \subseteq Seq(NodeIn(n + 1))
         /\ Seq(NodeIn(n)) \subseteq Seq(Node)
         /\ Seq(CallIn(n)) \subseteq Seq(Call)
<1>1. 1..n \subseteq 1..(n + 1) /\ 1..n \subseteq Nat
  OBVIOUS
<1>2. Seq(1..n) \subseteq Seq(1..(n + 1)) /\ Seq(1..n) \subseteq Seq(Nat)
  BY <1>1, SeqMonotonic
<1>3. NodeIn(n) \subseteq NodeIn(n + 1) /\ NodeIn(n) \subseteq Node
  BY <1>2 DEF NodeIn, Node
<1>4. CallIn(n) \subseteq Call
  BY <1>1, <1>2 DEF CallIn, Call
<1> QED
  BY <1>3, <1>4, SeqMonotonic

LEMMA TypedInitially == Init => Typed
<1> SUFFICES ASSUME Init PROVE Typed
  OBVIOUS
<1> USE Conf2SqlAssumption
<1>1. NewNode(Default) \in NodeIn(1)
  BY DEF NewNode, NodeIn
<1>2. nodes \in Seq(NodeIn(1)) /\ Len(nodes) = 1 /\ nodes # <<>>
  BY <1>1 DEF Init, Started
<1>3. nodes \in Seq(Node)
  BY <1>2, Wider
<1>4. file \in Seq(FileLine) /\ pos \in 0..Len(file)
  BY DEF Init, Started
<1>5. ctxs \in Seq(1..1) /\ ctxs # <<>> /\ calls = <<>> /\ placed = <<>>
  BY DEF Init, Started
<1>6. /\ calls \in Seq(Call) /\ calls \in Seq(CallIn(1))
      /\ mapTab \in Seq(MapRow) /\ old.maps \in Seq(MapRow)
  BY <1>5 DEF Init
<1>7. DOMAIN placed \subseteq DOMAIN nodes /\ Values(placed) \subseteq Nat
  BY <1>5 DEF Values
<1> QED
  BY <1>2, <1>3, <1>4, <1>5, <1>6, <1>7 DEF Init, Started, Typed, TypeOK

(* A line is read. *)
LEMMA TypedParse == Typed /\ Parse => Typed'
<1> SUFFICES ASSUME Typed, Parse PROVE Typed'
  OBVIOUS
<1> USE Conf2SqlAssumption DEF Typed, TypeOK, options, tables, tree
<1>1. Len(nodes) \in Nat /\ Current \in 1..Len(nodes) /\ Len(ctxs) > 0
  BY DEF Current
<1>2. CASE OpenLine
  <2> DEFINE new == Len(nodes) + 1
             fuller == [nodes EXCEPT ![Current].subs = Append(@, new)]
  <2>1. Line \in FileLine /\ Line.what \in Label
    BY <1>2 DEF OpenLine, More, Line, FileLine
  <2>2. NewNode(Line.what) \in NodeIn(new)
    BY <2>1 DEF NewNode, NodeIn
  <2>3. nodes \in Seq(NodeIn(new))
    BY <1>1, Wider
  <2>4. fuller \in Seq(NodeIn(new)) /\ Len(fuller) = Len(nodes)
    <3> DEFINE full == [nodes[Current] EXCEPT !.subs = Append(@, new)]
    <3>1. nodes[Current] \in NodeIn(new)
      BY <1>1, <2>3
    <3>2. Append(nodes[Current].subs, new) \in Seq(1..new)
      <4>1. nodes[Current].subs \in Seq(1..new)
        <5> HIDE DEF Typed, TypeOK, new
        <5> QED BY <3>1 DEF NodeIn
      <4>2. new \in 1..new
        BY <1>1
      <4> QED
        BY <4>1, <4>2, AppendProperties
    <3>3. full \in NodeIn(new)
      BY <3>1, <3>2 DEF NodeIn
    <3>4. fuller = [nodes EXCEPT ![Current] = full]
      BY <1>1
    <3> QED
      BY <1>1, <2>3, <3>3, <3>4, ExceptSeq
  <2>5. nodes' = Append(fuller, NewNode(Line.what)) /\ ctxs' = <<new>> \o ctxs
    BY <1>2 DEF OpenLine
  <2>6. nodes' \in Seq(NodeIn(new)) /\ Len(nodes') = new /\ nodes' # <<>>
    BY <1>1, <2>2, <2>4, <2>5, LastAdded
  <2>7. nodes' \in Seq(Node)
    BY <1>1, <2>6, Wider
  <2>8. ctxs' \in Seq(1..new) /\ ctxs' # <<>>
    <3>1. ctxs \in Seq(1..new) /\ <<new>> \in Seq(1..new)
      BY <1>1, SeqMonotonic
    <3> QED
      BY <2>5, <3>1, ConcatProperties
  <2>9. pos' \in 0..Len(file)
    BY <1>2 DEF OpenLine, More
  <2>10. calls' = <<>> /\ placed' = <<>> /\ pc' = "parse"
    BY <1>2 DEF OpenLine
  <2>11. calls' \in Seq(CallIn(Len(nodes'))) /\ calls' \in Seq(Call)
    BY <2>10
  <2>12. DOMAIN placed' \subseteq DOMAIN nodes' /\ Values(placed)' \subseteq Nat
    BY <2>10 DEF Values
  <2> QED
    BY <1>2, <2>6, <2>7, <2>8, <2>9, <2>10, <2>11, <2>12 DEF OpenLine
<1>3. CASE CloseLine
  <2>1. ctxs' \in Seq(1..Len(nodes)) /\ ctxs' # <<>>
    <3> DEFINE rest == Tail(ctxs)
    <3>1. rest \in Seq(1..Len(nodes)) /\ Len(rest) = Len(ctxs) - 1 /\ Len(ctxs) \in Nat
      BY HeadTailProperties
    <3>2. ctxs' = IF Len(ctxs) > 1 THEN rest ELSE ctxs
      BY <1>3 DEF CloseLine, Closed
    <3>3. ASSUME Len(ctxs) > 1 PROVE rest # <<>>
      <4> HIDE DEF rest, Typed, TypeOK
      <4> QED BY <3>1, <3>3
    <3> HIDE DEF rest
    <3> QED
      BY <3>1, <3>2, <3>3
  <2>2. pos' \in 0..Len(file)
    BY <1>3 DEF CloseLine, More
  <2> QED
    BY <1>3, <2>1, <2>2 DEF CloseLine, Values
<1>4. CASE BadClose
  BY <1>4 DEF BadClose, Values
<1>5. CASE DirLine
  <2> DEFINE full == [nodes[Current] EXCEPT !.dirs = Append(@, Line.what)]
  <2>1. Line \in FileLine /\ Line.what \in Dir
    BY <1>5 DEF DirLine, More, Line, FileLine
  <2>2. nodes[Current] \in NodeIn(Len(nodes))
    BY <1>1
  <2>3. full \in NodeIn(Len(nodes))
    <3>1. nodes[Current].dirs \in Seq(Dir)
      BY <2>2 DEF NodeIn
    <3>2. Append(nodes[Current].dirs, Line.what) \in Seq(Dir)
      BY <2>1, <3>1, AppendProperties
    <3> HIDE DEF Typed, TypeOK
    <3> QED
      BY <2>2, <3>2 DEF NodeIn
  <2>4. nodes' = [nodes EXCEPT ![Current] = full]
    BY <1>1, <1>5 DEF DirLine
  <2>5. nodes' \in Seq(NodeIn(Len(nodes))) /\ Len(nodes') = Len(nodes) /\ nodes' # <<>>
    BY <1>1, <2>3, <2>4, ExceptSeq
  <2>6. nodes' \in Seq(Node)
    BY <1>1, <2>5, Wider
  <2>7. DOMAIN nodes' = DOMAIN nodes
    BY <1>1, <2>5
  <2>8. pos' \in 0..Len(file)
    BY <1>5 DEF DirLine, More
  <2> QED
    BY <1>5, <2>5, <2>6, <2>7, <2>8 DEF DirLine, Values
<1>6. CASE EndOfFile
  BY <1>6 DEF EndOfFile, Values
<1> QED
  BY <1>2, <1>3, <1>4, <1>5, <1>6 DEF Parse
(* A statement is executed. *)
LEMMA TypedStatement == Typed /\ Statement => Typed'
<1> SUFFICES ASSUME Typed, Statement PROVE Typed'
  OBVIOUS
<1> USE Conf2SqlAssumption
<1> DEFINE n == Len(nodes)
<1>1. n \in Nat /\ nodes \in Seq(NodeIn(n)) /\ calls \in Seq(CallIn(n)) /\ TypeOK
  BY DEF Typed, TypeOK
<1>2. Current \in 1..n
  BY DEF Typed, TypeOK, Current
(* What is left to show of a statement. *)
<1>3. ASSUME UNCHANGED Script, pc # "parse",
             pc' \in {"delconf", "delmap", "root", "findroot", "process"},
             calls' \in Seq(CallIn(n)),
             ctxTab' \subseteq CtxRow, confTab' \subseteq ConfRow, mapTab' \in Seq(MapRow),
             lastCtx' \in Nat, lastConf' \in Nat,
             DOMAIN placed' \subseteq DOMAIN nodes, Values(placed)' \subseteq Nat
      PROVE  Typed'
  <2>1. calls' \in Seq(Call)
    BY <1>1, <1>3, Wider
  <2>2. nodes' = nodes /\ ctxs' = ctxs /\ pos' = pos
    BY <1>3 DEF Script, tree
  <2>3. file' = file /\ newline' = newline /\ addConf' = addConf /\ runs' = runs /\ old' = old
    BY <1>3 DEF Script, options
  <2> QED
    BY <1>3, <2>1, <2>2, <2>3 DEF Typed, TypeOK
(* A new call, of any node. *)
<1>4. ASSUME NEW node \in 1..n, NEW id \in Nat
      PROVE  NewCall(node, id) \in CallIn(n)
  <2>1. nodes[node] \in NodeIn(n)
    BY <1>1
  <2>2. nodes[node].dirs \in Seq(Dir) /\ nodes[node].subs \in Seq(1..n)
    BY <2>1 DEF NodeIn
  <2>3. 0 \in Nat
    OBVIOUS
  <2> HIDE DEF n
  <2> QED
    BY <2>2, <2>3 DEF NewCall, CallIn, Null
<1>5. ASSUME NEW node \in 1..n, NEW id \in Nat, Place(node, id)
      PROVE  DOMAIN placed' \subseteq DOMAIN nodes /\ Values(placed)' \subseteq Nat
  <2>1. \A x \in DOMAIN placed : placed[x] \in Nat
    BY <1>1 DEF TypeOK, Values
  <2>2. DOMAIN placed \subseteq DOMAIN nodes /\ node \in DOMAIN nodes
    BY <1>1 DEF TypeOK
  <2>3. /\ DOMAIN placed' = DOMAIN placed \union {node}
        /\ \A x \in DOMAIN placed' : placed'[x] = IF x = node THEN id ELSE placed[x]
    BY <1>5 DEF Place
  <2>4. \A x \in DOMAIN placed' : placed'[x] \in Nat
    BY <2>1, <2>3
  <2> QED
    BY <2>2, <2>3, <2>4 DEF Values
(* The innermost call. *)
<1>6. ASSUME NEW place, At(place)
      PROVE  /\ calls # <<>> /\ Len(calls) \in 1..Len(calls)
             /\ Top \in CallIn(n) /\ Top.at = place /\ pc = "process"
             /\ Top.node \in 1..n /\ Top.id \in Nat /\ Top.conf \in Nat
             /\ Top.dirs \in Seq(Dir) /\ Top.subs \in Seq(1..n)
             /\ place \in {"select", "map"} => Top.dirs # <<>>
             /\ place = "find" => Top.subs # <<>>
  <2>1. calls # <<>> /\ Len(calls) \in 1..Len(calls) /\ Top.at = place /\ pc = "process"
    BY <1>1, <1>6 DEF At
  <2>2. Top \in CallIn(n)
    BY <1>1, <2>1 DEF Top
  <2> HIDE DEF n
  <2> QED
    BY <2>1, <2>2 DEF CallIn
<1>7. ASSUME NEW call \in CallIn(n), calls # <<>>, SetTop(call)
      PROVE  calls' \in Seq(CallIn(n))
  BY <1>1, <1>7, LastReplaced DEF SetTop
(* The ids of rows. *)
<1>8. ASSUME NEW parent \in Nat, NEW label \in Label \union {Default},
             InsertCtxRow(parent, label)
      PROVE  /\ ctxTab' \subseteq CtxRow /\ lastCtx' \in Nat
             /\ confTab' \subseteq ConfRow /\ mapTab' \in Seq(MapRow) /\ lastConf' \in Nat
  BY <1>8 DEF InsertCtxRow, CtxRow, Typed, TypeOK
<1>9. \A node \in 1..n : nodes[node].label \in Label \union {Default}
  <2>1. \A node \in 1..n : nodes[node] \in NodeIn(n)
    BY <1>1
  <2> HIDE DEF n
  <2> QED BY <2>1 DEF NodeIn
<1>10. CASE DeleteCtxs
  BY <1>1, <1>10, <1>3 DEF DeleteCtxs, Values, TypeOK
<1>11. CASE DeleteConfs
  BY <1>1, <1>11, <1>3 DEF DeleteConfs, Values, TypeOK
<1>12. CASE DeleteMaps
  BY <1>1, <1>12, <1>3 DEF DeleteMaps, Values, TypeOK
<1>13. CASE InsertRoot
  <2>1. InsertCtxRow(Null, Default) /\ Null \in Nat
    BY <1>13 DEF InsertRoot, Null
  <2> QED
    BY <1>1, <1>3, <1>8, <1>13, <2>1 DEF InsertRoot, Values, TypeOK
<1>14. CASE SelectRoot
  <2>1. PICK r \in ctxTab : calls' = <<NewCall(Current, r.id)>> /\ Place(Current, r.id)
    BY <1>14 DEF SelectRoot
  <2>2. r.id \in Nat
    BY <1>1, <2>1 DEF TypeOK, CtxRow
  <2>3. calls' \in Seq(CallIn(n))
    BY <1>2, <1>4, <2>1, <2>2
  <2>4. DOMAIN placed' \subseteq DOMAIN nodes /\ Values(placed)' \subseteq Nat
    BY <1>2, <1>5, <2>1, <2>2
  <2> QED
    BY <1>1, <1>3, <1>14, <2>3, <2>4 DEF SelectRoot, tables, TypeOK
<1>15. CASE InsertConf
  <2> DEFINE call == [Top EXCEPT !.at = "select"]
  <2>1. At("insert") /\ Top.dirs # <<>> /\ SetTop(call)
    BY <1>15 DEF InsertConf
  <2>2. Top.dirs \in Seq(Dir) /\ Top \in CallIn(n) /\ calls # <<>> /\ pc = "process"
    BY <1>6, <2>1
  <2>3. call \in CallIn(n)
    <3> HIDE DEF n
    <3> QED BY <2>1, <2>2 DEF CallIn
  <2>4. Head(Top.dirs) \in Dir
    BY <2>1, <2>2
  <2>5. confTab' \subseteq ConfRow /\ lastConf' \in Nat
    BY <1>1, <1>15, <2>4 DEF InsertConf, ConfRow, TypeOK
  <2>6. calls' \in Seq(CallIn(n))
    BY <1>7, <2>1, <2>2, <2>3
  <2> QED
    BY <1>1, <1>3, <1>15, <2>2, <2>5, <2>6 DEF InsertConf, Values, TypeOK
<1>16. CASE SelectConf
  <2>1. PICK c \in SameDir(Head(Top.dirs)) : SetTop([Top EXCEPT !.at = "map", !.conf = c.id])
    BY <1>16 DEF SelectConf
  <2> DEFINE call == [Top EXCEPT !.at = "map", !.conf = c.id]
  <2>2. At("select")
    BY <1>16 DEF SelectConf
  <2>3. Top \in CallIn(n) /\ calls # <<>> /\ pc = "process" /\ Top.dirs # <<>>
    BY <1>6, <2>2
  <2>4. c.id \in Nat
    BY <1>1, <2>1 DEF SameDir, TypeOK, ConfRow
  <2>5. call \in CallIn(n)
    <3> HIDE DEF n
    <3> QED BY <2>3, <2>4 DEF CallIn
  <2>6. calls' \in Seq(CallIn(n))
    BY <1>7, <2>1, <2>3, <2>5
  <2> QED
    BY <1>1, <1>3, <1>16, <2>3, <2>6 DEF SelectConf, Values, TypeOK, tables
<1>17. CASE InsertMap
  <2> DEFINE call == [Top EXCEPT !.at = "insert", !.dirs = Tail(@)]
             row == [ctx |-> Top.id, conf |-> Top.conf]
  <2>1. At("map") /\ SetTop(call) /\ mapTab' = Append(mapTab, row)
    BY <1>17 DEF InsertMap
  <2>2. /\ Top \in CallIn(n) /\ calls # <<>> /\ pc = "process"
        /\ Top.id \in Nat /\ Top.conf \in Nat /\ Top.dirs \in Seq(Dir) /\ Top.dirs # <<>>
    BY <1>6, <2>1
  <2>3. Tail(Top.dirs) \in Seq(Dir)
    BY <2>2, HeadTailProperties
  <2>4. call \in CallIn(n)
    <3> HIDE DEF n
    <3> QED BY <2>2, <2>3 DEF CallIn
  <2>5. mapTab' \in Seq(MapRow)
    <3>1. row \in MapRow
      BY <2>2 DEF MapRow
    <3> QED
      BY <1>1, <2>1, <3>1, AppendProperties DEF TypeOK
  <2>6. calls' \in Seq(CallIn(n))
    BY <1>7, <2>1, <2>2, <2>4
  <2> QED
    BY <1>1, <1>3, <1>17, <2>2, <2>5, <2>6 DEF InsertMap, Values, TypeOK
<1>18. CASE InsertCtx
  <2> DEFINE call == [Top EXCEPT !.at = "find"]
  <2>1. /\ At("insert") /\ Top.subs # <<>> /\ SetTop(call)
        /\ InsertCtxRow(Top.id, nodes[Head(Top.subs)].label)
    BY <1>18 DEF InsertCtx
  <2>2. /\ Top \in CallIn(n) /\ calls # <<>> /\ pc = "process" /\ Top.id \in Nat
        /\ Top.subs \in Seq(1..n)
    BY <1>6, <2>1
  <2>3. call \in CallIn(n)
    <3> HIDE DEF n
    <3> QED BY <2>1, <2>2 DEF CallIn
  <2>4. Head(Top.subs) \in 1..n
    BY <2>1, <2>2
  <2>5. calls' \in Seq(CallIn(n))
    BY <1>7, <2>1, <2>2, <2>3
  <2>6. /\ ctxTab' \subseteq CtxRow /\ lastCtx' \in Nat
        /\ confTab' \subseteq ConfRow /\ mapTab' \in Seq(MapRow) /\ lastConf' \in Nat
    BY <1>8, <1>9, <2>1, <2>2, <2>4
  <2> QED
    BY <1>1, <1>3, <1>18, <2>2, <2>5, <2>6 DEF InsertCtx, Values, TypeOK
<1>19. CASE SelectCtx
  <2> DEFINE sub == Head(Top.subs)
             top == [Top EXCEPT !.at = "insert", !.subs = Tail(@)]
  <2>1. At("find")
    BY <1>19 DEF SelectCtx
  <2>2. /\ Top \in CallIn(n) /\ calls # <<>> /\ pc = "process" /\ Len(calls) \in 1..Len(calls)
        /\ Top.subs \in Seq(1..n) /\ Top.subs # <<>>
    BY <1>6, <2>1
  <2>3. PICK r \in Alike(nodes[sub].label, Top.id) :
          /\ calls' = Append([calls EXCEPT ![Len(calls)].at = "insert",
                                           ![Len(calls)].subs = Tail(@)],
                             NewCall(sub, r.id))
          /\ Place(sub, r.id)
    BY <1>19 DEF SelectCtx
  <2>4. r.id \in Nat
    BY <1>1, <2>3 DEF Alike, TypeOK, CtxRow
  <2>5. sub \in 1..n /\ Tail(Top.subs) \in Seq(1..n)
    BY <2>2, HeadTailProperties
  <2>6. top \in CallIn(n)
    <3> HIDE DEF n
    <3> QED BY <2>2, <2>5 DEF CallIn
  <2>7. [calls EXCEPT ![Len(calls)].at = "insert", ![Len(calls)].subs = Tail(@)]
          = [calls EXCEPT ![Len(calls)] = top]
    BY <1>1, <2>2 DEF Top
  <2>8. calls' \in Seq(CallIn(n))
    <3>1. NewCall(sub, r.id) \in CallIn(n)
      BY <1>4, <2>4, <2>5
    <3>2. calls' = Append([calls EXCEPT ![Len(calls)] = top], NewCall(sub, r.id))
      BY <2>3, <2>7
    <3>3. calls \in Seq(CallIn(n)) /\ calls # <<>>
      BY <1>1, <2>2
    <3> HIDE DEF n, top, sub
    <3> QED
      BY <2>6, <3>1, <3>2, <3>3, LastReplacedAndAdded
  <2>9. DOMAIN placed' \subseteq DOMAIN nodes /\ Values(placed)' \subseteq Nat
    BY <1>5, <2>3, <2>4, <2>5
  <2> QED
    BY <1>1, <1>3, <1>19, <2>2, <2>8, <2>9 DEF SelectCtx, TypeOK, tables
<1> QED
  BY <1>10, <1>11, <1>12, <1>13, <1>14, <1>15, <1>16, <1>17, <1>18, <1>19 DEF Statement
(* A run begins, with the tables as they are. *)
LEMMA TypedRerun == Typed /\ Rerun => Typed'
<1> SUFFICES ASSUME Typed, Rerun PROVE Typed'
  OBVIOUS
<1> USE Conf2SqlAssumption
<1>1. NewNode(Default) \in NodeIn(1)
  BY DEF NewNode, NodeIn
<1>2. nodes' \in Seq(NodeIn(1)) /\ Len(nodes') = 1 /\ nodes' # <<>>
  BY <1>1 DEF Rerun, Started
<1>3. nodes' \in Seq(Node)
  BY <1>2, Wider
<1>4. file' \in Seq(FileLine) /\ pos' \in 0..Len(file')
  BY DEF Rerun, Started
<1>5. ctxs' \in Seq(1..1) /\ ctxs' # <<>> /\ calls' = <<>> /\ placed' = <<>>
  BY DEF Rerun, Started
<1>6. calls' \in Seq(Call) /\ calls' \in Seq(CallIn(1))
  BY <1>5
<1>7. DOMAIN placed' \subseteq DOMAIN nodes' /\ Values(placed)' \subseteq Nat
  BY <1>5 DEF Values
<1>8. /\ old'.ctxs = ctxTab /\ old'.confs = confTab /\ old'.maps = mapTab
      /\ UNCHANGED tables /\ runs' = runs + 1 /\ pc' = "parse"
      /\ newline' \in BOOLEAN /\ addConf' \in BOOLEAN
  BY DEF Rerun, Started
<1> QED
  BY <1>2, <1>3, <1>4, <1>5, <1>6, <1>7, <1>8 DEF Typed, TypeOK, tables

LEMMA TypedNext == Typed /\ [Next]_vars => Typed'
<1> SUFFICES ASSUME Typed, [Next]_vars PROVE Typed'
  OBVIOUS
<1>1. CASE Parse
  BY <1>1, TypedParse
<1>2. CASE Statement
  BY <1>2, TypedStatement
<1>3. CASE Return
  <2>1. calls \in Seq(CallIn(Len(nodes))) /\ calls # <<>> /\ pc = "process"
    BY <1>3 DEF Typed, Return, At
  <2>2. calls' \in Seq(CallIn(Len(nodes)))
    BY <1>3, <2>1, LastDropped DEF Return
  <2>3. calls' \in Seq(Call)
    <3>1. Len(nodes) \in Nat
      BY DEF Typed, TypeOK
    <3> QED
      BY <2>2, <3>1, Wider
  <2> QED
    BY <1>3, <2>1, <2>2, <2>3
    DEF Return, Typed, TypeOK, Values, Script, options, tree, tables
<1>4. CASE Exit
  BY <1>4 DEF Exit, Typed, TypeOK, Values, Script, options, tree, tables
<1>5. CASE Die
  BY <1>5 DEF Die, Typed, TypeOK, Values, Script, options, tree, tables
<1>6. CASE Rerun
  BY <1>6, TypedRerun
<1>7. CASE UNCHANGED vars
  BY <1>7 DEF vars, Typed, TypeOK, Values
<1> QED
  BY <1>1, <1>2, <1>3, <1>4, <1>5, <1>6, <1>7 DEF Next, Step

(* Every variable of the script holds what it may, however it is run. *)
THEOREM ScriptTypeCorrect == Spec => []TypeOK
<1>1. Typed => TypeOK
  BY DEF Typed
<1> QED
  BY <1>1, TypedInitially, TypedNext, PTL DEF Spec

-----------------------------------------------------------------------------
(* Trees of rows. *)

(* A statement that adds a row for a context. *)
LEMMA TreesInsert ==
  ASSUME Typed, Trees, NEW parent \in Nat, NEW label \in Label \union {Default},
         InsertCtxRow(parent, label),
         parent # Null => \E s \in ctxTab : s.id = parent
  PROVE  Numbered' /\ Connected' /\ ctxTab \subseteq ctxTab'
<1> DEFINE row == [id |-> lastCtx + 1, parent |-> parent, label |-> label]
<1>1. ctxTab' = ctxTab \union {row} /\ lastCtx' = lastCtx + 1 /\ lastCtx \in Nat
  BY DEF InsertCtxRow, Typed, TypeOK
<1>2. row.id = lastCtx + 1 /\ row.parent = parent
  OBVIOUS
<1>3. \A r \in ctxTab : r.id \in 1..lastCtx
  BY DEF Trees, Numbered
<1> HIDE DEF row
<1>4. Numbered'
  <2>1. \A r \in ctxTab' : r.id \in 1..lastCtx'
    BY <1>1, <1>2, <1>3
  <2>2. ASSUME NEW r \in ctxTab', NEW s \in ctxTab', r.id = s.id PROVE r = s
    <3>1. CASE r \in ctxTab /\ s \in ctxTab
      BY <2>2, <3>1 DEF Trees, Numbered
    <3>2. CASE r = row \/ s = row
      BY <1>1, <1>2, <1>3, <2>2, <3>2
    <3> QED
      BY <1>1, <3>1, <3>2
  <2> QED
    BY <2>1, <2>2 DEF Numbered
<1>5. Connected'
  <2>1. ASSUME NEW r \in ctxTab', r.parent # Null
        PROVE  \E s \in ctxTab' : s.id = r.parent /\ s.id < r.id
    <3>1. CASE r \in ctxTab
      BY <1>1, <2>1, <3>1 DEF Trees, Connected
    <3>2. CASE r = row
      <4>1. PICK s \in ctxTab : s.id = parent
        BY <1>2, <2>1, <3>2
      <4> QED
        BY <1>1, <1>2, <1>3, <3>2, <4>1
    <3> QED
      BY <1>1, <3>1, <3>2
  <2> QED
    BY <2>1 DEF Connected
<1> QED
  BY <1>1, <1>4, <1>5

LEMMA TreesNext == Typed /\ Trees /\ [Next]_vars => Trees'
<1> SUFFICES ASSUME Typed, Trees, [Next]_vars PROVE Trees'
  OBVIOUS
(* What is left to show when no context row is touched. *)
<1>1. ASSUME ctxTab' = ctxTab, lastCtx' = lastCtx
      PROVE  Numbered' /\ Connected'
  BY <1>1 DEF Trees, Numbered, Connected
<1>2. calls \in Seq(CallIn(Len(nodes))) /\ Len(nodes) \in Nat
  BY DEF Typed, TypeOK
<1>3. CASE Parse
  <2>1. pc' # "process" /\ UNCHANGED tables
    BY <1>3 DEF Parse, OpenLine, CloseLine, BadClose, DirLine, EndOfFile
  <2> QED
    BY <1>1, <2>1 DEF tables, Trees, RowsOfCalls
<1>4. CASE DeleteCtxs
  BY <1>4 DEF DeleteCtxs, Trees, Numbered, RowsOfCalls, Connected
<1>5. CASE DeleteConfs \/ DeleteMaps
  BY <1>1, <1>5 DEF DeleteConfs, DeleteMaps, Trees, RowsOfCalls
<1>6. CASE InsertRoot
  <2>1. InsertCtxRow(Null, Default) /\ pc' # "process" /\ Null \in Nat
    BY <1>6 DEF InsertRoot, Null
  <2> QED
    BY <2>1, TreesInsert DEF Trees, RowsOfCalls
<1>7. CASE SelectRoot
  <2>1. PICK r \in ctxTab : calls' = <<NewCall(Current, r.id)>> /\ UNCHANGED tables
    BY <1>7 DEF SelectRoot
  <2>2. RowsOfCalls'
    BY <2>1 DEF RowsOfCalls, NewCall, tables
  <2> QED
    BY <1>1, <2>1, <2>2 DEF Trees, tables
(* A call that moves on keeps its row. *)
<1>8. ASSUME NEW place, At(place), NEW call, SetTop(call), call.id = Top.id,
             ctxTab \subseteq ctxTab'
      PROVE  RowsOfCalls'
  <2>1. calls' = [calls EXCEPT ![Len(calls)] = call] /\ calls # <<>> /\ pc = "process"
    BY <1>8 DEF SetTop, At
  <2>2. Len(calls') = Len(calls) /\ \A i \in 1..Len(calls) : calls'[i].id = calls[i].id
    BY <1>2, <1>8, <2>1 DEF Top
  <2> QED
    BY <1>8, <2>1, <2>2 DEF Trees, RowsOfCalls
<1>9. CASE InsertConf
  <2>1. [Top EXCEPT !.at = "select"].id = Top.id
    <3>1. Top \in CallIn(Len(nodes))
      BY <1>2, <1>9 DEF InsertConf, At, Top
    <3> QED
      BY <3>1 DEF CallIn
  <2> QED
    BY <1>1, <1>8, <1>9, <2>1 DEF InsertConf, Trees
<1>10. CASE SelectConf
  <2>1. PICK c : SetTop([Top EXCEPT !.at = "map", !.conf = c.id])
    BY <1>10 DEF SelectConf
  <2>2. [Top EXCEPT !.at = "map", !.conf = c.id].id = Top.id
    <3>1. Top \in CallIn(Len(nodes))
      BY <1>2, <1>10 DEF SelectConf, At, Top
    <3> QED
      BY <3>1 DEF CallIn
  <2> QED
    BY <1>1, <1>8, <1>10, <2>1, <2>2 DEF SelectConf, Trees, tables
<1>11. CASE InsertMap
  <2>1. [Top EXCEPT !.at = "insert", !.dirs = Tail(@)].id = Top.id
    <3>1. Top \in CallIn(Len(nodes))
      BY <1>2, <1>11 DEF InsertMap, At, Top
    <3> QED
      BY <3>1 DEF CallIn
  <2> QED
    BY <1>1, <1>8, <1>11, <2>1 DEF InsertMap, Trees
<1>12. CASE InsertCtx
  <2>1. At("insert") /\ InsertCtxRow(Top.id, nodes[Head(Top.subs)].label) /\ Top.subs # <<>>
    BY <1>12 DEF InsertCtx
  <2>2. /\ Len(calls) \in 1..Len(calls) /\ Top = calls[Len(calls)] /\ pc = "process"
        /\ Top \in CallIn(Len(nodes))
    BY <1>2, <2>1 DEF At, Top
  <2>3. \E s \in ctxTab : s.id = Top.id
    BY <2>2 DEF Trees, RowsOfCalls
  <2>4. Top.id \in Nat /\ Head(Top.subs) \in 1..Len(nodes)
    BY <2>1, <2>2 DEF CallIn
  <2>5. nodes[Head(Top.subs)].label \in Label \union {Default}
    <3>1. nodes[Head(Top.subs)] \in NodeIn(Len(nodes))
      BY <2>4 DEF Typed
    <3> QED
      BY <3>1 DEF NodeIn
  <2>6. Numbered' /\ Connected' /\ ctxTab \subseteq ctxTab'
    BY <2>1, <2>3, <2>4, <2>5, TreesInsert
  <2>7. SetTop([Top EXCEPT !.at = "find"]) /\ [Top EXCEPT !.at = "find"].id = Top.id
    BY <1>12, <2>2 DEF InsertCtx, CallIn
  <2> QED
    BY <1>8, <2>1, <2>6, <2>7 DEF Trees
<1>13. CASE SelectCtx
  <2> DEFINE sub == Head(Top.subs)
             moved == [calls EXCEPT ![Len(calls)].at = "insert",
                                    ![Len(calls)].subs = Tail(@)]
  <2>1. PICK r \in Alike(nodes[sub].label, Top.id) :
          calls' = Append(moved, NewCall(sub, r.id))
    BY <1>13 DEF SelectCtx
  <2>2. r \in ctxTab /\ pc = "process" /\ calls # <<>> /\ UNCHANGED <<tables, pc>>
    BY <1>13, <2>1 DEF Alike, SelectCtx, At
  <2> DEFINE top == [Top EXCEPT !.at = "insert", !.subs = Tail(@)]
  <2>3. /\ moved = [calls EXCEPT ![Len(calls)] = top]
        /\ Len(calls) \in Nat \ {0} /\ Top = calls[Len(calls)] /\ top.id = Top.id
    <3>1. Top = calls[Len(calls)] /\ Len(calls) \in Nat \ {0}
      BY <1>2, <2>2 DEF Top
    <3>2. Top \in CallIn(Len(nodes))
      BY <1>2, <3>1
    <3>3. top.id = Top.id
      BY <3>2 DEF CallIn
    <3> QED
      BY <1>2, <3>1, <3>3
  <2>4. /\ Len(calls') = Len(calls) + 1 /\ calls'[Len(calls) + 1].id = r.id
        /\ \A i \in 1..Len(calls) : calls'[i].id = calls[i].id
    <3> DEFINE next == NewCall(sub, r.id)
    <3>1. calls' = Append([calls EXCEPT ![Len(calls)] = top], next) /\ next.id = r.id
      BY <2>1, <2>3 DEF NewCall
    <3>2. calls \in Seq(UNION {CallIn(Len(nodes)), {top}, {next}}) /\ calls # <<>>
      BY <1>2, <2>2
    <3> HIDE DEF top, next
    <3>3. /\ Len(calls') = Len(calls) + 1 /\ calls'[Len(calls) + 1] = next
          /\ calls'[Len(calls)] = top
          /\ \A i \in 1..(Len(calls) - 1) : calls'[i] = calls[i]
      BY <3>1, <3>2, LastReplacedAndAdded
    <3> QED
      BY <2>3, <3>1, <3>3
  <2>5. RowsOfCalls'
    BY <1>2, <2>2, <2>4 DEF Trees, RowsOfCalls, tables
  <2> QED
    BY <1>1, <2>2, <2>5 DEF Trees, tables
<1>14. CASE Return
  <2>1. calls # <<>> /\ pc = "process" /\ UNCHANGED tables
    BY <1>14 DEF Return, At
  <2>2. Len(calls') = Len(calls) - 1 /\ \A i \in 1..Len(calls') : calls'[i] = calls[i]
    BY <1>2, <1>14, <2>1, LastDropped DEF Return
  <2>3. RowsOfCalls'
    BY <1>2, <2>1, <2>2 DEF Trees, RowsOfCalls, tables
  <2> QED
    BY <1>1, <2>1, <2>3 DEF Trees, tables
<1>15. CASE Exit \/ Die
  BY <1>1, <1>15 DEF Exit, Die, Trees, RowsOfCalls, tables
<1>16. CASE Rerun
  BY <1>1, <1>16 DEF Rerun, Started, Trees, RowsOfCalls, tables
<1>17. CASE UNCHANGED vars
  BY <1>1, <1>17 DEF vars, Trees, RowsOfCalls
<1> QED
  BY <1>3, <1>4, <1>5, <1>6, <1>7, <1>9, <1>10, <1>11, <1>12, <1>13, <1>14, <1>15, <1>16, <1>17
  DEF Next, Step, Statement

(* At every moment, and after a run that died at any statement, the rows of  *)
(* the context table form trees: the reader that walks them ends, and every  *)
(* row belongs to a root.  Ids are never given twice, which is what the      *)
(* argument rests on: the parent of a row is older than the row.             *)
THEOREM AlwaysConnected == Spec => []Connected
<1>1. Init => Trees
  BY DEF Init, Started, Trees, Numbered, RowsOfCalls, Connected
<1>2. Trees => Connected
  BY DEF Trees
<1> QED
  BY <1>1, <1>2, TypedInitially, TypedNext, TreesNext, PTL DEF Spec
-----------------------------------------------------------------------------
(* One root. *)

LEMMA RootedNext == Typed /\ Trees /\ Rooted /\ [Next]_vars => Rooted'
<1> SUFFICES ASSUME Typed, Trees, Rooted, [Next]_vars, ~addConf' PROVE Rooted'
  BY DEF Rooted
<1>1. pc \in {"parse", "delctx", "delconf", "delmap", "root", "findroot",
               "process", "done", "dead"}
  BY DEF Typed, TypeOK
<1>2. CASE Parse
  BY <1>2 DEF Parse, OpenLine, CloseLine, BadClose, DirLine, EndOfFile, Wipes, Rooted,
              options, tables
<1>3. CASE DeleteCtxs
  BY <1>3 DEF DeleteCtxs, Rooted, RootsOf
<1>4. CASE DeleteConfs \/ DeleteMaps
  BY <1>4 DEF DeleteConfs, DeleteMaps, Rooted, Script, options
<1>5. CASE InsertRoot
  <2>1. RootsOf(ctxTab) = {} /\ pc' = "findroot" /\ old' = old
    BY <1>5 DEF InsertRoot, Rooted, Script, options
  <2>2. PICK row : ctxTab' = ctxTab \union {row}
    BY <1>5 DEF InsertRoot, InsertCtxRow
  <2>3. Single(RootsOf(ctxTab'))
    BY <2>1, <2>2 DEF Single, RootsOf
  <2> QED
    BY <2>1, <2>3 DEF Rooted, RootsOf
<1>6. CASE SelectRoot
  BY <1>6 DEF SelectRoot, Rooted, Script, options, tables
<1>7. CASE InsertConf \/ SelectConf \/ InsertMap \/ SelectCtx \/ Return
  BY <1>7 DEF InsertConf, SelectConf, InsertMap, SelectCtx, Return, At, Rooted,
              Script, options, tables
<1>8. CASE InsertCtx
  <2>1. /\ calls # <<>> /\ pc = "process" /\ pc' = pc /\ addConf' = addConf /\ old' = old
        /\ InsertCtxRow(Top.id, nodes[Head(Top.subs)].label)
    BY <1>8 DEF InsertCtx, At, Script, options
  <2>2. Len(calls) \in 1..Len(calls) /\ Top = calls[Len(calls)]
    BY <2>1 DEF Typed, TypeOK, Top
  <2>3. PICK s \in ctxTab : s.id = Top.id
    BY <2>1, <2>2 DEF Trees, RowsOfCalls
  <2>4. Top.id # Null
    BY <2>3 DEF Trees, Numbered, Null, Typed, TypeOK
  <2> DEFINE row == [id |-> lastCtx + 1, parent |-> Top.id,
                     label |-> nodes[Head(Top.subs)].label]
  <2>5. ctxTab' = ctxTab \union {row} /\ row.parent = Top.id
    BY <2>1 DEF InsertCtxRow
  <2>6. RootsOf(ctxTab') = RootsOf(ctxTab)
    <3> HIDE DEF row
    <3> QED BY <2>4, <2>5 DEF RootsOf
  <2> QED
    BY <2>1, <2>6 DEF Rooted, RootsOf
<1>9. CASE Exit
  BY <1>9 DEF Exit, Rooted, Script, options, tables
<1>10. CASE Die
  BY <1>1, <1>10 DEF Die, Over, Rooted, Single, Script, options, tables
<1>11. CASE Rerun
  BY <1>11 DEF Rerun, Started, Rooted, tables
<1>12. CASE UNCHANGED vars
  BY <1>12 DEF vars, Rooted
<1> QED
  BY <1>2, <1>3, <1>4, <1>5, <1>6, <1>7, <1>8, <1>9, <1>10, <1>11, <1>12
  DEF Next, Step, Statement

LEMMA SingleCardinality ==
  ASSUME NEW S, Single(S)
  PROVE  Cardinality(S) <= 1
<1>1. CASE S = {}
  BY <1>1, FS_EmptySet
<1>2. CASE S # {}
  <2>1. PICK r \in S : S = {r}
    BY <1>2 DEF Single
  <2>2. Cardinality({r}) = 1
    BY FS_Singleton
  <2> QED
    BY <2>1, <2>2
<1> QED
  BY <1>1, <1>2

(* An import that deletes what was there never shows mod_conf_sql, which     *)
(* refuses to work with two roots, a second one: not between two of its      *)
(* statements, and not after it died.                                        *)
THEOREM AlwaysOneRoot == Spec => []OneRoot
<1>1. Init => Trees /\ Rooted
  BY DEF Init, Started, Trees, Numbered, RowsOfCalls, Connected, Rooted
<1>2. Typed /\ Rooted => OneRoot
  <2> SUFFICES ASSUME Typed, Rooted, ~addConf, Cardinality(RootsOf(old.ctxs)) <= 1
               PROVE  Cardinality(RootsOf(ctxTab)) <= 1
    BY DEF OneRoot
  <2>1. ctxTab = old.ctxs \/ Single(RootsOf(ctxTab))
    BY DEF Typed, TypeOK, Rooted, Single
  <2> QED
    BY <2>1, SingleCardinality
<1> QED
  BY <1>1, <1>2, TypedInitially, TypedNext, TreesNext, RootedNext, PTL DEF Spec

-----------------------------------------------------------------------------
(* What is there stays. *)

LEMMA DeletesNext == Deletes /\ [Next]_vars => Deletes'
<1> SUFFICES ASSUME Deletes, [Next]_vars PROVE Deletes'
  OBVIOUS
<1>1. CASE Parse
  BY <1>1 DEF Parse, OpenLine, CloseLine, BadClose, DirLine, EndOfFile, Wipes, Deletes,
              options, tables
<1>2. CASE DeleteCtxs \/ DeleteConfs \/ DeleteMaps
  BY <1>2 DEF DeleteCtxs, DeleteConfs, DeleteMaps, Deletes, Script, options
<1>3. CASE \/ InsertRoot \/ SelectRoot \/ InsertConf \/ SelectConf \/ InsertMap
           \/ InsertCtx \/ SelectCtx \/ Return \/ Exit \/ Die
  <2>1. pc' \in {"findroot", "process", "done", "dead"}
    BY <1>3 DEF InsertRoot, SelectRoot, InsertConf, SelectConf, InsertMap, InsertCtx,
                SelectCtx, Return, Exit, Die, At
  <2> QED
    BY <2>1 DEF Deletes
<1>4. CASE Rerun
  BY <1>4 DEF Rerun, Started, Deletes, tables
<1>5. CASE UNCHANGED vars
  BY <1>5 DEF vars, Deletes
<1> QED
  BY <1>1, <1>2, <1>3, <1>4, <1>5 DEF Next, Step, Statement

LEMMA PrefixKept ==
  ASSUME NEW S, NEW s \in Seq(S), NEW x \in S
  PROVE  s = SubSeq(s, 1, Len(s)) /\ s = SubSeq(Append(s, x), 1, Len(s))
  OBVIOUS

(* With --add-conf, no statement and no death takes a row away.              *)
THEOREM AlwaysGrows == Spec => Grows
<1>1. Init => Deletes
  BY DEF Init, Started, Deletes
<1>2. Typed /\ Deletes /\ [Next]_vars
      => [addConf => /\ ctxTab \subseteq ctxTab'
                     /\ confTab \subseteq confTab'
                     /\ mapTab = SubSeq(mapTab', 1, Len(mapTab))]_vars
  <2> SUFFICES ASSUME Typed, Deletes, Next, addConf
               PROVE  /\ ctxTab \subseteq ctxTab'
                      /\ confTab \subseteq confTab'
                      /\ mapTab = SubSeq(mapTab', 1, Len(mapTab))
    OBVIOUS
  <2>1. mapTab \in Seq(MapRow)
    BY DEF Typed, TypeOK
  <2>2. ASSUME mapTab' = mapTab PROVE mapTab = SubSeq(mapTab', 1, Len(mapTab))
    BY <2>1, <2>2, SubSeqFull
  <2>3. CASE Parse
    BY <2>2, <2>3 DEF Parse, OpenLine, CloseLine, BadClose, DirLine, EndOfFile, tables
  <2>4. CASE DeleteCtxs \/ DeleteConfs \/ DeleteMaps
    BY <2>4 DEF DeleteCtxs, DeleteConfs, DeleteMaps, Deletes
  <2>5. CASE InsertRoot \/ InsertCtx
    BY <2>2, <2>5 DEF InsertRoot, InsertCtx, InsertCtxRow
  <2>6. CASE InsertConf
    BY <2>2, <2>6 DEF InsertConf
  <2>7. CASE InsertMap
    <3>1. PICK row : mapTab' = Append(mapTab, row) /\ UNCHANGED <<ctxTab, confTab>>
      BY <2>7 DEF InsertMap
    <3>2. mapTab \in Seq(MapRow \union {row})
      BY <2>1
    <3> QED
      BY <3>1, <3>2, PrefixKept
  <2>8. CASE SelectRoot \/ SelectConf \/ SelectCtx \/ Return \/ Exit \/ Die \/ Rerun
    BY <2>2, <2>8 DEF SelectRoot, SelectConf, SelectCtx, Return, Exit, Die, Rerun, tables
  <2>9. CASE UNCHANGED vars
    BY <2>2, <2>9 DEF vars
  <2> QED
    BY <2>3, <2>4, <2>5, <2>6, <2>7, <2>8, <2>9 DEF Next, Step, Statement
<1> QED
  BY <1>1, <1>2, TypedInitially, TypedNext, DeletesNext, PTL DEF Spec, Grows
-----------------------------------------------------------------------------
(* The right context. *)

(* A statement that adds rows, if any, and no mapping. *)
LEMMA MapsRightKept ==
  ASSUME MapsRight, UNCHANGED Script, mapTab' = mapTab,
         ctxTab \subseteq ctxTab', confTab \subseteq confTab',
         DOMAIN placed \subseteq DOMAIN placed'
  PROVE  MapsRight'
<1>1. nodes' = nodes /\ ctxs' = ctxs /\ old' = old
  BY DEF Script, options, tree
<1>2. SUFFICES ASSUME ctxs = << 1 >>, NEW m \in Values(mapTab) \ Values(old.maps)
               PROVE  \E n \in DOMAIN placed' : \E r \in ctxTab', c \in confTab' :
                        /\ r.id = m.ctx /\ r.label = nodes[n].label
                        /\ c.id = m.conf /\ c.dir \in Values(nodes[n].dirs)
  BY <1>1 DEF MapsRight
<1> QED
  BY <1>2 DEF MapsRight

(* The calls that stay as they are. *)
LEMMA OwnRowKept ==
  ASSUME NEW c, OwnRow(c), UNCHANGED Script,
         ctxTab \subseteq ctxTab', confTab \subseteq confTab',
         DOMAIN placed \subseteq DOMAIN placed'
  PROVE  OwnRow(c)'
<1>1. nodes' = nodes /\ ctxs' = ctxs
  BY DEF Script, tree
<1> QED
  BY <1>1 DEF OwnRow

LEMMA ValuesOf ==
  ASSUME NEW S, NEW s \in Seq(S)
  PROVE  /\ Values(s) = {s[i] : i \in 1..Len(s)}
         /\ s # <<>> => /\ Head(s) \in Values(s)
                        /\ Values(Tail(s)) \subseteq Values(s)
  BY DEF Values

LEMMA ValuesOfChanged ==
  ASSUME NEW S, NEW s \in Seq(S), NEW x \in S
  PROVE  /\ Values(<<x>>) = {x}
         /\ Values(Append(s, x)) \subseteq Values(s) \union {x}
         /\ s # <<>> => /\ s[Len(s)] \in Values(s)
                        /\ Values([s EXCEPT ![Len(s)] = x]) \subseteq Values(s) \union {x}
                        /\ Values(SubSeq(s, 1, Len(s) - 1)) \subseteq Values(s)
<1>1. Values(<<x>>) = {x} /\ Values(Append(s, x)) \subseteq Values(s) \union {x}
  BY DEF Values
<1>2. ASSUME s # <<>> PROVE Values(SubSeq(s, 1, Len(s) - 1)) \subseteq Values(s)
  <2> DEFINE t == SubSeq(s, 1, Len(s) - 1)
  <2>1. /\ t \in Seq(S) /\ Len(t) = Len(s) - 1 /\ Len(s) \in Nat
        /\ \A i \in 1..(Len(s) - 1) : t[i] = s[i]
    BY <1>2, LastDropped
  <2>2. DOMAIN t = 1..(Len(s) - 1) /\ DOMAIN s = 1..Len(s)
    <3> HIDE DEF t
    <3> QED BY <2>1
  <2> HIDE DEF t
  <2>3. Values(t) \subseteq Values(s)
    BY <2>1, <2>2 DEF Values
  <2> QED
    BY <2>3 DEF t
<1>3. ASSUME s # <<>>
      PROVE  /\ s[Len(s)] \in Values(s)
             /\ Values([s EXCEPT ![Len(s)] = x]) \subseteq Values(s) \union {x}
  BY <1>3 DEF Values
<1> QED
  BY <1>1, <1>2, <1>3

LEMMA MappedParse == Typed /\ Mapped /\ Parse => Mapped'
<1> SUFFICES ASSUME Typed, Mapped, Parse PROVE Mapped'
  OBVIOUS
<1>1. Deletes'
  BY DeletesNext DEF Mapped, Next, Step
<1>2. pc' # "process" /\ mapTab' = old'.maps
  BY DEF Parse, OpenLine, CloseLine, BadClose, DirLine, EndOfFile, Mapped, Deletes,
         options, tables
<1>3. MapsRight'
  BY <1>2 DEF MapsRight
<1>4. nodes \in Seq(NodeIn(Len(nodes))) /\ Len(nodes) \in Nat \ {0} /\ Current \in 1..Len(nodes)
  BY DEF Typed, TypeOK, Current
<1>5. nodes'[1].label = Default
  <2>1. nodes[1].label = Default
    BY DEF Mapped, RightCalls
  <2>2. \A i \in 1..Len(nodes) : nodes[i] \in NodeIn(Len(nodes))
    BY <1>4
  <2>3. CASE OpenLine
    <3> DEFINE full == [nodes[Current] EXCEPT !.subs = Append(@, Len(nodes) + 1)]
    <3>1. nodes' = Append([nodes EXCEPT ![Current] = full], NewNode(Line.what))
      BY <1>4, <2>3 DEF OpenLine
    <3>2. full.label = nodes[Current].label
      BY <1>4, <2>2 DEF NodeIn
    <3>3. nodes'[1] = IF Current = 1 THEN full ELSE nodes[1]
      <4> HIDE DEF full
      <4> QED BY <1>4, <3>1
    <3> QED
      BY <2>1, <3>2, <3>3
  <2>4. CASE DirLine
    <3> DEFINE full == [nodes[Current] EXCEPT !.dirs = Append(@, Line.what)]
    <3>1. nodes' = [nodes EXCEPT ![Current] = full]
      BY <1>4, <2>4 DEF DirLine
    <3>2. full.label = nodes[Current].label
      BY <1>4, <2>2 DEF NodeIn
    <3>3. nodes'[1] = IF Current = 1 THEN full ELSE nodes[1]
      <4> HIDE DEF full
      <4> QED BY <1>4, <3>1
    <3> QED
      BY <2>1, <3>2, <3>3
  <2>5. CASE CloseLine \/ BadClose \/ EndOfFile
    BY <2>1, <2>5 DEF CloseLine, BadClose, EndOfFile, tree
  <2> QED
    BY <2>3, <2>4, <2>5 DEF Parse
<1> QED
  BY <1>1, <1>2, <1>3, <1>5 DEF Mapped, RightCalls

LEMMA MappedNext == Typed /\ Trees /\ Mapped /\ [Next]_vars => Mapped'
<1> SUFFICES ASSUME Typed, Trees, Mapped, [Next]_vars PROVE Mapped'
  OBVIOUS
<1>1. Deletes' /\ MapsRight /\ RightCalls
  BY DeletesNext DEF Mapped
<1>2. nodes[1].label = Default
  BY DEF Mapped, RightCalls
<1> DEFINE n == Len(nodes)
<1>3. calls \in Seq(CallIn(n)) /\ n \in Nat /\ Len(calls) \in Nat
  BY DEF Typed, TypeOK
<1>4. CASE Parse
  BY <1>4, MappedParse
<1>5. CASE DeleteCtxs \/ DeleteConfs \/ DeleteMaps
  <2>1. UNCHANGED Script /\ pc' # "process" /\ (mapTab' = old.maps \/ mapTab' = <<>>)
    BY <1>5 DEF DeleteCtxs, DeleteConfs, DeleteMaps, Mapped, Deletes
  <2>2. MapsRight'
    BY <2>1 DEF MapsRight, Values, Script, options
  <2> QED
    BY <1>1, <1>2, <2>1, <2>2 DEF Mapped, RightCalls, Script, tree
<1>6. CASE InsertRoot
  <2>1. /\ UNCHANGED Script /\ mapTab' = mapTab /\ ctxTab \subseteq ctxTab'
        /\ confTab' = confTab /\ placed' = placed /\ pc' # "process"
    BY <1>6 DEF InsertRoot, InsertCtxRow
  <2> QED
    BY <1>1, <1>2, <2>1, MapsRightKept DEF Mapped, RightCalls, Script, tree
(* What a call for the row of its own context needs. *)
<1>7. ASSUME NEW node \in 1..n, NEW r \in ctxTab, Place(node, r.id), UNCHANGED Script,
             UNCHANGED tables, ctxs = << 1 >> => r.label = nodes[node].label,
             NEW c, c = NewCall(node, r.id)
      PROVE  OwnRow(c)' /\ DOMAIN placed \subseteq DOMAIN placed' /\ MapsRight'
  <2>1. DOMAIN placed' = DOMAIN placed \union {node}
    BY <1>7 DEF Place
  <2>2. MapsRight'
    BY <1>1, <1>7, <2>1, MapsRightKept DEF tables
  <2>3. nodes' = nodes /\ ctxs' = ctxs /\ ctxTab' = ctxTab
    BY <1>7 DEF Script, tree, tables
  <2>4. c.node = node /\ c.id = r.id /\ c.dirs = nodes[node].dirs /\ c.at = "insert"
    BY <1>7 DEF NewCall
  <2>5. OwnRow(c)'
    BY <1>7, <2>1, <2>3, <2>4 DEF OwnRow
  <2> QED
    BY <2>1, <2>2, <2>5
<1>8. CASE SelectRoot
  <2>1. PICK r \in ctxTab : /\ r.label = Default
                            /\ calls' = <<NewCall(Current, r.id)>>
                            /\ Place(Current, r.id)
    BY <1>8 DEF SelectRoot
  <2> DEFINE c == NewCall(Current, r.id)
  <2>2. UNCHANGED Script /\ UNCHANGED tables /\ pc' = "process" /\ nodes' = nodes
    BY <1>8 DEF SelectRoot, Script, tree
  <2>3. Current \in 1..n /\ (ctxs = <<1>> => Current = 1)
    BY DEF Typed, TypeOK, Current
  <2>4. ctxs = <<1>> => r.label = nodes[Current].label
    BY <1>2, <2>1, <2>3
  <2>5. PICK node \in 1..n : node = Current
    BY <2>3
  <2>6. MapsRight' /\ \A d : d = NewCall(node, r.id) => OwnRow(d)'
    BY <1>7, <2>1, <2>2, <2>4, <2>5
  <2>7. Values(calls') = {NewCall(node, r.id)}
    BY <2>1, <2>5 DEF Values
  <2> QED
    BY <1>1, <1>2, <2>2, <2>6, <2>7 DEF Mapped, RightCalls
(* The innermost call. *)
<1>9. ASSUME NEW place, At(place)
      PROVE  /\ calls # <<>> /\ pc = "process" /\ Top = calls[Len(calls)]
             /\ Top \in CallIn(n) /\ OwnRow(Top) /\ Top \in Values(calls)
  <2>1. calls # <<>> /\ pc = "process" /\ Top = calls[Len(calls)]
    BY <1>9 DEF At, Top
  <2>2. Top \in CallIn(n) /\ Top \in Values(calls)
    BY <1>3, <2>1 DEF Values
  <2> QED
    BY <1>1, <2>1, <2>2 DEF RightCalls
(* The calls but the innermost, when a statement adds rows, if any. *)
<1>10. ASSUME UNCHANGED Script, pc = "process", ctxTab \subseteq ctxTab',
              confTab \subseteq confTab', DOMAIN placed \subseteq DOMAIN placed',
              NEW c \in Values(calls)
       PROVE  OwnRow(c)'
  BY <1>1, <1>10, OwnRowKept DEF RightCalls
<1>11. ASSUME NEW call \in CallIn(n), calls # <<>>, SetTop(call), UNCHANGED Script,
              pc = "process", ctxTab \subseteq ctxTab', confTab \subseteq confTab',
              placed' = placed, OwnRow(call)'
       PROVE  RightCalls'
  <2>1. Values(calls') \subseteq Values(calls) \union {call}
    BY <1>3, <1>11, ValuesOfChanged DEF SetTop
  <2>2. \A c \in Values(calls) : OwnRow(c)'
    BY <1>10, <1>11
  <2>3. nodes'[1].label = Default
    BY <1>2, <1>11 DEF Script, tree
  <2> QED
    BY <1>11, <2>1, <2>2, <2>3 DEF RightCalls
<1>12. CASE InsertConf
  <2>1. /\ At("insert") /\ Top.dirs # <<>> /\ SetTop([Top EXCEPT !.at = "select"])
        /\ UNCHANGED Script /\ ctxTab' = ctxTab /\ mapTab' = mapTab /\ placed' = placed
        /\ confTab \subseteq confTab'
    BY <1>12 DEF InsertConf
  <2>2. /\ calls # <<>> /\ pc = "process" /\ Top \in CallIn(n) /\ OwnRow(Top)
        /\ Top \in Values(calls)
    BY <1>9, <2>1
  <2>3. PICK t : t = Top
    OBVIOUS
  <2>4. PICK call : call = [t EXCEPT !.at = "select"]
    OBVIOUS
  <2>5. /\ call \in CallIn(n) /\ call.node = t.node /\ call.id = t.id
        /\ call.dirs = t.dirs /\ call.at = "select"
    <3> HIDE DEF n
    <3> QED BY <2>1, <2>2, <2>3, <2>4 DEF CallIn
  <2>6. OwnRow(t)'
    BY <1>10, <2>1, <2>2, <2>3
  <2>7. OwnRow(call)'
    BY <2>5, <2>6 DEF OwnRow
  <2>8. RightCalls'
    BY <1>11, <2>1, <2>2, <2>3, <2>4, <2>5, <2>7
  <2> QED
    BY <1>1, <2>1, <2>8, MapsRightKept DEF Mapped
<1>13. CASE SelectConf
  <2>1. At("select") /\ UNCHANGED Script /\ UNCHANGED tables /\ placed' = placed
    BY <1>13 DEF SelectConf
  <2>2. /\ calls # <<>> /\ pc = "process" /\ Top \in CallIn(n) /\ OwnRow(Top)
        /\ Top \in Values(calls) /\ Top.dirs # <<>>
    BY <1>9, <2>1 DEF At, CallIn
  <2>3. PICK t : t = Top
    OBVIOUS
  <2>4. PICK c \in confTab : /\ c.dir = Head(t.dirs)
                             /\ SetTop([t EXCEPT !.at = "map", !.conf = c.id])
    BY <1>13, <2>3 DEF SelectConf, SameDir
  <2>5. PICK call : call = [t EXCEPT !.at = "map", !.conf = c.id]
    OBVIOUS
  <2>6. c.id \in Nat
    BY <2>4 DEF Typed, TypeOK, ConfRow
  <2>7. /\ call \in CallIn(n) /\ call.node = t.node /\ call.id = t.id
        /\ call.dirs = t.dirs /\ call.conf = c.id
    <3> HIDE DEF n
    <3> QED BY <2>2, <2>3, <2>5, <2>6 DEF CallIn
  <2>8. OwnRow(t)'
    BY <1>10, <2>1, <2>2, <2>3 DEF tables
  <2>9. OwnRow(call)'
    BY <2>1, <2>4, <2>7, <2>8 DEF OwnRow, tables
  <2>10. RightCalls'
    BY <1>11, <2>1, <2>2, <2>4, <2>5, <2>7, <2>9 DEF tables
  <2> QED
    BY <1>1, <2>1, <2>10, MapsRightKept DEF Mapped, tables
<1>14. CASE InsertMap
  <2>1. /\ At("map") /\ UNCHANGED Script /\ placed' = placed
        /\ UNCHANGED <<ctxTab, confTab>>
        /\ mapTab' = Append(mapTab, [ctx |-> Top.id, conf |-> Top.conf])
        /\ SetTop([Top EXCEPT !.at = "insert", !.dirs = Tail(@)])
    BY <1>14 DEF InsertMap
  <2>2. /\ calls # <<>> /\ pc = "process" /\ Top \in CallIn(n) /\ OwnRow(Top)
        /\ Top \in Values(calls) /\ Top.dirs # <<>> /\ Top.at = "map"
        /\ Top.dirs \in Seq(Dir)
    BY <1>9, <2>1 DEF At, CallIn
  <2>3. PICK t : t = Top
    OBVIOUS
  <2>4. PICK call : call = [t EXCEPT !.at = "insert", !.dirs = Tail(@)]
    OBVIOUS
  <2>5. /\ Tail(t.dirs) \in Seq(Dir) /\ Values(Tail(t.dirs)) \subseteq Values(t.dirs)
        /\ Head(t.dirs) \in Values(t.dirs)
    BY <2>2, <2>3, HeadTailProperties, ValuesOf
  <2>6. /\ call \in CallIn(n) /\ call.node = t.node /\ call.id = t.id
        /\ call.dirs = Tail(t.dirs) /\ call.at = "insert"
    <3> HIDE DEF n
    <3> QED BY <2>2, <2>3, <2>4, <2>5 DEF CallIn
  <2>7. OwnRow(t)'
    BY <1>10, <2>1, <2>2, <2>3
  <2>8. OwnRow(call)'
    BY <2>5, <2>6, <2>7 DEF OwnRow
  <2>9. RightCalls'
    BY <1>11, <2>1, <2>2, <2>3, <2>4, <2>6, <2>8
  <2>10. MapsRight'
    <3> DEFINE row == [ctx |-> t.id, conf |-> t.conf]
    <3>1. nodes' = nodes /\ ctxs' = ctxs /\ old' = old
      BY <2>1 DEF Script, options, tree
    <3>2. Values(mapTab') \subseteq Values(mapTab) \union {row}
      <4>1. mapTab \in Seq(MapRow \union {row})
        BY DEF Typed, TypeOK
      <4>2. mapTab' = Append(mapTab, row)
        BY <2>1, <2>3
      <4>3. row \in MapRow \union {row}
        OBVIOUS
      <4> DEFINE S == MapRow \union {row}
      <4> HIDE DEF row, S
      <4>4. mapTab \in Seq(S) /\ row \in S
        BY <4>1, <4>3 DEF S
      <4> QED
        BY <4>2, <4>4, ValuesOfChanged
    <3>3. row.ctx = t.id /\ row.conf = t.conf
      OBVIOUS
    <3>4. ctxs = <<1>> =>
            \E node \in DOMAIN placed : \E r \in ctxTab, c \in confTab :
              /\ r.id = row.ctx /\ r.label = nodes[node].label
              /\ c.id = row.conf /\ c.dir \in Values(nodes[node].dirs)
      BY <2>2, <2>3, <2>5, <3>3 DEF OwnRow
    <3> HIDE DEF row
    <3> QED
      BY <1>1, <2>1, <3>1, <3>2, <3>4 DEF MapsRight
  <2> QED
    BY <1>1, <2>9, <2>10 DEF Mapped
<1>15. CASE InsertCtx
  <2>1. /\ At("insert") /\ Top.subs # <<>> /\ SetTop([Top EXCEPT !.at = "find"])
        /\ UNCHANGED Script /\ placed' = placed
        /\ ctxTab \subseteq ctxTab' /\ UNCHANGED <<confTab, mapTab>>
    BY <1>15 DEF InsertCtx, InsertCtxRow
  <2>2. /\ calls # <<>> /\ pc = "process" /\ Top \in CallIn(n) /\ OwnRow(Top)
        /\ Top \in Values(calls)
    BY <1>9, <2>1
  <2>3. PICK t : t = Top
    OBVIOUS
  <2>4. PICK call : call = [t EXCEPT !.at = "find"]
    OBVIOUS
  <2>5. /\ call \in CallIn(n) /\ call.node = t.node /\ call.id = t.id
        /\ call.dirs = t.dirs /\ call.at = "find"
    <3> HIDE DEF n
    <3> QED BY <2>1, <2>2, <2>3, <2>4 DEF CallIn
  <2>6. OwnRow(t)'
    BY <1>10, <2>1, <2>2, <2>3
  <2>7. OwnRow(call)'
    BY <2>5, <2>6 DEF OwnRow
  <2>8. RightCalls'
    BY <1>11, <2>1, <2>2, <2>3, <2>4, <2>5, <2>7
  <2> QED
    BY <1>1, <2>1, <2>8, MapsRightKept DEF Mapped
<1>16. CASE SelectCtx
  <2>1. At("find") /\ UNCHANGED Script /\ UNCHANGED tables /\ pc' = pc
    BY <1>16 DEF SelectCtx
  <2>2. /\ calls # <<>> /\ pc = "process" /\ Top \in CallIn(n) /\ OwnRow(Top)
        /\ Top \in Values(calls) /\ Top = calls[Len(calls)]
        /\ Top.subs # <<>> /\ Top.subs \in Seq(1..n)
    BY <1>9, <2>1 DEF At, CallIn
  <2>3. PICK t : t = Top
    OBVIOUS
  <2>4. PICK sub \in 1..n : sub = Head(t.subs)
    BY <2>2, <2>3
  <2>5. PICK r \in ctxTab :
          /\ r.label = nodes[sub].label
          /\ calls' = Append([calls EXCEPT ![Len(calls)].at = "insert",
                                           ![Len(calls)].subs = Tail(@)],
                             NewCall(sub, r.id))
          /\ Place(sub, r.id)
    BY <1>16, <2>3, <2>4 DEF SelectCtx, Alike
  <2>6. PICK call : call = [t EXCEPT !.at = "insert", !.subs = Tail(@)]
    OBVIOUS
  <2>7. PICK new : new = NewCall(sub, r.id)
    OBVIOUS
  <2>8. /\ call.node = t.node /\ call.id = t.id
        /\ call.dirs = t.dirs /\ call.at = "insert"
    <3> HIDE DEF n
    <3> QED BY <2>2, <2>3, <2>6 DEF CallIn
  <2>9. /\ OwnRow(new)' /\ DOMAIN placed \subseteq DOMAIN placed' /\ MapsRight'
    BY <1>7, <2>1, <2>5, <2>7
  <2>10. OwnRow(t)' /\ \A c \in Values(calls) : OwnRow(c)'
    BY <1>10, <2>1, <2>2, <2>3, <2>9 DEF tables
  <2>11. OwnRow(call)'
    BY <2>8, <2>10 DEF OwnRow
  <2>12. Values(calls') \subseteq Values(calls) \union {call, new}
    <3> DEFINE S == UNION {CallIn(n), {call}, {new}}
               moved == [calls EXCEPT ![Len(calls)] = call]
    <3>1. calls' = Append(moved, new)
      <4>1. [calls EXCEPT ![Len(calls)].at = "insert", ![Len(calls)].subs = Tail(@)] = moved
        BY <1>3, <2>2, <2>3, <2>6
      <4> QED
        BY <2>5, <2>7, <4>1
    <3>2. calls \in Seq(S) /\ call \in S /\ new \in S
      BY <1>3
    <3> HIDE DEF S
    <3>3. moved \in Seq(S) /\ Values(moved) \subseteq Values(calls) \union {call}
      BY <2>2, <3>2, LastReplaced, ValuesOfChanged
    <3> HIDE DEF moved
    <3>4. Values(Append(moved, new)) \subseteq Values(moved) \union {new}
      BY <3>2, <3>3, ValuesOfChanged
    <3> QED
      BY <3>1, <3>3, <3>4
  <2>13. nodes'[1].label = Default
    BY <1>2, <2>1 DEF Script, tree
  <2> QED
    BY <1>1, <2>9, <2>10, <2>11, <2>12, <2>13 DEF Mapped, RightCalls
<1>17. CASE Return
  <2>1. /\ calls # <<>> /\ pc = "process" /\ calls' = SubSeq(calls, 1, Len(calls) - 1)
        /\ UNCHANGED Script /\ UNCHANGED tables /\ placed' = placed
    BY <1>17 DEF Return, At
  <2>2. Values(calls') \subseteq Values(calls)
    <3>1. calls[Len(calls)] \in CallIn(n)
      BY <1>3, <2>1
    <3> QED
      BY <1>3, <2>1, <3>1, ValuesOfChanged
  <2>3. \A c \in Values(calls) : OwnRow(c)'
    BY <1>10, <2>1 DEF tables
  <2>4. nodes'[1].label = Default
    BY <1>2, <2>1 DEF Script, tree
  <2> QED
    BY <1>1, <2>1, <2>2, <2>3, <2>4, MapsRightKept DEF Mapped, RightCalls, tables
<1>18. CASE Exit \/ Die
  <2>1. UNCHANGED Script /\ UNCHANGED tables /\ placed' = placed /\ pc' # "process"
    BY <1>18 DEF Exit, Die
  <2>2. nodes'[1].label = Default
    BY <1>2, <2>1 DEF Script, tree
  <2> QED
    BY <1>1, <2>1, <2>2, MapsRightKept DEF Mapped, RightCalls, tables
<1>19. CASE Rerun
  <2>1. old'.maps = mapTab' /\ nodes' = <<NewNode(Default)>> /\ pc' = "parse"
    BY <1>19 DEF Rerun, Started, tables
  <2> QED
    BY <1>1, <2>1 DEF Mapped, RightCalls, MapsRight, NewNode
<1>20. CASE UNCHANGED vars
  <2>1. /\ UNCHANGED <<Script, pc>> /\ UNCHANGED tables /\ placed' = placed /\ calls' = calls
    BY <1>20 DEF vars, Script, options, tree, tables
  <2>2. MapsRight'
    BY <1>1, <2>1, MapsRightKept DEF tables
  <2>3. pc = "process" => \A c \in Values(calls) : OwnRow(c)'
    BY <1>10, <2>1 DEF tables
  <2> QED
    BY <1>1, <1>2, <2>1, <2>2, <2>3 DEF Mapped, RightCalls, Script, tree
<1> QED
  BY <1>4, <1>5, <1>6, <1>8, <1>12, <1>13, <1>14, <1>15, <1>16, <1>17, <1>18, <1>19, <1>20
  DEF Next, Step, Statement

(* A mapping that a run adds ties a directive to a row with the tag of a     *)
(* context of the file that has the directive, and both rows are there, also *)
(* when the run dies: all sections being closed when the walk begins.        *)
THEOREM AlwaysMapsRight == Spec => []MapsRight
<1>1. Init => Trees /\ Mapped
  <2> SUFFICES ASSUME Init PROVE Trees /\ Mapped
    OBVIOUS
  <2>1. Trees
    BY DEF Init, Started, Trees, Numbered, RowsOfCalls, Connected
  <2>2. nodes[1].label = Default /\ pc = "parse" /\ mapTab = old.maps
    BY DEF Init, Started, NewNode
  <2> QED
    BY <2>1, <2>2 DEF Mapped, Deletes, RightCalls, MapsRight
<1>2. Mapped => MapsRight
  BY DEF Mapped
<1> QED
  BY <1>1, <1>2, TypedInitially, TypedNext, TreesNext, MappedNext, PTL DEF Spec

-----------------------------------------------------------------------------
(* What a run that deletes what was there leaves in the tables: Imported.    *)

Subs(n) == nodes[n].subs
Dirs(n) == nodes[n].dirs

(* With a context, S has the contexts it contains. *)
ClosedUnderSubs(S) == \A p \in S : \A i \in 1..Len(Subs(p)) : Subs(p)[i] \in S

Listed ==
  /\ \A p \in DOMAIN nodes : \A i \in 1..Len(Subs(p)) : Subs(p)[i] > p
  /\ \A p, q \in DOMAIN nodes : \A i \in 1..Len(Subs(p)), j \in 1..Len(Subs(q)) :
       Subs(p)[i] = Subs(q)[j] => p = q /\ i = j

OpenInside == \A i, j \in 1..Len(ctxs) : i < j => ctxs[i] > ctxs[j]

Reachable ==
  \A i \in 1..Len(ctxs) : \A S \in SUBSET DOMAIN nodes :
    ctxs[i] \in S /\ ClosedUnderSubs(S) => \A n \in DOMAIN nodes : n >= ctxs[i] => n \in S

Tree == Listed /\ OpenInside /\ Reachable

-----------------------------------------------------------------------------
(* No id is given to two directives. *)
ConfNumbered ==
  /\ \A c \in confTab : c.id \in 1..lastConf
  /\ \A c, d \in confTab : c.id = d.id => c = d

(* What is left of a list that is worked off from its head. *)
RestOf(list, left) ==
  /\ Len(left) <= Len(list)
  /\ \A i \in 1..Len(left) : left[i] = list[Len(list) - Len(left) + i]

Done(list, left) == Len(list) - Len(left)

(* The row of a context that was placed. *)
RowOf(n) == [id |-> placed[n],
             parent |-> IF n = Current THEN Null ELSE placed[Up(n)],
             label |-> IF n = Current THEN Default ELSE nodes[n].label]

(* The row that was just inserted and whose id is still to be asked for. *)
Waiting == calls # <<>> /\ Top.at = "find"
WaitingRow == [id |-> lastCtx, parent |-> Top.id, label |-> nodes[Head(Top.subs)].label]

Places ==
  /\ Current \in DOMAIN placed
  /\ \A n \in DOMAIN placed : n >= Current
  /\ \A n \in DOMAIN placed : n # Current =>
       \E p \in DOMAIN placed : \E i \in 1..Len(Subs(p)) : Subs(p)[i] = n
  /\ \A m, n \in DOMAIN placed : placed[m] = placed[n] => m = n

Rows ==
  /\ \A n \in DOMAIN placed : RowOf(n) \in ctxTab
  /\ \A r \in ctxTab : (\E n \in DOMAIN placed : r = RowOf(n)) \/ (Waiting /\ r = WaitingRow)
  /\ Waiting => WaitingRow \in ctxTab /\ \A n \in DOMAIN placed : placed[n] # lastCtx

CallWalks(c) ==
  /\ c.node \in DOMAIN placed /\ c.id = placed[c.node]
  /\ RestOf(Dirs(c.node), c.dirs)
  /\ RestOf(Subs(c.node), c.subs)
  /\ \A i \in 1..Len(Subs(c.node)) :
       Subs(c.node)[i] \in DOMAIN placed <=> i <= Done(Subs(c.node), c.subs)
  /\ Gives(c.id, Dirs(c.node), Done(Dirs(c.node), c.dirs))

(* All calls but the innermost. *)
Outer(s) == {s[i] : i \in 1..(Len(s) - 1)}

NodesApart(s) == \A i, j \in 1..Len(s) : s[i].node = s[j].node => i = j

Calls ==
  /\ \A c \in Values(calls) : CallWalks(c)
  /\ NodesApart(calls)
  /\ \A c \in Outer(calls) : c.at # "find"

(* The contexts that were placed and are not being processed. *)
Complete(n) ==
  /\ HasDirs(placed[n], Dirs(n))
  /\ \A i \in 1..Len(Subs(n)) : Subs(n)[i] \in DOMAIN placed

Completed ==
  /\ \A n \in DOMAIN placed : (\A c \in Values(calls) : c.node # n) => Complete(n)
  /\ \A k \in 1..Len(mapTab) : \E n \in DOMAIN placed : mapTab[k].ctx = placed[n]

Walking == Places /\ Rows /\ Calls /\ Completed

(* The tables before the walk. *)
Cleared ==
  /\ pc \in {"delconf", "delmap", "root"} => ctxTab = {}
  /\ pc \in {"root", "findroot"} => mapTab = <<>>
  /\ pc = "findroot" => \E r \in ctxTab : /\ r.parent = Null /\ r.label = Default
                                          /\ ctxTab = {r}

Walk ==
  /\ pc \in {"delctx", "delconf", "delmap", "root", "findroot"} => placed = <<>>
  /\ ~addConf =>
       /\ Cleared
       /\ Apart /\ pc \in {"process", "done"} => Walking
       /\ pc = "done" => calls = <<>>

-----------------------------------------------------------------------------
(* The tree of contexts. *)

(* A context by its number: its lists. *)
LEMMA NodeLists ==
  ASSUME Typed, NEW p \in DOMAIN nodes
  PROVE  /\ Subs(p) \in Seq(1..Len(nodes)) /\ Dirs(p) \in Seq(Dir)
         /\ Len(Subs(p)) \in Nat /\ Len(Dirs(p)) \in Nat
         /\ \A i \in 1..Len(Subs(p)) : Subs(p)[i] \in DOMAIN nodes
         /\ p \in 1..Len(nodes) /\ DOMAIN nodes = 1..Len(nodes) /\ Len(nodes) \in Nat
<1>1. nodes \in Seq(NodeIn(Len(nodes))) /\ DOMAIN nodes = 1..Len(nodes) /\ Len(nodes) \in Nat
  BY DEF Typed, TypeOK
<1>2. nodes[p] \in NodeIn(Len(nodes))
  BY <1>1
<1>3. Subs(p) \in Seq(1..Len(nodes)) /\ Dirs(p) \in Seq(Dir)
  BY <1>2 DEF NodeIn, Subs, Dirs
<1> QED
  BY <1>1, <1>3

(* The innermost open context is one of them. *)
LEMMA CurrentIsNode ==
  ASSUME Typed
  PROVE  Current \in DOMAIN nodes /\ nodes[Current] \in NodeIn(Len(nodes))
<1>1. ctxs \in Seq(1..Len(nodes)) /\ ctxs # <<>> /\ nodes \in Seq(NodeIn(Len(nodes)))
  BY DEF Typed, TypeOK
<1>2. Current \in 1..Len(nodes)
  BY <1>1 DEF Current
<1> QED
  BY <1>1, <1>2

(* At the start there is one context, and it is empty. *)
LEMMA TreeOfOne ==
  nodes = <<NewNode(Default)>> /\ ctxs = <<1>> => Tree
<1> SUFFICES ASSUME nodes = <<NewNode(Default)>>, ctxs = << 1 >> PROVE Tree
  OBVIOUS
<1>1. DOMAIN nodes = {1} /\ Subs(1) = <<>> /\ Len(ctxs) = 1 /\ ctxs[1] = 1
  BY DEF Subs, NewNode
<1> QED
  BY <1>1 DEF Tree, Listed, OpenInside, Reachable

(* A section begins: it is the last sub-context of the current context. *)
(* What a new context changes in the lists: it is the last sub-context of    *)
(* the innermost open one.                                                   *)
LEMMA Opened ==
  ASSUME Typed, OpenLine, NEW n \in Nat, NEW new \in Nat, n = Len(nodes), new = n + 1,
         NEW cur, cur = Current
  PROVE  /\ cur \in 1..n /\ DOMAIN nodes = 1..n /\ DOMAIN nodes' = 1..new
         /\ nodes'[new] = NewNode(Line.what)
         /\ \A p \in 1..n : nodes'[p].label = nodes[p].label
         /\ \E k \in Nat :
              /\ k = Len(Subs(cur)) /\ Len(Subs(cur)') = k + 1 /\ Len(Subs(new)') = 0
              /\ Subs(cur)'[k + 1] = new
              /\ \A p \in 1..new : \A i \in 1..Len(Subs(p)') :
                   \/ p \in 1..n /\ i \in 1..Len(Subs(p)) /\ Subs(p)'[i] = Subs(p)[i]
                   \/ p = cur /\ i = k + 1 /\ Subs(p)'[i] = new
         /\ \A p \in 1..n : \A i \in 1..Len(Subs(p)) :
              i \in 1..Len(Subs(p)') /\ Subs(p)'[i] = Subs(p)[i]
<1>1. /\ nodes \in Seq(NodeIn(n)) /\ n \in Nat /\ ctxs \in Seq(1..n) /\ Len(ctxs) \in Nat \ {0}
      /\ DOMAIN nodes = 1..n /\ new = n + 1 /\ new \in Nat
  BY DEF Typed, TypeOK
<1>2. cur \in 1..n
  BY <1>1 DEF Current
<1> DEFINE full == [nodes[cur] EXCEPT !.subs = Append(@, new)]
           last == NewNode(Line.what)
<1>3. nodes' = Append([nodes EXCEPT ![cur] = full], last)
  BY <1>1, <1>2 DEF OpenLine
<1>4. /\ DOMAIN nodes' = 1..new
      /\ nodes'[cur] = full /\ nodes'[new] = last
      /\ \A p \in 1..n : p # cur => nodes'[p] = nodes[p]
  <2> DEFINE All == UNION {NodeIn(n), {full}, {last}}
             fuller == [nodes EXCEPT ![cur] = full]
  <2>1. nodes \in Seq(All) /\ full \in All /\ last \in All
    BY <1>1
  <2> HIDE DEF full, last, All
  <2>2. /\ fuller \in Seq(All) /\ Len(fuller) = n /\ fuller[cur] = full
        /\ \A p \in 1..n : p # cur => fuller[p] = nodes[p]
    BY <1>2, <2>1
  <2>3. nodes' = Append(fuller, last)
    BY <1>3
  <2> HIDE DEF fuller
  <2>4. /\ nodes' \in Seq(All) /\ Len(nodes') = new /\ nodes'[new] = last
        /\ \A p \in 1..n : nodes'[p] = fuller[p]
    BY <1>1, <2>1, <2>2, <2>3, LastAdded
  <2> QED
    BY <1>2, <2>2, <2>4
<1>5. PICK k \in Nat : k = Len(Subs(cur))
  BY <1>1, <1>2, NodeLists
<1>6. /\ Subs(cur)' = Append(Subs(cur), new)
      /\ Subs(new)' = <<>>
      /\ \A p \in 1..n : p # cur => Subs(p)' = Subs(p)
  <2>1. nodes[cur] \in NodeIn(n)
    BY <1>1, <1>2
  <2>2. full.subs = Append(nodes[cur].subs, new) /\ last.subs = <<>>
    BY <2>1 DEF NodeIn, NewNode
  <2> HIDE DEF full, last
  <2> QED BY <1>2, <1>4, <2>2 DEF Subs
<1>7. /\ Len(Subs(cur)') = k + 1 /\ Len(Subs(new)') = 0
      /\ \A i \in 1..k : Subs(cur)'[i] = Subs(cur)[i]
      /\ Subs(cur)'[k + 1] = new
  <2>1. Subs(cur) \in Seq(1..n)
    BY <1>1, <1>2, NodeLists
  <2> QED BY <1>5, <1>6, <2>1
<1>8. \A p \in 1..n : \A i \in 1..Len(Subs(p)) : Subs(p)[i] \in 1..n
  BY <1>1, NodeLists
(* What is in a list now was there before, or is the new context. *)
<1>9. ASSUME NEW p \in 1..new, NEW i \in 1..Len(Subs(p)')
      PROVE  \/ p \in 1..n /\ i \in 1..Len(Subs(p)) /\ Subs(p)'[i] = Subs(p)[i]
             \/ p = cur /\ i = k + 1 /\ Subs(p)'[i] = new
  <2>1. CASE p = cur
    BY <1>2, <1>5, <1>7, <1>9, <2>1
  <2>2. CASE p = new
    BY <1>7, <2>2
  <2>3. CASE p # cur /\ p # new
    <3>1. p \in 1..n
      BY <1>1, <2>3
    <3> QED BY <1>6, <2>3, <3>1
  <2> QED
    BY <2>1, <2>2, <2>3
<1>10. ASSUME NEW p \in 1..n, NEW i \in 1..Len(Subs(p))
       PROVE  i \in 1..Len(Subs(p)') /\ Subs(p)'[i] = Subs(p)[i]
  <2>1. CASE p = cur
    BY <1>5, <1>7, <2>1
  <2>2. CASE p # cur
    BY <1>6, <2>2
  <2> QED
    BY <2>1, <2>2
<1>11. \A p \in 1..n : nodes'[p].label = nodes[p].label
  <2>1. nodes[cur] \in NodeIn(n)
    BY <1>1, <1>2
  <2>2. full.label = nodes[cur].label
    BY <2>1 DEF NodeIn
  <2> HIDE DEF full
  <2> QED
    BY <1>2, <1>4, <2>2
<1> QED
  BY <1>1, <1>2, <1>4, <1>5, <1>7, <1>9, <1>10, <1>11

LEMMA TreeOpens == Typed /\ Tree /\ OpenLine => Tree'
<1> SUFFICES ASSUME Typed, Tree, OpenLine PROVE Tree'
  OBVIOUS
<1>0. PICK n \in Nat, new \in Nat : n = Len(nodes) /\ new = n + 1
  BY DEF Typed, TypeOK
<1>1. /\ nodes \in Seq(NodeIn(n)) /\ n \in Nat /\ ctxs \in Seq(1..n) /\ Len(ctxs) \in Nat \ {0}
      /\ DOMAIN nodes = 1..n /\ new = n + 1 /\ new \in Nat
  BY <1>0 DEF Typed, TypeOK
<1>2. PICK cur \in 1..n : cur = Current /\ cur = ctxs[1]
  BY <1>1 DEF Current
<1>4. DOMAIN nodes' = 1..new
  BY <1>0, <1>2, Opened
<1>7. PICK k \in Nat :
        /\ k = Len(Subs(cur)) /\ Len(Subs(cur)') = k + 1 /\ Subs(cur)'[k + 1] = new
        /\ \A p \in 1..new : \A i \in 1..Len(Subs(p)') :
             \/ p \in 1..n /\ i \in 1..Len(Subs(p)) /\ Subs(p)'[i] = Subs(p)[i]
             \/ p = cur /\ i = k + 1 /\ Subs(p)'[i] = new
  BY <1>0, <1>2, Opened
<1>8. \A p \in 1..n : \A i \in 1..Len(Subs(p)) : Subs(p)[i] \in 1..n
  BY <1>1, NodeLists
<1>9. ASSUME NEW p \in 1..new, NEW i \in 1..Len(Subs(p)')
      PROVE  \/ p \in 1..n /\ i \in 1..Len(Subs(p)) /\ Subs(p)'[i] = Subs(p)[i]
             \/ p = cur /\ i = k + 1 /\ Subs(p)'[i] = new
  BY <1>7
<1>10. ASSUME NEW p \in 1..n, NEW i \in 1..Len(Subs(p))
       PROVE  i \in 1..Len(Subs(p)') /\ Subs(p)'[i] = Subs(p)[i]
  BY <1>0, <1>2, Opened
<1>11. Listed'
  <2>1. ASSUME NEW p \in 1..new, NEW i \in 1..Len(Subs(p)') PROVE Subs(p)'[i] > p
    <3>1. CASE p \in 1..n /\ i \in 1..Len(Subs(p)) /\ Subs(p)'[i] = Subs(p)[i]
      BY <1>1, <3>1 DEF Tree, Listed
    <3>2. CASE p = cur /\ Subs(p)'[i] = new
      BY <1>1, <1>2, <3>2
    <3> QED
      BY <1>9, <3>1, <3>2
  <2>2. ASSUME NEW p \in 1..new, NEW q \in 1..new,
               NEW i \in 1..Len(Subs(p)'), NEW j \in 1..Len(Subs(q)'),
               Subs(p)'[i] = Subs(q)'[j]
        PROVE  p = q /\ i = j
    <3>1. new \notin 1..n
      BY <1>1
    <3>2. \/ p \in 1..n /\ i \in 1..Len(Subs(p)) /\ Subs(p)'[i] = Subs(p)[i]
          \/ p = cur /\ i = k + 1 /\ Subs(p)'[i] = new
      BY <1>9
    <3>3. \/ q \in 1..n /\ j \in 1..Len(Subs(q)) /\ Subs(q)'[j] = Subs(q)[j]
          \/ q = cur /\ j = k + 1 /\ Subs(q)'[j] = new
      BY <1>9
    <3>4. \A a \in 1..n : \A b \in 1..Len(Subs(a)) : Subs(a)[b] # new
      BY <1>8, <3>1
    <3>5. CASE p \in 1..n /\ i \in 1..Len(Subs(p)) /\ Subs(p)'[i] = Subs(p)[i]
      <4>1. Subs(q)'[j] # new
        BY <2>2, <3>4, <3>5
      <4>2. q \in 1..n /\ j \in 1..Len(Subs(q)) /\ Subs(q)'[j] = Subs(q)[j]
        BY <3>3, <4>1
      <4>3. Subs(p)[i] = Subs(q)[j]
        BY <2>2, <3>5, <4>2
      <4>4. \A a, b \in 1..n : \A x \in 1..Len(Subs(a)), y \in 1..Len(Subs(b)) :
              Subs(a)[x] = Subs(b)[y] => a = b /\ x = y
        BY <1>1 DEF Tree, Listed
      <4> QED
        BY <3>5, <4>2, <4>3, <4>4
    <3>6. CASE p = cur /\ i = k + 1 /\ Subs(p)'[i] = new
      <4>1. Subs(q)'[j] = new
        BY <2>2, <3>6
      <4>2. ~(q \in 1..n /\ j \in 1..Len(Subs(q)) /\ Subs(q)'[j] = Subs(q)[j])
        BY <3>4, <4>1
      <4>3. q = cur /\ j = k + 1
        BY <3>3, <4>2
      <4> QED
        BY <3>6, <4>3
    <3> QED
      BY <3>2, <3>5, <3>6
  <2> QED
    BY <1>4, <2>1, <2>2 DEF Listed
<1>12. ctxs' = <<new>> \o ctxs
  BY <1>0 DEF OpenLine
<1>13. /\ Len(ctxs') = Len(ctxs) + 1 /\ ctxs'[1] = new
       /\ \A i \in 1..Len(ctxs) : ctxs'[i + 1] = ctxs[i]
  BY <1>1, <1>12
<1>14. \A i \in 2..Len(ctxs') : i - 1 \in 1..Len(ctxs) /\ ctxs'[i] = ctxs[i - 1]
  BY <1>1, <1>13
<1>15. OpenInside'
  <2> SUFFICES ASSUME NEW i \in 1..Len(ctxs'), NEW j \in 1..Len(ctxs'), i < j
               PROVE  ctxs'[i] > ctxs'[j]
    BY DEF OpenInside
  <2>1. j - 1 \in 1..Len(ctxs) /\ ctxs'[j] = ctxs[j - 1] /\ ctxs[j - 1] \in 1..n
    BY <1>1, <1>13, <1>14
  <2>2. CASE i = 1
    BY <1>1, <1>13, <2>1, <2>2
  <2>3. CASE i # 1
    <3>1. i - 1 \in 1..Len(ctxs) /\ ctxs'[i] = ctxs[i - 1] /\ i - 1 < j - 1
      BY <1>1, <1>13, <1>14, <2>3
    <3> QED
      BY <2>1, <3>1 DEF Tree, OpenInside
  <2> QED
    BY <2>2, <2>3
<1>16. Reachable'
  <2> SUFFICES ASSUME NEW i \in 1..Len(ctxs'), NEW S \in SUBSET (1..new), ctxs'[i] \in S,
                      ClosedUnderSubs(S)', NEW m \in 1..new, m >= ctxs'[i]
               PROVE  m \in S
    BY <1>4 DEF Reachable
  <2>1. CASE i = 1
    <3>1. m = new /\ ctxs'[i] = new
      BY <1>1, <1>13, <2>1
    <3> QED
      BY <3>1
  <2>2. CASE i # 1
    <3>1. PICK h \in 1..Len(ctxs) : ctxs'[i] = ctxs[h]
      BY <1>1, <1>13, <1>14, <2>2
    <3> DEFINE T == S \ {new}
    <3>2. ctxs[h] \in T /\ T \in SUBSET DOMAIN nodes
      BY <1>1, <3>1
    <3>3. ClosedUnderSubs(T)
      <4> SUFFICES ASSUME NEW p \in T, NEW a \in 1..Len(Subs(p)) PROVE Subs(p)[a] \in T
        BY DEF ClosedUnderSubs
      <4>1. p \in 1..n /\ p \in S
        BY <1>1, <3>2
      <4>2. Subs(p)[a] \in 1..n /\ a \in 1..Len(Subs(p)') /\ Subs(p)'[a] = Subs(p)[a]
        BY <1>8, <1>10, <4>1
      <4>3. Subs(p)'[a] \in S
        BY <4>1, <4>2 DEF ClosedUnderSubs
      <4> QED
        BY <1>1, <4>2, <4>3
    <3>4. \A x \in DOMAIN nodes : x >= ctxs[h] => x \in T
      BY <3>2, <3>3 DEF Tree, Reachable
    <3>5. cur >= ctxs[h]
      <4>1. 1 \in 1..Len(ctxs) /\ ctxs[h] \in 1..n
        BY <1>1
      <4>2. h = 1 \/ 1 < h
        BY <1>1
      <4> QED
        BY <1>1, <1>2, <4>1, <4>2 DEF Tree, OpenInside
    <3>6. cur \in S
      BY <1>1, <1>2, <3>4, <3>5
    <3>7. new \in S
      <4>1. k + 1 \in 1..Len(Subs(cur)')
        BY <1>7
      <4> QED
        BY <1>7, <3>6, <4>1 DEF ClosedUnderSubs
    <3>8. m = new \/ m \in DOMAIN nodes
      BY <1>1
    <3>9. m >= ctxs[h]
      BY <3>1
    <3> QED
      BY <3>4, <3>7, <3>8, <3>9
  <2> QED
    BY <2>1, <2>2
<1> QED
  BY <1>11, <1>15, <1>16 DEF Tree

LEMMA TreeNext == Typed /\ Tree /\ [Next]_vars => Tree'
<1> SUFFICES ASSUME Typed, Tree, [Next]_vars PROVE Tree'
  OBVIOUS
<1>1. CASE OpenLine
  BY <1>1, TreeOpens
<1>2. CASE CloseLine
  <2>1. nodes' = nodes /\ ctxs' = Closed /\ ctxs \in Seq(1..Len(nodes)) /\ Len(ctxs) \in Nat
    BY <1>2 DEF CloseLine, Typed, TypeOK
  <2>2. CASE ctxs' = ctxs
    BY <2>1, <2>2 DEF Tree, Listed, OpenInside, Reachable, ClosedUnderSubs, Subs
  <2>3. CASE Len(ctxs) > 1 /\ ctxs' = Tail(ctxs)
    <3>1. Len(ctxs') = Len(ctxs) - 1 /\ \A i \in 1..Len(ctxs') : ctxs'[i] = ctxs[i + 1]
      BY <2>1, <2>3
    <3>2. \A i \in 1..Len(ctxs') : i + 1 \in 1..Len(ctxs)
      BY <2>1, <3>1
    <3>3. \A S : ClosedUnderSubs(S)' <=> ClosedUnderSubs(S)
      BY <2>1 DEF ClosedUnderSubs, Subs
    <3>4. Listed'
      BY <2>1 DEF Tree, Listed, Subs
    <3>5. OpenInside'
      <4> SUFFICES ASSUME NEW i \in 1..Len(ctxs'), NEW j \in 1..Len(ctxs'), i < j
                   PROVE  ctxs'[i] > ctxs'[j]
        BY DEF OpenInside
      <4>1. i + 1 < j + 1
        BY <2>1, <3>1
      <4> QED
        BY <3>1, <3>2, <4>1 DEF Tree, OpenInside
    <3>6. Reachable'
      BY <2>1, <3>1, <3>2, <3>3 DEF Tree, Reachable
    <3> QED
      BY <3>4, <3>5, <3>6 DEF Tree
  <2> QED
    BY <2>1, <2>2, <2>3 DEF Closed
<1>3. CASE DirLine
  <2> DEFINE full == [nodes[Current] EXCEPT !.dirs = Append(@, Line.what)]
  <2>1. nodes \in Seq(NodeIn(Len(nodes))) /\ Current \in 1..Len(nodes) /\ ctxs' = ctxs
    BY <1>3 DEF DirLine, Typed, TypeOK, Current
  <2>2. nodes' = [nodes EXCEPT ![Current] = full]
    BY <1>3, <2>1 DEF DirLine
  <2>3. full.subs = nodes[Current].subs
    <3>1. nodes[Current] \in NodeIn(Len(nodes))
      BY <2>1
    <3> QED BY <3>1 DEF NodeIn
  <2>4. DOMAIN nodes' = DOMAIN nodes /\ \A p \in DOMAIN nodes : Subs(p)' = Subs(p)
    <3> HIDE DEF full
    <3> QED BY <2>1, <2>2, <2>3 DEF Subs
  <2>5. \A S \in SUBSET DOMAIN nodes : ClosedUnderSubs(S)' <=> ClosedUnderSubs(S)
    BY <2>4 DEF ClosedUnderSubs
  <2> QED
    BY <2>1, <2>4, <2>5 DEF Tree, Listed, OpenInside, Reachable
<1>4. CASE Rerun
  <2>1. nodes' = <<NewNode(Default)>> /\ ctxs' = << 1 >>
    BY <1>4 DEF Rerun, Started
  <2>2. DOMAIN nodes' = {1} /\ Subs(1)' = <<>> /\ Len(ctxs') = 1 /\ ctxs'[1] = 1
    BY <2>1 DEF Subs, NewNode
  <2> QED
    BY <2>2 DEF Tree, Listed, OpenInside, Reachable
<1>5. ASSUME UNCHANGED <<nodes, ctxs>> PROVE Tree'
  BY <1>5 DEF Tree, Listed, OpenInside, Reachable, ClosedUnderSubs, Subs
<1>6. CASE BadClose \/ EndOfFile
  BY <1>5, <1>6 DEF BadClose, EndOfFile, tree
<1>7. CASE Statement \/ Return \/ Exit \/ Die
  <2>1. UNCHANGED Script
    BY <1>7 DEF Statement, DeleteCtxs, DeleteConfs, DeleteMaps, InsertRoot, SelectRoot,
                InsertConf, SelectConf, InsertMap, InsertCtx, SelectCtx, Return, Exit, Die
  <2> QED
    BY <1>5, <2>1 DEF Script, tree
<1>8. CASE UNCHANGED vars
  BY <1>5, <1>8 DEF vars
<1> QED
  BY <1>1, <1>2, <1>3, <1>4, <1>6, <1>7, <1>8 DEF Next, Step, Parse

-----------------------------------------------------------------------------
(* Lists that are worked off, and the stack of calls. *)

LEMMA RestNext ==
  ASSUME NEW S, NEW list \in Seq(S), NEW left \in Seq(S), RestOf(list, left), left # <<>>
  PROVE  /\ RestOf(list, Tail(left)) /\ Done(list, Tail(left)) = Done(list, left) + 1
         /\ Head(left) = list[Done(list, left) + 1]
         /\ Done(list, left) + 1 \in 1..Len(list) /\ Done(list, left) \in Nat
<1>1. /\ Len(left) \in Nat \ {0} /\ Len(list) \in Nat /\ Len(left) <= Len(list)
      /\ Tail(left) \in Seq(S) /\ Len(Tail(left)) = Len(left) - 1 /\ Head(left) = left[1]
      /\ \A i \in 1..Len(Tail(left)) : Tail(left)[i] = left[i + 1]
  BY DEF RestOf
<1>2. PICK a \in Nat, b \in Nat \ {0} : a = Len(list) /\ b = Len(left) /\ b <= a
  BY <1>1
<1>3. \A i \in 1..b : left[i] = list[a - b + i]
  BY <1>2 DEF RestOf
<1>4. Head(left) = list[a - b + 1]
  BY <1>1, <1>2, <1>3
<1>5. ASSUME NEW i \in 1..(b - 1) PROVE Tail(left)[i] = list[a - (b - 1) + i]
  <2>1. i + 1 \in 1..b /\ a - b + (i + 1) = a - (b - 1) + i
    BY <1>2
  <2> QED
    BY <1>1, <1>2, <1>3, <2>1
<1> QED
  BY <1>1, <1>2, <1>4, <1>5 DEF RestOf, Done

LEMMA RestAll ==
  ASSUME NEW S, NEW list \in Seq(S)
  PROVE  /\ RestOf(list, list) /\ Done(list, list) = 0
         /\ RestOf(list, <<>>) => Done(list, <<>>) = Len(list)
<1>1. Len(list) \in Nat /\ Len(<<>>) = 0
  OBVIOUS
<1> QED
  BY <1>1 DEF RestOf, Done

LEMMA LastIndex ==
  ASSUME NEW S, NEW s \in Seq(S), s # <<>>
  PROVE  \E n \in Nat : Len(s) = n + 1 /\ n = Len(s) - 1
<1>1. Len(s) \in Nat /\ Len(s) # 0
  OBVIOUS
<1>2. Len(s) - 1 \in Nat /\ Len(s) = (Len(s) - 1) + 1
  BY <1>1
<1> QED
  BY <1>2

(* The innermost call moves on: see LastReplaced. *)
LEMMA StackMoves ==
  ASSUME NEW S, NEW s \in Seq(S), s # <<>>, NEW x, NEW t \in Seq(S), Len(t) = Len(s),
         t[Len(s)] = x, \A i \in 1..(Len(s) - 1) : t[i] = s[i]
  PROVE  /\ Values(s) = Outer(s) \union {s[Len(s)]}
         /\ t # <<>> /\ t[Len(t)] = x
         /\ Outer(t) = Outer(s) /\ Values(t) = Outer(s) \union {x}
<1>1. PICK n \in Nat : Len(s) = n + 1 /\ n = Len(s) - 1
  BY LastIndex
<1>2. 1..(n + 1) = (1..n) \union {n + 1} /\ n + 1 \notin 1..n
  OBVIOUS
<1>3. DOMAIN s = 1..(n + 1) /\ Values(s) = Outer(s) \union {s[Len(s)]}
  BY <1>1, <1>2 DEF Values, Outer
<1>4. /\ t \in Seq(S) /\ Len(t) = n + 1 /\ t[n + 1] = x
      /\ \A i \in 1..n : t[i] = s[i]
  BY <1>1
<1>5. DOMAIN t = 1..(n + 1) /\ t # <<>>
  BY <1>4
<1>6. Outer(t) = Outer(s)
  BY <1>1, <1>4 DEF Outer
<1>7. Values(t) = Outer(t) \union {x}
  BY <1>2, <1>4, <1>5 DEF Outer, Values
<1> QED
  BY <1>3, <1>4, <1>5, <1>6, <1>7

(* It calls: see LastReplacedAndAdded. *)
LEMMA StackCalls ==
  ASSUME NEW S, NEW s \in Seq(S), s # <<>>, NEW x, NEW y, NEW t \in Seq(S),
         Len(t) = Len(s) + 1, t[Len(s)] = x, t[Len(s) + 1] = y,
         \A i \in 1..(Len(s) - 1) : t[i] = s[i]
  PROVE  /\ t # <<>> /\ t[Len(t)] = y
         /\ Outer(t) = Outer(s) \union {x} /\ Values(t) = Outer(s) \union {x, y}
<1>1. PICK n \in Nat : Len(s) = n + 1 /\ n = Len(s) - 1
  BY LastIndex
<1>2. 1..(n + 1) = (1..n) \union {n + 1}
  OBVIOUS
<1>3. /\ t \in Seq(S) /\ Len(t) = n + 2 /\ t[n + 2] = y /\ t[n + 1] = x
      /\ \A i \in 1..n : t[i] = s[i]
  BY <1>1
<1>4. DOMAIN t = 1..(n + 2) /\ t # <<>> /\ 1..(n + 2) = (1..(n + 1)) \union {n + 2}
  BY <1>3
<1>5. Len(t) - 1 = n + 1 /\ Len(s) - 1 = n
  BY <1>1, <1>3
<1>6. Outer(t) = {t[i] : i \in 1..n} \union {t[n + 1]}
  BY <1>2, <1>5 DEF Outer
<1>7. {t[i] : i \in 1..n} = Outer(s)
  BY <1>3, <1>5 DEF Outer
<1>8. Values(t) = Outer(t) \union {t[n + 2]}
  BY <1>4, <1>5 DEF Outer, Values
<1> QED
  BY <1>3, <1>4, <1>6, <1>7, <1>8

(* It returns: see LastDropped. *)
LEMMA StackReturns ==
  ASSUME NEW S, NEW s \in Seq(S), s # <<>>, NEW t \in Seq(S), Len(t) = Len(s) - 1,
         \A i \in 1..(Len(s) - 1) : t[i] = s[i]
  PROVE  /\ Values(s) = Outer(s) \union {s[Len(s)]}
         /\ Values(t) = Outer(s) /\ Outer(t) \subseteq Outer(s)
         /\ t # <<>> => t[Len(t)] \in Outer(s)
<1>1. PICK n \in Nat : Len(s) = n + 1 /\ n = Len(s) - 1
  BY LastIndex
<1>2. 1..(n + 1) = (1..n) \union {n + 1} /\ 1..(n - 1) \subseteq 1..n /\ (n # 0 => n \in 1..n)
  OBVIOUS
<1>3. DOMAIN s = 1..(n + 1) /\ Values(s) = Outer(s) \union {s[Len(s)]}
  BY <1>1, <1>2 DEF Values, Outer
<1>4. Len(t) = n /\ DOMAIN t = 1..n /\ Len(s) - 1 = n /\ \A i \in 1..n : t[i] = s[i]
  BY <1>1
<1>5. Values(t) = Outer(s)
  BY <1>4 DEF Values, Outer
<1>6. Outer(t) \subseteq Values(t)
  BY <1>2, <1>4 DEF Values, Outer
<1>7. t # <<>> => t[Len(t)] \in Values(t)
  BY <1>2, <1>4 DEF Values
<1> QED
  BY <1>3, <1>5, <1>6, <1>7

LEMMA NodesStayApart ==
  ASSUME NEW S, NEW s \in Seq(S), s # <<>>, NEW x \in S, NEW y \in S, NodesApart(s),
         x.node = s[Len(s)].node
  PROVE  /\ \A c \in Outer(s) : c.node # s[Len(s)].node
         /\ NodesApart([s EXCEPT ![Len(s)] = x])
         /\ NodesApart(SubSeq(s, 1, Len(s) - 1))
         /\ (\A c \in Values(s) : y.node # c.node)
              => NodesApart(Append([s EXCEPT ![Len(s)] = x], y))
<1>1. PICK n \in Nat : Len(s) = n + 1 /\ n = Len(s) - 1
  BY LastIndex
<1>2. DOMAIN s = 1..(n + 1) /\ 1..(n + 1) = (1..n) \union {n + 1} /\ n + 1 \notin 1..n
  BY <1>1
<1>3. \A i, j \in 1..(n + 1) : s[i].node = s[j].node => i = j
  BY <1>1 DEF NodesApart
<1>4. \A c \in Outer(s) : c.node # s[Len(s)].node
  BY <1>1, <1>2, <1>3 DEF Outer
<1>5. (\A c \in Values(s) : y.node # c.node) => \A i \in 1..(n + 1) : y.node # s[i].node
  BY <1>2 DEF Values
<1>6. NodesApart([s EXCEPT ![Len(s)] = x])
  <2> DEFINE t == [s EXCEPT ![Len(s)] = x]
  <2>1. Len(t) = n + 1 /\ t[n + 1] = x /\ \A i \in 1..n : t[i] = s[i]
    BY <1>1, LastReplaced
  <2> HIDE DEF t
  <2>2. \A i \in 1..(n + 1) : t[i].node = s[i].node
    BY <1>1, <1>2, <2>1
  <2>3. NodesApart(t)
    BY <1>3, <2>1, <2>2 DEF NodesApart
  <2> QED BY <2>3 DEF t
<1>7. ASSUME \A c \in Values(s) : y.node # c.node
      PROVE  NodesApart(Append([s EXCEPT ![Len(s)] = x], y))
  <2> DEFINE t == Append([s EXCEPT ![Len(s)] = x], y)
  <2>1. /\ t \in Seq(S) /\ Len(t) = n + 2 /\ t[n + 2] = y /\ t[n + 1] = x
        /\ \A i \in 1..n : t[i] = s[i]
    BY <1>1, LastReplacedAndAdded
  <2> HIDE DEF t
  <2>2. \A i \in 1..(n + 1) : t[i].node = s[i].node
    BY <1>1, <1>2, <2>1
  <2>3. 1..(n + 2) = (1..(n + 1)) \union {n + 2}
    OBVIOUS
  <2>4. NodesApart(t)
    BY <1>3, <1>5, <1>7, <2>1, <2>2, <2>3 DEF NodesApart
  <2> QED BY <2>4 DEF t
<1>8. NodesApart(SubSeq(s, 1, Len(s) - 1))
  <2> DEFINE t == SubSeq(s, 1, Len(s) - 1)
  <2>1. t \in Seq(S) /\ Len(t) = n /\ \A i \in 1..n : t[i] = s[i]
    BY <1>1, LastDropped
  <2> HIDE DEF t
  <2>2. NodesApart(t)
    BY <1>2, <1>3, <2>1 DEF NodesApart
  <2> QED BY <2>2 DEF t
<1> QED
  BY <1>4, <1>6, <1>7, <1>8

-----------------------------------------------------------------------------
(* The rows of the mapping table for one context. *)

(* A directive row is added, or none. *)
LEMMA GivesKept ==
  ASSUME Typed, ConfNumbered, mapTab' = mapTab, confTab \subseteq confTab',
         \A c \in confTab' : c \in confTab \/ c.id = lastConf + 1,
         NEW id, NEW dirs, NEW k \in Nat, Gives(id, dirs, k)
  PROVE  Gives(id, dirs, k)'
<1>1. PICK at \in [1..k -> DOMAIN mapTab] :
        /\ \A i, j \in 1..k : i < j => at[i] < at[j]
        /\ Values(at) = {m \in DOMAIN mapTab : mapTab[m].ctx = id}
        /\ \A i \in 1..k : DirsWith(mapTab[at[i]].conf) = {dirs[i]}
  BY DEF Gives
<1>2. ASSUME NEW conf, NEW d, DirsWith(conf) = {d} PROVE DirsWith(conf)' = {d}
  <2>1. PICK c \in confTab : c.id = conf /\ c.dir = d
    BY <1>2 DEF DirsWith
  <2>2. \A e \in confTab' : e.id = conf => e \in confTab
    BY <2>1 DEF ConfNumbered, Typed, TypeOK
  <2>3. {e \in confTab' : e.id = conf} = {e \in confTab : e.id = conf}
    BY <2>2
  <2> QED
    BY <1>2, <2>3 DEF DirsWith
<1>3. \A i \in 1..k : DirsWith(mapTab[at[i]].conf)' = {dirs[i]}
  <2> SUFFICES ASSUME NEW i \in 1..k PROVE DirsWith(mapTab[at[i]].conf)' = {dirs[i]}
    OBVIOUS
  <2>1. PICK conf : conf = mapTab[at[i]].conf
    OBVIOUS
  <2>2. DirsWith(conf)' = {dirs[i]}
    BY <1>1, <1>2, <2>1
  <2> QED
    BY <2>1, <2>2 DEF DirsWith
<1> QED
  BY <1>1, <1>3 DEF Gives

(* No row for this context. *)
LEMMA GivesNone ==
  ASSUME NEW id, NEW dirs, \A m \in DOMAIN mapTab : mapTab[m].ctx # id
  PROVE  Gives(id, dirs, 0)
<1> DEFINE at == [i \in 1..0 |-> i]
<1>1. at \in [1..0 -> DOMAIN mapTab] /\ Values(at) = {}
  BY DEF Values
<1>2. {m \in DOMAIN mapTab : mapTab[m].ctx = id} = {}
  OBVIOUS
<1>3. \A i \in 1..0 : FALSE
  OBVIOUS
<1> HIDE DEF at
<1> QED
  BY <1>1, <1>2, <1>3 DEF Gives

(* A row is added. *)
LEMMA GivesMore ==
  ASSUME Typed, NEW row, mapTab' = Append(mapTab, row), confTab' = confTab,
         NEW id, NEW dirs, NEW k \in Nat, Gives(id, dirs, k)
  PROVE  /\ row.ctx # id => Gives(id, dirs, k)'
         /\ row.ctx = id /\ DirsWith(row.conf) = {dirs[k + 1]} => Gives(id, dirs, k + 1)'
<1>1. PICK at \in [1..k -> DOMAIN mapTab] :
        /\ \A i, j \in 1..k : i < j => at[i] < at[j]
        /\ Values(at) = {m \in DOMAIN mapTab : mapTab[m].ctx = id}
        /\ \A i \in 1..k : DirsWith(mapTab[at[i]].conf) = {dirs[i]}
  BY DEF Gives
<1>2. PICK n \in Nat : n = Len(mapTab)
  <2>1. mapTab \in Seq(MapRow)
    BY DEF Typed, TypeOK
  <2> QED BY <2>1, LenProperties
<1>3. /\ DOMAIN mapTab = 1..n /\ DOMAIN mapTab' = 1..(n + 1)
      /\ \A m \in 1..n : mapTab'[m] = mapTab[m]
      /\ mapTab'[n + 1] = row
  <2>1. mapTab \in Seq(UNION {MapRow, {row}})
    BY DEF Typed, TypeOK
  <2> QED
    BY <1>2, <2>1
<1>4. \A conf : DirsWith(conf)' = DirsWith(conf)
  BY DEF DirsWith
<1>5. ASSUME row.ctx # id PROVE Gives(id, dirs, k)'
  <2>1. {m \in DOMAIN mapTab' : mapTab'[m].ctx = id} = {m \in DOMAIN mapTab : mapTab[m].ctx = id}
    BY <1>3, <1>5
  <2>2. at \in [1..k -> DOMAIN mapTab'] /\ \A i \in 1..k : mapTab'[at[i]] = mapTab[at[i]]
    BY <1>1, <1>3
  <2>3. \A i \in 1..k : DirsWith(mapTab[at[i]].conf)' = {dirs[i]}
    <3> SUFFICES ASSUME NEW i \in 1..k PROVE DirsWith(mapTab[at[i]].conf)' = {dirs[i]}
      OBVIOUS
    <3>1. PICK conf : conf = mapTab[at[i]].conf /\ conf = mapTab'[at[i]].conf
      BY <2>2
    <3>2. DirsWith(conf)' = {dirs[i]}
      BY <1>1, <1>4, <3>1
    <3> QED
      BY <3>1, <3>2 DEF DirsWith
  <2> QED
    BY <1>1, <2>1, <2>2, <2>3 DEF Gives
<1>6. ASSUME row.ctx = id, DirsWith(row.conf) = {dirs[k + 1]} PROVE Gives(id, dirs, k + 1)'
  <2> DEFINE on == [i \in 1..(k + 1) |-> IF i = k + 1 THEN n + 1 ELSE at[i]]
  <2>1. 1..(k + 1) = (1..k) \union {k + 1} /\ k + 1 \notin 1..k
    OBVIOUS
  <2>2. \A i \in 1..k : at[i] \in 1..n
    BY <1>1, <1>3
  <2>3. /\ on \in [1..(k + 1) -> 1..(n + 1)] /\ on[k + 1] = n + 1
        /\ \A i \in 1..k : on[i] = at[i]
        /\ DOMAIN on = (1..k) \union {k + 1} /\ DOMAIN at = 1..k
    BY <1>1, <2>1, <2>2
  <2> HIDE DEF on
  <2>4. \A i, j \in 1..(k + 1) : i < j => on[i] < on[j]
    <3> SUFFICES ASSUME NEW i \in 1..(k + 1), NEW j \in 1..(k + 1), i < j
                 PROVE  on[i] < on[j]
      OBVIOUS
    <3>1. i \in 1..k /\ on[i] = at[i] /\ at[i] \in 1..n
      BY <2>2, <2>3
    <3>2. CASE j = k + 1
      BY <2>3, <3>1, <3>2
    <3>3. CASE j \in 1..k
      BY <1>1, <2>3, <3>1, <3>3
    <3> QED
      BY <2>1, <3>2, <3>3
  <2>5. Values(on) = Values(at) \union {n + 1}
    BY <2>3 DEF Values
  <2>6. {m \in 1..(n + 1) : mapTab'[m].ctx = id}
          = {m \in 1..n : mapTab[m].ctx = id} \union {n + 1}
    BY <1>3, <1>6
  <2>7. \A i \in 1..(k + 1) : DirsWith(mapTab[on[i]].conf)' = {dirs[i]}
    <3> SUFFICES ASSUME NEW i \in 1..(k + 1) PROVE DirsWith(mapTab[on[i]].conf)' = {dirs[i]}
      OBVIOUS
    <3>1. PICK conf : conf = mapTab'[on[i]].conf
      OBVIOUS
    <3>2. CASE i = k + 1
      <4>1. conf = row.conf
        BY <1>3, <2>3, <3>1, <3>2
      <4>2. DirsWith(conf)' = {dirs[i]}
        BY <1>4, <1>6, <3>2, <4>1
      <4> QED
        BY <3>1, <4>2 DEF DirsWith
    <3>3. CASE i \in 1..k
      <4>1. conf = mapTab[at[i]].conf
        BY <1>3, <2>2, <2>3, <3>1, <3>3
      <4>2. DirsWith(conf)' = {dirs[i]}
        BY <1>1, <1>4, <3>3, <4>1
      <4> QED
        BY <3>1, <4>2 DEF DirsWith
    <3> QED
      BY <2>1, <3>2, <3>3
  <2> QED
    BY <1>1, <1>3, <2>3, <2>4, <2>5, <2>6, <2>7 DEF Gives
<1> QED
  BY <1>5, <1>6

LEMMA ConfNumberedNext == Typed /\ ConfNumbered /\ [Next]_vars => ConfNumbered'
<1> SUFFICES ASSUME Typed, ConfNumbered, [Next]_vars PROVE ConfNumbered'
  OBVIOUS
<1>1. CASE UNCHANGED <<confTab, lastConf>>
  BY <1>1 DEF ConfNumbered
<1>2. CASE DeleteConfs
  BY <1>2 DEF DeleteConfs, ConfNumbered
<1>3. CASE InsertConf
  <2> DEFINE row == [id |-> lastConf + 1, dir |-> Head(Top.dirs)]
  <2>1. /\ confTab' = confTab \union {row} /\ lastConf' = lastConf + 1
        /\ row.id = lastConf + 1 /\ lastConf \in Nat
    BY <1>3 DEF InsertConf, Typed, TypeOK
  <2> HIDE DEF row
  <2>2. \A c \in confTab : c.id \in 1..lastConf
    BY DEF ConfNumbered
  <2>3. \A c \in confTab' : c.id \in 1..lastConf'
    BY <2>1, <2>2
  <2>4. ASSUME NEW c \in confTab', NEW d \in confTab', c.id = d.id PROVE c = d
    <3>1. CASE c \in confTab /\ d \in confTab
      BY <2>4, <3>1 DEF ConfNumbered
    <3>2. CASE c = row \/ d = row
      BY <2>1, <2>2, <2>4, <3>2
    <3> QED
      BY <2>1, <3>1, <3>2
  <2> QED
    BY <2>3, <2>4 DEF ConfNumbered
<1>4. CASE Parse
  BY <1>1, <1>4 DEF Parse, OpenLine, CloseLine, BadClose, DirLine, EndOfFile, tables
<1>5. CASE \/ DeleteCtxs \/ DeleteMaps \/ InsertRoot \/ SelectRoot \/ SelectConf
           \/ InsertMap \/ InsertCtx \/ SelectCtx
  BY <1>1, <1>5 DEF DeleteCtxs, DeleteMaps, InsertRoot, SelectRoot, SelectConf, InsertMap,
                    InsertCtx, InsertCtxRow, SelectCtx, tables
<1>6. CASE Return \/ Exit \/ Die \/ Rerun \/ UNCHANGED vars
  BY <1>1, <1>6 DEF Return, Exit, Die, Rerun, vars, tables
<1> QED
  BY <1>2, <1>3, <1>4, <1>5, <1>6 DEF Next, Step, Statement

-----------------------------------------------------------------------------
(* What the statements of the walk leave as it is. *)

LEMMA SameTree ==
  ASSUME UNCHANGED Script
  PROVE  /\ nodes' = nodes /\ ctxs' = ctxs /\ addConf' = addConf /\ Current' = Current
         /\ Apart' <=> Apart
         /\ \A p : Subs(p)' = Subs(p) /\ Dirs(p)' = Dirs(p) /\ Up(p)' = Up(p)
<1>1. nodes' = nodes /\ ctxs' = ctxs /\ addConf' = addConf
  BY DEF Script, options, tree
<1> QED
  BY <1>1 DEF Current, Apart, Subs, Dirs, Up, Values

(* A context is listed by one context only. *)
LEMMA UpIs ==
  ASSUME Typed, Tree, NEW p \in DOMAIN nodes, NEW i \in 1..Len(Subs(p))
  PROVE  Up(Subs(p)[i]) = p
<1> DEFINE n == Subs(p)[i]
<1>1. \A q \in DOMAIN nodes : Values(nodes[q].subs) = {Subs(q)[j] : j \in 1..Len(Subs(q))}
  <2> SUFFICES ASSUME NEW q \in DOMAIN nodes
               PROVE  Values(nodes[q].subs) = {Subs(q)[j] : j \in 1..Len(Subs(q))}
    OBVIOUS
  <2>1. Subs(q) \in Seq(1..Len(nodes))
    BY NodeLists
  <2> QED
    BY <2>1 DEF Values, Subs
<1>2. n \in Values(nodes[p].subs)
  BY <1>1
<1>3. \A q \in DOMAIN nodes : n \in Values(nodes[q].subs) => q = p
  <2> SUFFICES ASSUME NEW q \in DOMAIN nodes, n \in Values(nodes[q].subs) PROVE q = p
    OBVIOUS
  <2>1. PICK j \in 1..Len(Subs(q)) : Subs(q)[j] = n
    BY <1>1
  <2>2. \A a, b \in DOMAIN nodes : \A x \in 1..Len(Subs(a)), y \in 1..Len(Subs(b)) :
          Subs(a)[x] = Subs(b)[y] => a = b /\ x = y
    BY DEF Tree, Listed
  <2> QED
    BY <2>1, <2>2
<1> HIDE DEF n
<1>4. Up(n) = p
  BY <1>2, <1>3 DEF Up
<1> QED
  BY <1>4 DEF n

LEMMA PlacedId ==
  ASSUME Typed, NEW n \in DOMAIN placed
  PROVE  placed[n] \in Nat /\ n \in DOMAIN nodes /\ n \in 1..Len(nodes)
  BY DEF Typed, TypeOK, Values

(* A call and the lists of its context. *)
LEMMA CallLists ==
  ASSUME Typed, NEW c \in CallIn(Len(nodes))
  PROVE  /\ c.node \in DOMAIN nodes /\ c.id \in Nat
         /\ c.dirs \in Seq(Dir) /\ c.subs \in Seq(1..Len(nodes))
         /\ Dirs(c.node) \in Seq(Dir) /\ Subs(c.node) \in Seq(1..Len(nodes))
<1>1. /\ c.node \in 1..Len(nodes) /\ c.id \in Nat
      /\ c.dirs \in Seq(Dir) /\ c.subs \in Seq(1..Len(nodes))
  BY DEF CallIn
<1>2. DOMAIN nodes = 1..Len(nodes)
  BY DEF Typed, TypeOK
<1> QED
  BY <1>1, <1>2, NodeLists

(* The number of elements a call is done with. *)
LEMMA DoneIsNat ==
  ASSUME NEW S, NEW list \in Seq(S), NEW left \in Seq(S), RestOf(list, left)
  PROVE  Done(list, left) \in Nat
<1>1. Len(list) \in Nat /\ Len(left) \in Nat /\ Len(left) <= Len(list)
  BY DEF RestOf
<1> QED
  BY <1>1 DEF Done

(* The rows of a context after a step that leaves its lists as they are. *)
LEMMA GivesThen ==
  ASSUME NEW c, NEW d, NEW k,
         Dirs(c.node)' = d, Done(Dirs(c.node), c.dirs)' = k, Gives(c.id, d, k)'
  PROVE  Gives(c.id, Dirs(c.node), Done(Dirs(c.node), c.dirs))'
  BY DEF Gives

LEMMA HasDirsThen ==
  ASSUME NEW n, NEW d, NEW k, NEW id,
         Dirs(n)' = d, Len(Dirs(n)') = k, placed'[n] = id, Gives(id, d, k)'
  PROVE  HasDirs(placed[n], Dirs(n))'
<1>1. Gives(placed[n], Dirs(n), Len(Dirs(n)))'
  BY DEF Gives
<1> QED
  BY <1>1 DEF HasDirs

(* A call whose context keeps its rows in the mapping table. *)
LEMMA CallKept ==
  ASSUME Typed, UNCHANGED Script, placed' = placed,
         NEW c \in CallIn(Len(nodes)), CallWalks(c),
         \A dirs : \A k \in Nat : Gives(c.id, dirs, k) => Gives(c.id, dirs, k)'
  PROVE  CallWalks(c)'
<1>1. PICK d, k : d = Dirs(c.node) /\ k = Done(d, c.dirs)
  OBVIOUS
<1>2. k \in Nat /\ Gives(c.id, d, k)
  BY <1>1, CallLists, DoneIsNat DEF CallWalks
<1>3. Gives(c.id, d, k)'
  BY <1>2
<1>4. Gives(c.id, Dirs(c.node), Done(Dirs(c.node), c.dirs))'
  <2>1. Dirs(c.node)' = d
    BY <1>1, SameTree
  <2>2. Done(Dirs(c.node), c.dirs)' = k
    BY <1>1, <2>1 DEF Done
  <2> QED
    BY <1>3, <2>1, <2>2, GivesThen
<1> QED
  BY <1>4, SameTree DEF CallWalks, Done, RestOf

LEMMA CompleteKept ==
  ASSUME Typed, UNCHANGED Script, NEW n \in DOMAIN placed, Complete(n),
         DOMAIN placed \subseteq DOMAIN placed', placed'[n] = placed[n],
         NEW id, id = placed[n],
         \A dirs : \A k \in Nat : Gives(id, dirs, k) => Gives(id, dirs, k)'
  PROVE  Complete(n)'
<1>1. n \in DOMAIN nodes
  BY PlacedId
<1>2. PICK d, k : d = Dirs(n) /\ k = Len(d)
  OBVIOUS
<1>3. k \in Nat /\ Gives(id, d, k)
  BY <1>1, <1>2, NodeLists DEF Complete, HasDirs
<1>4. Gives(id, d, k)'
  BY <1>3
<1>5. HasDirs(placed[n], Dirs(n))'
  <2>1. Dirs(n)' = d /\ placed'[n] = id
    BY <1>2, SameTree
  <2>2. Len(Dirs(n)') = k
    BY <1>2, <2>1
  <2> QED
    BY <1>4, <2>1, <2>2, HasDirsThen
<1> QED
  BY <1>5, SameTree DEF Complete

(* The innermost call, and what it is after a statement. *)
LEMMA TopMoves ==
  ASSUME Typed, calls # <<>>, NodesApart(calls), NEW call \in CallIn(Len(nodes)),
         SetTop(call), call.node = Top.node
  PROVE  /\ Top \in CallIn(Len(nodes)) /\ Values(calls) = Outer(calls) \union {Top}
         /\ Values(calls) \subseteq CallIn(Len(nodes))
         /\ calls' # <<>> /\ Top' = call
         /\ Outer(calls') = Outer(calls) /\ Values(calls') = Outer(calls) \union {call}
         /\ NodesApart(calls') /\ \A c \in Outer(calls) : c.node # Top.node
<1>1. calls \in Seq(CallIn(Len(nodes))) /\ calls' = [calls EXCEPT ![Len(calls)] = call]
  BY DEF Typed, SetTop
<1>2. Top = calls[Len(calls)] /\ Top' = calls'[Len(calls')]
  BY DEF Top
<1>3. Values(calls) \subseteq CallIn(Len(nodes))
  BY <1>1, ValuesOf
<1>4. /\ Values(calls) = Outer(calls) \union {Top}
      /\ calls' # <<>> /\ calls'[Len(calls')] = call
      /\ Outer(calls') = Outer(calls) /\ Values(calls') = Outer(calls) \union {call}
  <2>1. PICK S, s, t : S = CallIn(Len(nodes)) /\ s = calls /\ t = calls'
    OBVIOUS
  <2>2. /\ s \in Seq(S) /\ s # <<>> /\ t \in Seq(S) /\ Len(t) = Len(s)
        /\ t[Len(s)] = call /\ \A i \in 1..(Len(s) - 1) : t[i] = s[i]
    BY <1>1, <2>1, LastReplaced
  <2>3. /\ Values(s) = Outer(s) \union {s[Len(s)]}
        /\ t # <<>> /\ t[Len(t)] = call
        /\ Outer(t) = Outer(s) /\ Values(t) = Outer(s) \union {call}
    BY <2>2, StackMoves
  <2> QED
    BY <1>2, <2>1, <2>3
<1>5. NodesApart(calls') /\ \A c \in Outer(calls) : c.node # Top.node
  BY <1>1, <1>2, NodesStayApart
<1> QED
  BY <1>2, <1>3, <1>4, <1>5

LEMMA PlacesKept ==
  ASSUME Places, UNCHANGED Script, placed' = placed
  PROVE  Places'
  BY SameTree DEF Places

(* A statement that adds no mapping, and takes nothing off a list. *)
LEMMA TopStays ==
  ASSUME Typed, ConfNumbered, Walking, UNCHANGED Script, placed' = placed, mapTab' = mapTab,
         confTab \subseteq confTab', \A c \in confTab' : c \in confTab \/ c.id = lastConf + 1,
         calls # <<>>, NEW call \in CallIn(Len(nodes)), SetTop(call), call.node = Top.node,
         call.id = Top.id, call.dirs = Top.dirs, call.subs = Top.subs
  PROVE  Places' /\ Calls' /\ Completed' /\ Top' = call /\ calls' # <<>>
<1>1. Places /\ Calls /\ Completed /\ NodesApart(calls)
  BY DEF Walking, Calls
<1>2. /\ Top \in CallIn(Len(nodes)) /\ Values(calls) = Outer(calls) \union {Top}
      /\ Values(calls) \subseteq CallIn(Len(nodes))
      /\ calls' # <<>> /\ Top' = call
      /\ Outer(calls') = Outer(calls) /\ Values(calls') = Outer(calls) \union {call}
      /\ NodesApart(calls')
  BY <1>1, TopMoves
<1>3. \A id, dirs : \A k \in Nat : Gives(id, dirs, k) => Gives(id, dirs, k)'
  BY GivesKept
<1>4. \A c \in Outer(calls) : CallWalks(c)'
  BY <1>1, <1>2, <1>3, CallKept DEF Calls
<1>5. CallWalks(call)'
  <2>1. PICK t : t = Top
    OBVIOUS
  <2>2. CallWalks(t)
    BY <1>1, <1>2, <2>1 DEF Calls
  <2>3. CallWalks(call)
    BY <2>1, <2>2 DEF CallWalks
  <2> QED
    BY <1>3, <2>3, CallKept
<1>6. Calls'
  BY <1>1, <1>2, <1>4, <1>5 DEF Calls
<1>7. Completed'
  <2>1. ASSUME NEW n \in DOMAIN placed, \A c \in Values(calls') : c.node # n
        PROVE  Complete(n)'
    <3>1. \A c \in Values(calls) : c.node # n
      BY <1>2, <2>1
    <3>2. PICK id : id = placed[n]
      OBVIOUS
    <3> QED
      BY <1>1, <1>3, <2>1, <3>1, <3>2, CompleteKept DEF Completed
  <2> QED
    BY <1>1, <2>1 DEF Completed
<1> QED
  BY <1>1, <1>2, <1>6, <1>7, PlacesKept

-----------------------------------------------------------------------------
(* The walk. *)

(* The innermost call, in the words of its type. *)
LEMMA TopIs ==
  ASSUME Typed, NEW place, At(place)
  PROVE  /\ calls # <<>> /\ pc = "process" /\ Top.at = place /\ Top \in CallIn(Len(nodes))
         /\ Top \in Values(calls)
<1>1. calls # <<>> /\ pc = "process" /\ Top.at = place /\ Top = calls[Len(calls)]
  BY DEF At, Top
<1>2. calls \in Seq(CallIn(Len(nodes)))
  BY DEF Typed
<1> QED
  BY <1>1, <1>2 DEF Values

LEMMA RowsKept ==
  ASSUME Rows, UNCHANGED Script, placed' = placed, ctxTab' = ctxTab, ~Waiting, ~Waiting'
  PROVE  Rows'
<1>1. \A n : RowOf(n)' = RowOf(n)
  BY SameTree DEF RowOf
<1> QED
  BY <1>1 DEF Rows

LEMMA WalkInsertsConf ==
  ASSUME Typed, ConfNumbered, Walking, InsertConf
  PROVE  Walking'
<1>1. /\ At("insert") /\ Top.dirs # <<>> /\ SetTop([Top EXCEPT !.at = "select"])
      /\ UNCHANGED Script /\ placed' = placed /\ mapTab' = mapTab /\ ctxTab' = ctxTab
      /\ confTab \subseteq confTab'
      /\ \A c \in confTab' : c \in confTab \/ c.id = lastConf + 1
  BY DEF InsertConf
<1>2. calls # <<>> /\ Top.at = "insert" /\ Top \in CallIn(Len(nodes))
  BY <1>1, TopIs
<1>3. PICK call : call = [Top EXCEPT !.at = "select"]
  OBVIOUS
<1>4. /\ call \in CallIn(Len(nodes)) /\ call.node = Top.node /\ call.id = Top.id
      /\ call.dirs = Top.dirs /\ call.subs = Top.subs /\ call.at = "select"
  BY <1>1, <1>2, <1>3 DEF CallIn
<1>5. Places' /\ Calls' /\ Completed' /\ Top' = call /\ calls' # <<>>
  BY <1>1, <1>2, <1>3, <1>4, TopStays
<1>6. ~Waiting /\ ~Waiting'
  BY <1>2, <1>4, <1>5 DEF Waiting
<1> QED
  BY <1>1, <1>5, <1>6, RowsKept DEF Walking

LEMMA WalkSelectsConf ==
  ASSUME Typed, ConfNumbered, Walking, SelectConf
  PROVE  Walking'
<1>1. /\ At("select") /\ UNCHANGED Script /\ placed' = placed /\ mapTab' = mapTab
      /\ ctxTab' = ctxTab /\ confTab' = confTab
  BY DEF SelectConf, tables
<1>2. PICK c \in confTab : SetTop([Top EXCEPT !.at = "map", !.conf = c.id])
  BY DEF SelectConf, SameDir
<1>3. calls # <<>> /\ Top.at = "select" /\ Top \in CallIn(Len(nodes)) /\ c.id \in Nat
  BY <1>1, <1>2, TopIs DEF Typed, TypeOK, ConfRow
<1>4. PICK call : call = [Top EXCEPT !.at = "map", !.conf = c.id]
  OBVIOUS
<1>5. /\ call \in CallIn(Len(nodes)) /\ call.node = Top.node /\ call.id = Top.id
      /\ call.dirs = Top.dirs /\ call.subs = Top.subs /\ call.at = "map"
  BY <1>3, <1>4 DEF CallIn
<1>6. Places' /\ Calls' /\ Completed' /\ Top' = call /\ calls' # <<>>
  BY <1>1, <1>2, <1>3, <1>4, <1>5, TopStays
<1>7. ~Waiting /\ ~Waiting'
  BY <1>3, <1>5, <1>6 DEF Waiting
<1> QED
  BY <1>1, <1>6, <1>7, RowsKept DEF Walking

(* A directive is mapped, and is done with. *)
LEMMA WalkInsertsMap ==
  ASSUME Typed, ConfNumbered, Mapped, Walking, InsertMap
  PROVE  Walking'
<1>1. /\ At("map") /\ UNCHANGED Script /\ placed' = placed
      /\ UNCHANGED <<ctxTab, confTab, lastCtx>>
      /\ mapTab' = Append(mapTab, [ctx |-> Top.id, conf |-> Top.conf])
      /\ SetTop([Top EXCEPT !.at = "insert", !.dirs = Tail(@)])
  BY DEF InsertMap
<1>2. PICK t, call, row : /\ t = Top /\ call = [t EXCEPT !.at = "insert", !.dirs = Tail(@)]
                          /\ row = [ctx |-> t.id, conf |-> t.conf]
  OBVIOUS
<1>3. /\ calls # <<>> /\ pc = "process" /\ t.at = "map" /\ t \in CallIn(Len(nodes))
      /\ t \in Values(calls)
  BY <1>1, <1>2, TopIs
<1>4. t.dirs # <<>> /\ t.dirs \in Seq(Dir) /\ Tail(t.dirs) \in Seq(Dir)
  <2>1. t.dirs # <<>> /\ t.dirs \in Seq(Dir)
    BY <1>3 DEF CallIn
  <2> QED
    BY <2>1, HeadTailProperties
<1>5. /\ call \in CallIn(Len(nodes)) /\ call.node = t.node /\ call.id = t.id
      /\ call.dirs = Tail(t.dirs) /\ call.subs = t.subs /\ call.at = "insert"
  BY <1>2, <1>3, <1>4 DEF CallIn
<1>6. Places /\ Calls /\ Completed /\ Rows /\ NodesApart(calls)
  BY DEF Walking, Calls
<1>7. /\ Values(calls) = Outer(calls) \union {t} /\ Values(calls) \subseteq CallIn(Len(nodes))
      /\ calls' # <<>> /\ Top' = call
      /\ Outer(calls') = Outer(calls) /\ Values(calls') = Outer(calls) \union {call}
      /\ NodesApart(calls') /\ \A c \in Outer(calls) : c.node # t.node
  <2>1. SetTop(call) /\ call.node = Top.node
    BY <1>1, <1>2, <1>5
  <2> QED
    BY <1>2, <1>3, <1>5, <1>6, <2>1, TopMoves
<1>8. mapTab' = Append(mapTab, row) /\ row.ctx = t.id /\ confTab' = confTab
  BY <1>1, <1>2
<1>9. CallWalks(t)
  BY <1>3, <1>6 DEF Calls
<1>10. DirsWith(row.conf) = {Head(t.dirs)}
  <2>1. PICK k \in confTab : k.id = t.conf /\ k.dir = Head(t.dirs)
    BY <1>3 DEF Mapped, RightCalls, OwnRow
  <2>2. \A d \in confTab : d.id = t.conf <=> d = k
    BY <2>1 DEF ConfNumbered
  <2> QED
    BY <1>2, <2>1, <2>2 DEF DirsWith
(* The rows of other contexts. *)
<1>11. ASSUME NEW n \in DOMAIN placed, n # t.node, NEW id, id = placed[n]
       PROVE  \A dirs : \A k \in Nat : Gives(id, dirs, k) => Gives(id, dirs, k)'
  <2>1. row.ctx # id
    BY <1>6, <1>8, <1>9, <1>11 DEF Places, CallWalks
  <2> QED
    BY <1>8, <2>1, GivesMore
<1>12. \A c \in Outer(calls) : CallWalks(c)'
  <2> SUFFICES ASSUME NEW c \in Outer(calls) PROVE CallWalks(c)'
    OBVIOUS
  <2>1. CallWalks(c) /\ c \in CallIn(Len(nodes)) /\ c.node # t.node
    BY <1>6, <1>7 DEF Calls
  <2>2. c.node \in DOMAIN placed /\ c.id = placed[c.node]
    BY <2>1 DEF CallWalks
  <2>3. \A dirs : \A k \in Nat : Gives(c.id, dirs, k) => Gives(c.id, dirs, k)'
    BY <1>11, <2>1, <2>2
  <2> QED
    BY <1>1, <2>1, <2>3, CallKept
<1>13. CallWalks(call)'
  <2>1. PICK d, k : d = Dirs(t.node) /\ k = Done(d, t.dirs)
    OBVIOUS
  <2>2. /\ RestOf(d, Tail(t.dirs)) /\ Done(d, Tail(t.dirs)) = k + 1
        /\ Head(t.dirs) = d[k + 1] /\ k \in Nat
    <3>1. d \in Seq(Dir) /\ RestOf(d, t.dirs)
      BY <1>3, <1>9, <2>1, CallLists DEF CallWalks
    <3> QED
      BY <1>4, <2>1, <3>1, RestNext
  <2>3. Gives(t.id, d, k)
    BY <1>9, <2>1 DEF CallWalks
  <2>4. Gives(t.id, d, k + 1)'
    BY <1>8, <1>10, <2>2, <2>3, GivesMore
  <2>5. Dirs(call.node)' = d /\ Done(Dirs(call.node), call.dirs)' = k + 1
    <3>1. Dirs(call.node)' = d
      BY <1>1, <1>5, <2>1, SameTree
    <3> QED
      BY <1>5, <2>2, <3>1 DEF Done
  <2>6. Gives(call.id, Dirs(call.node), Done(Dirs(call.node), call.dirs))'
    BY <1>5, <2>4, <2>5 DEF Gives
  <2>7. RestOf(Dirs(call.node), call.dirs)'
    BY <1>5, <2>2, <2>5 DEF RestOf
  <2>8. Subs(call.node)' = Subs(t.node)
    BY <1>1, <1>5, SameTree
  <2> QED
    BY <1>1, <1>5, <1>9, <2>6, <2>7, <2>8 DEF CallWalks, RestOf, Done
<1>14. Calls'
  BY <1>6, <1>7, <1>12, <1>13 DEF Calls
<1>15. Completed'
  <2>1. ASSUME NEW n \in DOMAIN placed, \A c \in Values(calls') : c.node # n
        PROVE  Complete(n)'
    <3>1. n # t.node
      BY <1>5, <1>7, <2>1
    <3>2. \A c \in Values(calls) : c.node # n
      BY <1>7, <2>1, <3>1
    <3>3. PICK id : id = placed[n]
      OBVIOUS
    <3>4. Complete(n)
      BY <1>6, <3>2 DEF Completed
    <3> QED
      BY <1>1, <1>11, <2>1, <3>1, <3>3, <3>4, CompleteKept
  <2>2. ASSUME NEW k \in 1..Len(mapTab') PROVE \E n \in DOMAIN placed : mapTab'[k].ctx = placed[n]
    <3>1. mapTab \in Seq(UNION {MapRow, {row}}) /\ row \in UNION {MapRow, {row}}
      BY DEF Typed, TypeOK
    <3>2. /\ Len(mapTab') = Len(mapTab) + 1 /\ mapTab'[Len(mapTab')] = row
          /\ \A i \in 1..Len(mapTab) : mapTab'[i] = mapTab[i]
      BY <1>8, <3>1, LastAdded
    <3>3. CASE k = Len(mapTab')
      BY <1>8, <1>9, <3>2, <3>3 DEF CallWalks
    <3>4. CASE k # Len(mapTab')
      <4>1. k \in 1..Len(mapTab)
        BY <3>1, <3>2, <3>4
      <4> QED
        BY <1>6, <3>2, <4>1 DEF Completed
    <3> QED
      BY <3>3, <3>4
  <2> QED
    BY <1>1, <2>1, <2>2 DEF Completed
<1>16. ~Waiting /\ ~Waiting'
  BY <1>2, <1>3, <1>5, <1>7 DEF Waiting
<1> QED
  BY <1>1, <1>6, <1>14, <1>15, <1>16, RowsKept, PlacesKept DEF Walking

(* The row of the next sub-context is inserted. *)
LEMMA WalkInsertsCtx ==
  ASSUME Typed, ConfNumbered, Numbered, Walking, InsertCtx
  PROVE  Walking'
<1>1. /\ At("insert") /\ UNCHANGED Script /\ placed' = placed
      /\ UNCHANGED <<confTab, mapTab>> /\ lastCtx' = lastCtx + 1
      /\ InsertCtxRow(Top.id, nodes[Head(Top.subs)].label)
  BY DEF InsertCtx, InsertCtxRow
<1>2. PICK t, call : t = Top /\ call = [t EXCEPT !.at = "find"] /\ SetTop(call)
  BY DEF InsertCtx
<1>3. /\ calls # <<>> /\ t.at = "insert" /\ t \in CallIn(Len(nodes)) /\ Top.subs # <<>>
  BY <1>1, <1>2, TopIs DEF InsertCtx
<1>4. /\ call \in CallIn(Len(nodes)) /\ call.node = t.node /\ call.id = t.id
      /\ call.dirs = t.dirs /\ call.subs = t.subs /\ call.at = "find"
  BY <1>2, <1>3 DEF CallIn
<1>5. Places' /\ Calls' /\ Completed' /\ Top' = call /\ calls' # <<>>
  <2>1. confTab \subseteq confTab' /\ \A c \in confTab' : c \in confTab
    BY <1>1
  <2> QED
    BY <1>1, <1>2, <1>3, <1>4, <2>1, TopStays
<1>6. PICK row : row = [id |-> lastCtx + 1, parent |-> t.id,
                        label |-> nodes[Head(t.subs)].label]
  OBVIOUS
<1>7. ctxTab' = ctxTab \union {row}
  BY <1>1, <1>2, <1>6 DEF InsertCtxRow
<1>8. ~Waiting /\ Waiting' /\ WaitingRow' = row
  <2>1. ~Waiting /\ Waiting'
    BY <1>2, <1>3, <1>4, <1>5 DEF Waiting
  <2>2. nodes' = nodes
    BY <1>1, SameTree
  <2> QED
    BY <1>1, <1>4, <1>5, <1>6, <2>1, <2>2 DEF WaitingRow
<1>9. \A n : RowOf(n)' = RowOf(n)
  BY <1>1, SameTree DEF RowOf
<1>10. \A n \in DOMAIN placed : placed[n] # lastCtx'
  <2> SUFFICES ASSUME NEW n \in DOMAIN placed PROVE placed[n] # lastCtx'
    OBVIOUS
  <2>1. RowOf(n) \in ctxTab /\ RowOf(n).id = placed[n]
    BY DEF Walking, Rows, RowOf
  <2>2. placed[n] \in 1..lastCtx
    BY <2>1 DEF Numbered
  <2> QED
    BY <1>1, <2>2 DEF Typed, TypeOK
<1>11. Rows'
  BY <1>1, <1>7, <1>8, <1>9, <1>10 DEF Walking, Rows
<1> QED
  BY <1>5, <1>11 DEF Walking

(* Its id is asked for: no other row is alike, and the walk goes down. *)
LEMMA WalkSelectsCtx ==
  ASSUME Typed, Tree, Numbered, ConfNumbered, Apart, Walking, SelectCtx
  PROVE  Walking'
<1>1. At("find") /\ UNCHANGED Script /\ UNCHANGED tables
  BY DEF SelectCtx
<1>2. PICK t, sub : t = Top /\ sub = Head(t.subs)
  OBVIOUS
<1>3. PICK r \in ctxTab :
        /\ r.label = nodes[sub].label /\ r.parent = t.id
        /\ calls' = Append([calls EXCEPT ![Len(calls)].at = "insert",
                                         ![Len(calls)].subs = Tail(@)],
                           NewCall(sub, r.id))
        /\ Place(sub, r.id)
  BY <1>2 DEF SelectCtx, Alike
<1>4. /\ calls # <<>> /\ t.at = "find" /\ t \in CallIn(Len(nodes)) /\ t \in Values(calls)
      /\ calls \in Seq(CallIn(Len(nodes))) /\ t = calls[Len(calls)]
  BY <1>1, <1>2, TopIs DEF Typed, Top
<1>5. PICK call, new : /\ call = [t EXCEPT !.at = "insert", !.subs = Tail(@)]
                       /\ new = NewCall(sub, r.id)
  OBVIOUS
<1>6. t.subs # <<>> /\ t.subs \in Seq(1..Len(nodes)) /\ Tail(t.subs) \in Seq(1..Len(nodes))
  <2>1. t.subs # <<>> /\ t.subs \in Seq(1..Len(nodes))
    BY <1>4 DEF CallIn
  <2> QED
    BY <2>1, HeadTailProperties
<1>7. /\ call \in CallIn(Len(nodes)) /\ call.node = t.node /\ call.id = t.id
      /\ call.dirs = t.dirs /\ call.subs = Tail(t.subs) /\ call.at = "insert"
  BY <1>4, <1>5, <1>6 DEF CallIn
<1>8. sub \in DOMAIN nodes /\ r.id \in Nat
  <2>1. sub \in 1..Len(nodes)
    BY <1>2, <1>6
  <2> QED
    BY <1>3, <2>1 DEF Typed, TypeOK, CtxRow
<1>9. /\ new.node = sub /\ new.id = r.id /\ new.dirs = Dirs(sub) /\ new.subs = Subs(sub)
      /\ new.at = "insert" /\ new \in CallIn(Len(nodes))
  <2>1. /\ new.node = sub /\ new.id = r.id /\ new.dirs = Dirs(sub) /\ new.subs = Subs(sub)
        /\ new.at = "insert"
    BY <1>5 DEF NewCall, Dirs, Subs
  <2>2. Dirs(sub) \in Seq(Dir) /\ Subs(sub) \in Seq(1..Len(nodes)) /\ sub \in 1..Len(nodes)
    BY <1>8, NodeLists
  <2>3. new = [node |-> sub, id |-> r.id, dirs |-> Dirs(sub), subs |-> Subs(sub),
               at |-> "insert", conf |-> 0]
    BY <1>5 DEF NewCall, Null, Dirs, Subs
  <2> QED
    BY <1>8, <2>1, <2>2, <2>3 DEF CallIn
<1>10. Places /\ Rows /\ Calls /\ Completed /\ NodesApart(calls)
  BY DEF Walking, Calls
<1>11. CallWalks(t) /\ t.node \in DOMAIN nodes /\ t.node \in DOMAIN placed /\ t.id = placed[t.node]
  BY <1>4, <1>10, CallLists DEF Calls, CallWalks
<1>12. PICK list, k : list = Subs(t.node) /\ k = Done(list, t.subs)
  OBVIOUS
<1>13. /\ list \in Seq(1..Len(nodes)) /\ RestOf(list, Tail(t.subs))
       /\ Done(list, Tail(t.subs)) = k + 1 /\ sub = list[k + 1]
       /\ k \in Nat /\ k + 1 \in 1..Len(list)
  <2>1. list \in Seq(1..Len(nodes)) /\ RestOf(list, t.subs)
    BY <1>4, <1>11, <1>12, CallLists DEF CallWalks
  <2> QED
    BY <1>2, <1>6, <1>12, <2>1, RestNext
<1>14. \A i \in 1..Len(list) : list[i] \in DOMAIN placed <=> i <= k
  BY <1>11, <1>12 DEF CallWalks
<1>15. sub \notin DOMAIN placed
  BY <1>13, <1>14
<1>16. Up(sub) = t.node
  BY <1>11, <1>12, <1>13, UpIs
(* The row is the one that was just inserted. *)
<1>17. r = WaitingRow /\ \A n \in DOMAIN placed : placed[n] # r.id
  <2>1. Waiting
    BY <1>2, <1>4 DEF Waiting
  <2>2. ASSUME NEW n \in DOMAIN placed, r = RowOf(n) PROVE FALSE
    <3>1. r.parent = placed[t.node]
      BY <1>3, <1>11
    <3>2. placed[t.node] # Null
      <4>1. RowOf(t.node) \in ctxTab /\ RowOf(t.node).id = placed[t.node]
        BY <1>10, <1>11 DEF Rows, RowOf
      <4> QED
        BY <4>1 DEF Numbered, Null, Typed, TypeOK
    <3>3. n # Current /\ placed[Up(n)] = placed[t.node] /\ nodes[n].label = nodes[sub].label
      BY <1>3, <2>2, <3>1, <3>2 DEF RowOf
    <3>4. PICK p \in DOMAIN placed : \E i \in 1..Len(Subs(p)) : Subs(p)[i] = n
      BY <1>10, <3>3 DEF Places
    <3>5. PICK i \in 1..Len(Subs(p)) : Subs(p)[i] = n
      BY <3>4
    <3>6. p \in DOMAIN nodes /\ Up(n) = p
      BY <3>5, PlacedId, UpIs
    <3>7. p = t.node
      BY <1>10, <1>11, <3>3, <3>6 DEF Places
    <3>8. i \in DOMAIN nodes[p].subs /\ k + 1 \in DOMAIN nodes[p].subs
      BY <1>12, <1>13, <3>5, <3>7 DEF Subs
    <3>9. i = k + 1
      BY <1>12, <1>13, <3>3, <3>5, <3>6, <3>7, <3>8 DEF Apart, Subs
    <3> QED
      BY <1>12, <1>13, <1>15, <3>5, <3>7, <3>9
  <2>3. r = WaitingRow
    BY <1>10, <2>2 DEF Rows
  <2> QED
    BY <1>10, <2>1, <2>3 DEF Rows, WaitingRow
<1>18. /\ DOMAIN placed' = DOMAIN placed \union {sub} /\ placed'[sub] = r.id
       /\ \A n \in DOMAIN placed : placed'[n] = placed[n]
  BY <1>3, <1>15 DEF Place
<1>19. /\ Current' = Current /\ nodes' = nodes
       /\ \A p : Subs(p)' = Subs(p) /\ Dirs(p)' = Dirs(p) /\ Up(p)' = Up(p)
  BY <1>1, SameTree
<1>20. sub > t.node /\ sub > Current /\ sub # Current
  <2>1. sub > t.node /\ t.node >= Current
    BY <1>10, <1>11, <1>12, <1>13 DEF Places, Tree, Listed
  <2>2. sub \in Nat /\ t.node \in Nat /\ Current \in Nat
    BY <1>4, <1>8, <1>11 DEF Typed, TypeOK, Current
  <2> QED
    BY <2>1, <2>2
<1>21. Places'
  <2>1. ASSUME NEW n \in DOMAIN placed', n # Current
        PROVE  \E p \in DOMAIN placed' : \E i \in 1..Len(Subs(p)) : Subs(p)[i] = n
    <3>1. CASE n = sub
      BY <1>11, <1>12, <1>13, <1>18, <3>1
    <3>2. CASE n \in DOMAIN placed
      BY <1>10, <1>18, <2>1, <3>2 DEF Places
    <3> QED
      BY <1>18, <3>1, <3>2
  <2>2. ASSUME NEW m \in DOMAIN placed', NEW n \in DOMAIN placed', placed'[m] = placed'[n]
        PROVE  m = n
    <3>1. CASE m = sub \/ n = sub
      BY <1>17, <1>18, <2>2, <3>1
    <3>2. CASE m \in DOMAIN placed /\ n \in DOMAIN placed
      BY <1>10, <1>18, <2>2, <3>2 DEF Places
    <3> QED
      BY <1>18, <3>1, <3>2
  <2>3. \A n \in DOMAIN placed' : n >= Current
    <3>1. sub >= Current
      BY <1>8, <1>20 DEF Typed, TypeOK, Current
    <3> QED
      BY <1>10, <1>18, <3>1 DEF Places
  <2> QED
    BY <1>10, <1>18, <1>19, <2>1, <2>2, <2>3 DEF Places
(* The rows of the contexts that were placed, and of this one. *)
<1>22. \A n \in DOMAIN placed : RowOf(n)' = RowOf(n)
  <2> SUFFICES ASSUME NEW n \in DOMAIN placed PROVE RowOf(n)' = RowOf(n)
    OBVIOUS
  <2>1. CASE n = Current
    BY <1>18, <1>19, <2>1 DEF RowOf
  <2>2. CASE n # Current
    <3>1. PICK p \in DOMAIN placed : \E i \in 1..Len(Subs(p)) : Subs(p)[i] = n
      BY <1>10, <2>2 DEF Places
    <3>2. Up(n) = p
      BY <3>1, PlacedId, UpIs
    <3>3. placed'[Up(n)] = placed[Up(n)]
      BY <1>18, <3>2
    <3> QED
      BY <1>18, <1>19, <3>3 DEF RowOf
  <2> QED
    BY <2>1, <2>2
<1>23. RowOf(sub)' = r
  <2>1. placed'[t.node] = t.id
    BY <1>11, <1>18
  <2>2. RowOf(sub)' = [id |-> r.id, parent |-> t.id, label |-> nodes[sub].label]
    BY <1>16, <1>18, <1>19, <1>20, <2>1 DEF RowOf
  <2>3. r = [id |-> r.id, parent |-> t.id, label |-> nodes[sub].label]
    BY <1>2, <1>17 DEF WaitingRow
  <2> QED
    BY <2>2, <2>3
<1>24. /\ Values(calls) = Outer(calls) \union {t} /\ Values(calls) \subseteq CallIn(Len(nodes))
       /\ calls' # <<>> /\ Top' = new
       /\ Outer(calls') = Outer(calls) \union {call}
       /\ Values(calls') = Outer(calls) \union {call, new}
       /\ NodesApart(calls') /\ \A c \in Outer(calls) : c.node # t.node
  <2>1. PICK S, s, u : S = CallIn(Len(nodes)) /\ s = calls /\ u = calls'
    OBVIOUS
  <2>2. u = Append([s EXCEPT ![Len(s)] = call], new)
    <3>1. [calls EXCEPT ![Len(calls)].at = "insert", ![Len(calls)].subs = Tail(@)]
            = [calls EXCEPT ![Len(calls)] = call]
      BY <1>4, <1>5
    <3> QED
      BY <1>3, <1>5, <2>1, <3>1
  <2>3. s \in Seq(S) /\ s # <<>> /\ call \in S /\ new \in S /\ t = s[Len(s)]
    BY <1>4, <1>7, <1>9, <2>1
  <2>4. /\ u \in Seq(S) /\ Len(u) = Len(s) + 1 /\ u[Len(s)] = call /\ u[Len(s) + 1] = new
        /\ \A i \in 1..(Len(s) - 1) : u[i] = s[i]
    BY <2>2, <2>3, LastReplacedAndAdded
  <2>5. /\ u # <<>> /\ u[Len(u)] = new
        /\ Outer(u) = Outer(s) \union {call} /\ Values(u) = Outer(s) \union {call, new}
    BY <2>3, <2>4, StackCalls
  <2>6. Values(s) = Outer(s) \union {t} /\ Values(s) \subseteq S
    <3>1. Values(s) = Outer(s) \union {s[Len(s)]}
      BY <2>3, StackMoves
    <3> QED
      BY <2>3, <3>1, ValuesOf
  <2>7. \A c \in Values(s) : new.node # c.node
    BY <1>9, <1>10, <1>15, <2>1 DEF Calls, CallWalks
  <2>8. NodesApart(u) /\ \A c \in Outer(s) : c.node # t.node
    BY <1>7, <1>10, <2>1, <2>2, <2>3, <2>7, NodesStayApart
  <2>9. Top' = u[Len(u)]
    BY <2>1 DEF Top
  <2> QED
    BY <2>1, <2>5, <2>6, <2>8, <2>9
<1>25. Rows'
  <2>1. ~Waiting'
    BY <1>9, <1>24 DEF Waiting
  <2>2. ctxTab' = ctxTab
    BY <1>1 DEF tables
  <2>3. \A n \in DOMAIN placed' : RowOf(n)' \in ctxTab
    BY <1>10, <1>18, <1>22, <1>23 DEF Rows
  <2>4. \A s \in ctxTab : \E n \in DOMAIN placed' : s = RowOf(n)'
    BY <1>10, <1>17, <1>18, <1>22, <1>23 DEF Rows
  <2> QED
    BY <2>1, <2>2, <2>3, <2>4 DEF Rows
(* The mapping table is as it was. *)
<1>26. \A id, dirs : \A j \in Nat : Gives(id, dirs, j) => Gives(id, dirs, j)'
  <2>1. /\ mapTab' = mapTab /\ confTab \subseteq confTab'
        /\ \A c \in confTab' : c \in confTab \/ c.id = lastConf + 1
    BY <1>1 DEF tables
  <2> QED
    BY <2>1, GivesKept
<1>27. ASSUME NEW c \in CallIn(Len(nodes)), CallWalks(c),
              \A i \in 1..Len(Subs(c.node)) : Subs(c.node)[i] # sub
       PROVE  CallWalks(c)'
  <2>1. PICK d, j : d = Dirs(c.node) /\ j = Done(d, c.dirs)
    OBVIOUS
  <2>2. j \in Nat /\ Gives(c.id, d, j)
    BY <1>27, <2>1, CallLists, DoneIsNat DEF CallWalks
  <2>3. Gives(c.id, d, j)'
    BY <1>26, <2>2
  <2>4. Dirs(c.node)' = d /\ Done(Dirs(c.node), c.dirs)' = j
    BY <1>19, <2>1 DEF Done
  <2>5. Gives(c.id, Dirs(c.node), Done(Dirs(c.node), c.dirs))'
    BY <2>3, <2>4, GivesThen
  <2> QED
    BY <1>18, <1>19, <1>27, <2>5 DEF CallWalks, RestOf, Done
<1>28. \A c \in Outer(calls) : CallWalks(c)'
  <2> SUFFICES ASSUME NEW c \in Outer(calls) PROVE CallWalks(c)'
    OBVIOUS
  <2>1. CallWalks(c) /\ c \in CallIn(Len(nodes)) /\ c.node # t.node
    BY <1>10, <1>24 DEF Calls
  <2>2. \A i \in 1..Len(Subs(c.node)) : Subs(c.node)[i] # sub
    BY <1>16, <2>1, CallLists, UpIs
  <2> QED
    BY <1>27, <2>1, <2>2
<1>29. CallWalks(call)'
  <2>1. PICK d, j : d = Dirs(t.node) /\ j = Done(d, t.dirs)
    OBVIOUS
  <2>2. j \in Nat /\ Gives(t.id, d, j) /\ RestOf(d, t.dirs)
    BY <1>4, <1>11, <2>1, CallLists, DoneIsNat DEF CallWalks
  <2>3. Gives(call.id, d, j)'
    BY <1>7, <1>26, <2>2
  <2>4. Dirs(call.node)' = d /\ Done(Dirs(call.node), call.dirs)' = j
    BY <1>7, <1>19, <2>1 DEF Done
  <2>5. Gives(call.id, Dirs(call.node), Done(Dirs(call.node), call.dirs))'
    BY <2>3, <2>4, GivesThen
  <2>6. /\ Subs(call.node)' = list /\ RestOf(Subs(call.node), call.subs)'
        /\ Done(Subs(call.node), call.subs)' = k + 1
    BY <1>7, <1>12, <1>13, <1>19 DEF RestOf, Done
  <2>7. RestOf(Dirs(call.node), call.dirs)'
    BY <1>7, <2>2, <2>4 DEF RestOf
  <2>8. ASSUME NEW i \in 1..Len(list) PROVE list[i] \in DOMAIN placed' <=> i <= k + 1
    <3>1. list[i] = sub <=> i = k + 1
      BY <1>11, <1>12, <1>13 DEF Tree, Listed
    <3>2. i <= k + 1 <=> i <= k \/ i = k + 1
      BY <1>13
    <3> QED
      BY <1>14, <1>18, <3>1, <3>2
  <2>9. call.node \in DOMAIN placed' /\ call.id = placed'[call.node]
    BY <1>7, <1>11, <1>18
  <2> QED
    BY <2>5, <2>6, <2>7, <2>8, <2>9 DEF CallWalks
<1>30. CallWalks(new)'
  <2>1. Dirs(sub) \in Seq(Dir) /\ Subs(sub) \in Seq(1..Len(nodes))
    BY <1>8, NodeLists
  <2>2. PICK d, subs : d = Dirs(sub) /\ subs = Subs(sub)
    OBVIOUS
  <2>3. RestOf(d, d) /\ Done(d, d) = 0 /\ RestOf(subs, subs) /\ Done(subs, subs) = 0
    BY <2>1, <2>2, RestAll
  <2>4. Gives(r.id, d, 0)'
    <3>1. Gives(r.id, d, 0)
      <4>1. \A m \in DOMAIN mapTab : mapTab[m].ctx # r.id
        <5>1. DOMAIN mapTab = 1..Len(mapTab)
          BY DEF Typed, TypeOK
        <5> QED
          BY <1>10, <1>17, <5>1 DEF Completed
      <4> QED
        BY <4>1, GivesNone
    <3> QED
      BY <1>26, <3>1
  <2>5. /\ Dirs(new.node)' = d /\ Subs(new.node)' = subs
        /\ Done(Dirs(new.node), new.dirs)' = 0 /\ Done(Subs(new.node), new.subs)' = 0
    BY <1>9, <1>19, <2>2, <2>3 DEF Done
  <2>6. Gives(new.id, Dirs(new.node), Done(Dirs(new.node), new.dirs))'
    BY <1>9, <2>4, <2>5 DEF Gives
  <2>7. RestOf(Dirs(new.node), new.dirs)' /\ RestOf(Subs(new.node), new.subs)'
    BY <1>9, <2>2, <2>3, <2>5 DEF RestOf
  <2>8. ASSUME NEW i \in 1..Len(subs), subs[i] \in DOMAIN placed' PROVE FALSE
    <3>1. subs[i] > sub /\ Up(subs[i]) = sub /\ subs[i] \in DOMAIN nodes
      BY <1>8, <2>2, UpIs, NodeLists DEF Tree, Listed
    <3>2. subs[i] # sub /\ subs[i] # Current
      <4>1. DOMAIN nodes \subseteq Nat /\ Current \in DOMAIN nodes
        BY CurrentIsNode
      <4>2. subs[i] \in Nat /\ sub \in Nat /\ Current \in Nat
        BY <1>8, <3>1, <4>1
      <4> QED
        BY <1>20, <3>1, <4>2
    <3>3. subs[i] \in DOMAIN placed
      BY <1>18, <2>8, <3>2
    <3>4. PICK p \in DOMAIN placed : \E j \in 1..Len(Subs(p)) : Subs(p)[j] = subs[i]
      BY <1>10, <3>2, <3>3 DEF Places
    <3>5. p = sub
      BY <3>1, <3>4, PlacedId, UpIs
    <3> QED
      BY <1>15, <3>5
  <2>9. \A i \in 1..Len(subs) : ~(i <= 0)
    OBVIOUS
  <2>10. new.node \in DOMAIN placed' /\ new.id = placed'[new.node]
    BY <1>9, <1>18
  <2> QED
    BY <2>5, <2>6, <2>7, <2>8, <2>9, <2>10 DEF CallWalks
<1>31. Calls'
  <2>1. \A c \in Outer(calls') : c.at # "find"
    BY <1>7, <1>10, <1>24 DEF Calls
  <2> QED
    BY <1>24, <1>28, <1>29, <1>30, <2>1 DEF Calls
<1>32. Completed'
  <2>1. ASSUME NEW n \in DOMAIN placed', \A c \in Values(calls') : c.node # n
        PROVE  Complete(n)'
    <3>1. n # sub /\ n # t.node
      BY <1>7, <1>9, <1>24, <2>1
    <3>2. n \in DOMAIN placed /\ placed'[n] = placed[n] /\ DOMAIN placed \subseteq DOMAIN placed'
      BY <1>18, <3>1
    <3>3. Complete(n)
      <4>1. \A c \in Values(calls) : c.node # n
        BY <1>24, <2>1, <3>1
      <4> QED
        BY <1>10, <3>2, <4>1 DEF Completed
    <3>4. PICK id : id = placed[n]
      OBVIOUS
    <3> QED
      BY <1>1, <1>26, <3>2, <3>3, <3>4, CompleteKept
  <2>2. mapTab' = mapTab
    BY <1>1 DEF tables
  <2>3. \A m \in 1..Len(mapTab) : \E n \in DOMAIN placed' : mapTab[m].ctx = placed'[n]
    BY <1>10, <1>18 DEF Completed
  <2> QED
    BY <2>1, <2>2, <2>3 DEF Completed
<1> QED
  BY <1>21, <1>25, <1>31, <1>32 DEF Walking

(* A context is done with, and so are those it contains. *)
LEMMA WalkReturns ==
  ASSUME Typed, ConfNumbered, Walking, Return
  PROVE  Walking'
<1>1. /\ At("insert") /\ UNCHANGED Script /\ UNCHANGED tables /\ placed' = placed
      /\ Top.dirs = <<>> /\ Top.subs = <<>>
      /\ calls' = SubSeq(calls, 1, Len(calls) - 1)
  BY DEF Return
<1>2. PICK t : t = Top
  OBVIOUS
<1>3. /\ calls # <<>> /\ t.at = "insert" /\ t \in CallIn(Len(nodes)) /\ t \in Values(calls)
      /\ calls \in Seq(CallIn(Len(nodes))) /\ t = calls[Len(calls)]
  BY <1>1, <1>2, TopIs DEF Typed, Top
<1>4. Places /\ Rows /\ Calls /\ Completed /\ NodesApart(calls)
  BY DEF Walking, Calls
<1>5. CallWalks(t)
  BY <1>3, <1>4 DEF Calls
<1>6. /\ Values(calls) = Outer(calls) \union {t} /\ Values(calls) \subseteq CallIn(Len(nodes))
      /\ Values(calls') = Outer(calls) /\ Outer(calls') \subseteq Outer(calls)
      /\ calls' # <<>> => Top' \in Outer(calls)
      /\ NodesApart(calls')
  <2>1. PICK S, s, u : S = CallIn(Len(nodes)) /\ s = calls /\ u = calls'
    OBVIOUS
  <2>2. s \in Seq(S) /\ s # <<>> /\ t \in S /\ t = s[Len(s)]
    BY <1>1, <1>3, <2>1
  <2>3. u = SubSeq(s, 1, Len(s) - 1)
    BY <1>1, <2>1
  <2>4. u \in Seq(S) /\ Len(u) = Len(s) - 1 /\ \A i \in 1..(Len(s) - 1) : u[i] = s[i]
    BY <2>2, <2>3, LastDropped
  <2>5. /\ Values(s) = Outer(s) \union {t} /\ Values(u) = Outer(s)
        /\ Outer(u) \subseteq Outer(s)
        /\ u # <<>> => u[Len(u)] \in Outer(s)
    BY <2>2, <2>4, StackReturns
  <2>6. NodesApart(u)
    BY <1>4, <2>1, <2>2, <2>3, NodesStayApart
  <2>7. Values(s) \subseteq S
    BY <2>2, ValuesOf
  <2>8. Top' = u[Len(u)]
    BY <2>1 DEF Top
  <2> QED
    BY <2>1, <2>5, <2>6, <2>7, <2>8
<1>7. \A id, dirs : \A j \in Nat : Gives(id, dirs, j) => Gives(id, dirs, j)'
  <2>1. /\ mapTab' = mapTab /\ confTab \subseteq confTab'
        /\ \A c \in confTab' : c \in confTab \/ c.id = lastConf + 1
    BY <1>1 DEF tables
  <2> QED
    BY <2>1, GivesKept
<1>8. Calls'
  <2>1. \A c \in Outer(calls) : CallWalks(c)'
    BY <1>1, <1>4, <1>6, <1>7, CallKept DEF Calls
  <2> QED
    BY <1>4, <1>6, <2>1 DEF Calls
<1>9. Rows'
  <2>1. ~Waiting
    BY <1>2, <1>3 DEF Waiting
  <2>2. ~Waiting'
    BY <1>4, <1>6 DEF Waiting, Calls
  <2> QED
    BY <1>1, <1>4, <2>1, <2>2, RowsKept DEF tables
<1>10. Complete(t.node)
  <2>1. Dirs(t.node) \in Seq(Dir) /\ Subs(t.node) \in Seq(1..Len(nodes))
    BY <1>3, CallLists
  <2>2. Done(Dirs(t.node), t.dirs) = Len(Dirs(t.node)) /\ Done(Subs(t.node), t.subs) = Len(Subs(t.node))
    BY <1>1, <1>2, <1>5, <2>1, RestAll DEF CallWalks
  <2>3. HasDirs(placed[t.node], Dirs(t.node))
    BY <1>5, <2>2 DEF CallWalks, HasDirs
  <2>4. \A i \in 1..Len(Subs(t.node)) : Subs(t.node)[i] \in DOMAIN placed
    BY <1>5, <2>1, <2>2 DEF CallWalks
  <2> QED
    BY <2>3, <2>4 DEF Complete
<1>11. Completed'
  <2>1. ASSUME NEW n \in DOMAIN placed, \A c \in Values(calls') : c.node # n
        PROVE  Complete(n)'
    <3>1. Complete(n)
      BY <1>4, <1>6, <1>10, <2>1 DEF Completed
    <3>2. PICK id : id = placed[n]
      OBVIOUS
    <3> QED
      BY <1>1, <1>7, <3>1, <3>2, CompleteKept
  <2> QED
    BY <1>1, <1>4, <2>1 DEF Completed, tables
<1> QED
  BY <1>1, <1>4, <1>8, <1>9, <1>11, PlacesKept DEF Walking

(* The walk begins: the only row there is becomes that of the section it     *)
(* begins in.                                                                *)
LEMMA WalkBegins ==
  ASSUME Typed, ConfNumbered, Tree, Cleared, placed = <<>>, SelectRoot
  PROVE  Walking'
<1>1. /\ pc = "findroot" /\ UNCHANGED Script /\ UNCHANGED tables /\ mapTab = <<>>
  BY DEF SelectRoot, Cleared
<1>2. PICK r \in ctxTab : /\ calls' = <<NewCall(Current, r.id)>> /\ Place(Current, r.id)
  BY DEF SelectRoot
<1>3. ctxTab = {r} /\ r.parent = Null /\ r.label = Default /\ r \in CtxRow
  BY <1>1, <1>2 DEF Cleared, Typed, TypeOK
<1>4. PICK cur : cur = Current /\ cur \in DOMAIN nodes
  BY DEF Typed, TypeOK, Current
<1>5. PICK new : new = NewCall(cur, r.id)
  OBVIOUS
<1>6. /\ new.node = cur /\ new.id = r.id /\ new.dirs = Dirs(cur) /\ new.subs = Subs(cur)
      /\ new.at = "insert"
  BY <1>5 DEF NewCall, Dirs, Subs
<1>7. calls' = <<new>> /\ Values(calls') = {new} /\ Outer(calls') = {} /\ Top' = new
  <2>1. calls' = <<new>>
    BY <1>2, <1>4, <1>5
  <2> QED
    BY <2>1 DEF Values, Outer, Top
<1>8. /\ Current' = cur /\ nodes' = nodes
      /\ \A p : Subs(p)' = Subs(p) /\ Dirs(p)' = Dirs(p) /\ Up(p)' = Up(p)
  BY <1>1, <1>4, SameTree
<1>9. DOMAIN placed' = {cur} /\ placed'[cur] = r.id
  BY <1>2, <1>4 DEF Place
<1>10. Places'
  <2>1. cur >= cur
    BY <1>4 DEF Typed, TypeOK
  <2> QED
    BY <1>8, <1>9, <2>1 DEF Places
<1>11. Rows'
  <2>1. ~Waiting'
    BY <1>6, <1>7 DEF Waiting
  <2>2. RowOf(cur)' = r
    <3>1. RowOf(cur)' = [id |-> r.id, parent |-> Null, label |-> Default]
      BY <1>8, <1>9 DEF RowOf
    <3> QED
      BY <1>3, <3>1 DEF CtxRow
  <2>3. ctxTab' = {r}
    BY <1>1, <1>3 DEF tables
  <2> QED
    BY <1>9, <2>1, <2>2, <2>3 DEF Rows
<1>12. CallWalks(new)'
  <2>1. Dirs(cur) \in Seq(Dir) /\ Subs(cur) \in Seq(1..Len(nodes))
    BY <1>4, NodeLists
  <2>2. PICK d, subs : d = Dirs(cur) /\ subs = Subs(cur)
    OBVIOUS
  <2>3. RestOf(d, d) /\ Done(d, d) = 0 /\ RestOf(subs, subs) /\ Done(subs, subs) = 0
    BY <2>1, <2>2, RestAll
  <2>4. Gives(new.id, d, 0)'
    <3>1. Gives(new.id, d, 0)
      <4>1. \A m \in DOMAIN mapTab : mapTab[m].ctx # new.id
        BY <1>1
      <4> QED
        BY <4>1, GivesNone
    <3> QED
      <4>1. /\ mapTab' = mapTab /\ confTab \subseteq confTab'
            /\ \A c \in confTab' : c \in confTab \/ c.id = lastConf + 1
        BY <1>1 DEF tables
      <4> QED
        BY <3>1, <4>1, GivesKept
  <2>5. /\ Dirs(new.node)' = d /\ Subs(new.node)' = subs
        /\ Done(Dirs(new.node), new.dirs)' = 0 /\ Done(Subs(new.node), new.subs)' = 0
    BY <1>6, <1>8, <2>2, <2>3 DEF Done
  <2>6. Gives(new.id, Dirs(new.node), Done(Dirs(new.node), new.dirs))'
    BY <2>4, <2>5, GivesThen
  <2>7. RestOf(Dirs(new.node), new.dirs)' /\ RestOf(Subs(new.node), new.subs)'
    BY <1>6, <2>2, <2>3, <2>5 DEF RestOf
  <2>8. \A i \in 1..Len(subs) : subs[i] # cur /\ ~(i <= 0)
    <3> SUFFICES ASSUME NEW i \in 1..Len(subs) PROVE subs[i] # cur /\ ~(i <= 0)
      OBVIOUS
    <3>1. subs[i] > cur /\ subs[i] \in Nat /\ cur \in Nat
      BY <1>4, <2>1, <2>2 DEF Tree, Listed, Typed, TypeOK
    <3> QED
      BY <3>1
  <2>9. new.node \in DOMAIN placed' /\ new.id = placed'[new.node]
    BY <1>6, <1>9
  <2> QED
    BY <1>9, <2>5, <2>6, <2>7, <2>8, <2>9 DEF CallWalks
<1>13. Calls'
  <2>1. NodesApart(calls')
    BY <1>7 DEF NodesApart
  <2> QED
    BY <1>7, <1>12, <2>1 DEF Calls
<1>14. Completed'
  <2>1. \A n \in DOMAIN placed' : \E c \in Values(calls') : c.node = n
    BY <1>6, <1>7, <1>9
  <2>2. mapTab' = <<>>
    BY <1>1 DEF tables
  <2> QED
    BY <2>1, <2>2 DEF Completed
<1> QED
  BY <1>10, <1>11, <1>13, <1>14 DEF Walking

LEMMA WalkNext ==
  Typed /\ Trees /\ Mapped /\ Tree /\ ConfNumbered /\ Walk /\ [Next]_vars => Walk'
<1> SUFFICES ASSUME Typed, Trees, Mapped, Tree, ConfNumbered, Walk, [Next]_vars PROVE Walk'
  OBVIOUS
<1>1. CASE Parse
  <2>1. placed' = placed /\ placed = <<>>
    BY <1>1 DEF Parse, OpenLine, CloseLine, BadClose, DirLine, EndOfFile, Typed
  <2>2. addConf' = addConf /\ (pc' \in {"parse", "dead", "delctx"} \/ (addConf /\ pc' = "root"))
    BY <1>1 DEF Parse, OpenLine, CloseLine, BadClose, DirLine, EndOfFile, Wipes, options
  <2> QED
    BY <2>1, <2>2 DEF Walk, Cleared
<1>2. CASE DeleteCtxs \/ DeleteConfs \/ DeleteMaps
  BY <1>2 DEF DeleteCtxs, DeleteConfs, DeleteMaps, Walk, Cleared, Script, options
<1>3. CASE InsertRoot
  <2> DEFINE row == [id |-> lastCtx + 1, parent |-> Null, label |-> Default]
  <2>1. /\ pc = "root" /\ pc' = "findroot" /\ placed' = placed /\ addConf' = addConf
        /\ ctxTab' = ctxTab \union {row} /\ mapTab' = mapTab
    BY <1>3 DEF InsertRoot, InsertCtxRow, Script, options
  <2>2. row.parent = Null /\ row.label = Default
    OBVIOUS
  <2> HIDE DEF row
  <2> QED
    BY <2>1, <2>2 DEF Walk, Cleared
<1>4. CASE SelectRoot
  <2>1. pc = "findroot" /\ pc' = "process" /\ placed = <<>> /\ addConf' = addConf
    BY <1>4, SameTree DEF SelectRoot, Walk
  <2>2. ~addConf => Walking'
    BY <1>4, <2>1, WalkBegins DEF Walk
  <2> QED
    BY <2>1, <2>2 DEF Walk, Cleared
<1>5. CASE InsertConf \/ SelectConf \/ InsertMap \/ InsertCtx \/ SelectCtx \/ Return
  <2>1. /\ pc = "process" /\ pc' = "process" /\ UNCHANGED Script
    BY <1>5 DEF InsertConf, SelectConf, InsertMap, InsertCtx, SelectCtx, Return, At
  <2>2. addConf' = addConf /\ (Apart' <=> Apart)
    BY <2>1, SameTree
  <2>3. ASSUME ~addConf, Apart PROVE Walking'
    <3>1. Walking /\ Numbered
      BY <2>1, <2>3 DEF Walk, Trees
    <3> QED
      BY <1>5, <2>3, <3>1, WalkInsertsConf, WalkSelectsConf, WalkInsertsMap, WalkInsertsCtx,
         WalkSelectsCtx, WalkReturns
  <2> QED
    BY <2>1, <2>2, <2>3 DEF Walk, Cleared
<1>6. ASSUME UNCHANGED <<Script, calls, placed>>, UNCHANGED tables, Walking PROVE Walking'
  <2>1. /\ Current' = Current /\ nodes' = nodes
        /\ \A p : Subs(p)' = Subs(p) /\ Dirs(p)' = Dirs(p) /\ Up(p)' = Up(p)
    BY <1>6, SameTree
  <2>2. UNCHANGED <<ctxTab, confTab, mapTab, lastCtx, calls, placed>>
    BY <1>6 DEF tables
  <2>3. Places' /\ Rows'
    <3>1. \A n : RowOf(n)' = RowOf(n)
      BY <2>1, <2>2 DEF RowOf
    <3>2. (Waiting' <=> Waiting) /\ WaitingRow' = WaitingRow
      BY <2>1, <2>2 DEF Waiting, WaitingRow, Top
    <3> QED
      BY <1>6, <2>1, <2>2, <3>1, <3>2 DEF Walking, Places, Rows
  <2>4. \A id, dirs : \A k \in Nat : Gives(id, dirs, k) => Gives(id, dirs, k)'
    BY <2>2, GivesKept
  <2>5. Calls'
    <3>1. Values(calls) \subseteq CallIn(Len(nodes))
      BY ValuesOf DEF Typed
    <3>2. \A c \in Values(calls) : CallWalks(c)'
      BY <1>6, <2>4, <3>1, CallKept DEF Walking, Calls
    <3> QED
      BY <1>6, <2>2, <3>2 DEF Walking, Calls
  <2>6. Completed'
    <3>1. ASSUME NEW n \in DOMAIN placed, \A c \in Values(calls) : c.node # n
          PROVE  Complete(n)'
      <4>1. Complete(n)
        BY <1>6, <3>1 DEF Walking, Completed
      <4>2. PICK id : id = placed[n]
        OBVIOUS
      <4> QED
        BY <1>6, <2>4, <4>1, <4>2, CompleteKept
    <3> QED
      BY <1>6, <2>2, <3>1 DEF Walking, Completed
  <2> QED
    BY <2>3, <2>5, <2>6 DEF Walking
<1>7. CASE Exit
  <2>1. /\ pc = "process" /\ pc' = "done" /\ calls' = <<>>
        /\ UNCHANGED <<Script, calls, placed>> /\ UNCHANGED tables
    BY <1>7 DEF Exit
  <2>2. addConf' = addConf /\ (Apart' <=> Apart)
    BY <2>1, SameTree
  <2> QED
    BY <1>6, <2>1, <2>2 DEF Walk, Cleared
<1>8. CASE Die \/ Rerun
  BY <1>8 DEF Die, Rerun, Started, Walk, Cleared
<1>9. CASE UNCHANGED vars
  <2>1. UNCHANGED <<Script, calls, placed, pc>> /\ UNCHANGED tables
    BY <1>9 DEF vars, Script, options, tree, tables
  <2>2. addConf' = addConf /\ (Apart' <=> Apart)
    BY <2>1, SameTree
  <2>3. Cleared => Cleared'
    BY <2>1 DEF Cleared, tables
  <2> QED
    BY <1>6, <2>1, <2>2, <2>3 DEF Walk
<1> QED
  BY <1>1, <1>2, <1>3, <1>4, <1>5, <1>7, <1>8, <1>9 DEF Next, Step, Statement

(* At the end of the walk nothing of the section is missing. *)
LEMMA WalkEnds ==
  ASSUME Typed, Tree, Walk
  PROVE  Imported
<1> SUFFICES ASSUME pc = "done", ~addConf, Apart
             PROVE  /\ DOMAIN placed = Walked
                    /\ \A m, n \in Walked : placed[m] = placed[n] => m = n
                    /\ ctxTab = {RowOf(n) : n \in Walked}
                    /\ \A n \in Walked : HasDirs(placed[n], nodes[n].dirs)
                    /\ \A m \in Values(mapTab) : m.ctx \in Values(placed)
  BY DEF Imported, RowOf
<1>1. Places /\ Rows /\ Completed /\ calls = <<>> /\ ~Waiting
  BY DEF Walk, Walking, Waiting
<1>2. Values(calls) = {}
  BY <1>1 DEF Values
<1>3. \A n \in DOMAIN placed : Complete(n)
  BY <1>1, <1>2 DEF Completed
<1>4. DOMAIN placed = Walked
  <2>1. DOMAIN placed \subseteq Walked
    BY <1>1, PlacedId DEF Places, Walked
  <2>2. ClosedUnderSubs(DOMAIN placed)
    BY <1>3 DEF Complete, ClosedUnderSubs
  <2>3. DOMAIN placed \in SUBSET DOMAIN nodes
    BY PlacedId
  <2>4. 1 \in 1..Len(ctxs) /\ Current = ctxs[1]
    BY DEF Typed, TypeOK, Current
  <2>5. \A n \in DOMAIN nodes : n >= Current => n \in DOMAIN placed
    BY <1>1, <2>2, <2>3, <2>4 DEF Tree, Reachable, Places
  <2> QED
    BY <2>1, <2>5 DEF Walked
<1>5. ctxTab = {RowOf(n) : n \in DOMAIN placed}
  BY <1>1 DEF Rows
<1>6. \A n \in DOMAIN placed : HasDirs(placed[n], nodes[n].dirs)
  BY <1>3 DEF Complete, Dirs
<1>7. \A m \in Values(mapTab) : m.ctx \in Values(placed)
  <2>1. DOMAIN mapTab = 1..Len(mapTab)
    BY DEF Typed, TypeOK
  <2> QED
    BY <1>1, <2>1 DEF Completed, Values
<1> QED
  BY <1>1, <1>4, <1>5, <1>6, <1>7 DEF Places

(* A run that deletes what was there leaves exactly the section it walked,   *)
(* whatever the tables held before and whatever runs ended or died before:   *)
(* one row per context, under the row of the context that contains it, with  *)
(* its own directives in their order, provided no two siblings have the same *)
(* tag.                                                                      *)
THEOREM AlwaysImported == Spec => []Imported
<1> DEFINE Inv == Trees /\ Mapped /\ Tree /\ ConfNumbered /\ Walk
<1>1. Init => Inv
  <2> SUFFICES ASSUME Init PROVE Inv
    OBVIOUS
  <2>1. Trees
    BY DEF Init, Started, Trees, Numbered, RowsOfCalls, Connected
  <2>2. nodes = <<NewNode(Default)>> /\ ctxs = << 1 >> /\ pc = "parse" /\ mapTab = old.maps
    BY DEF Init, Started
  <2>3. Mapped
    BY <2>2 DEF Mapped, Deletes, RightCalls, MapsRight, NewNode
  <2>4. Tree
    BY <2>2, TreeOfOne
  <2>5. ConfNumbered
    BY DEF Init, ConfNumbered
  <2>6. Walk
    BY <2>2 DEF Walk, Cleared
  <2> QED
    BY <2>1, <2>3, <2>4, <2>5, <2>6
<1>2. Typed /\ Inv /\ [Next]_vars => Inv'
  BY TreesNext, MappedNext, TreeNext, ConfNumberedNext, WalkNext
<1>3. Typed /\ Inv => Imported
  BY WalkEnds
<1> QED
  BY <1>1, <1>2, <1>3, TypedInitially, TypedNext, PTL DEF Spec
=============================================================================
