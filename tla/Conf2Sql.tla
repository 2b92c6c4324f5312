------------------------------ MODULE Conf2Sql ------------------------------
(***************************************************************************)
(* conf2sql.pl: the import of a configuration file into the three tables.  *)
(*                                                                         *)
(* The script first reads the whole file into a tree of contexts, one      *)
(* action per line, and then walks the tree, one action per SQL statement. *)
(* AutoCommit is on: each statement is a transaction of its own, and what  *)
(* the script did is there to stay when it dies between two of them.  The  *)
(* script may be run again, on any file, after it ended.                   *)
(***************************************************************************)
EXTENDS Naturals, Sequences, FiniteSets

CONSTANTS
  Label,    \* the tags of contexts: type and value
  Default,  \* type "default", value NULL: the "server config" context
  Type,     \* the types of tags
  TypeOf,   \* the type of each tag
  Dir,      \* the directives: name and value
  Files,    \* the files to import, as sequences of their significant lines
  MaxRuns   \* bound: how often the script is run

Null == 0

FileLine == [kind : {"open"}, what : Label] \union [kind : {"close"}, what : Type]
            \union [kind : {"dir"}, what : Dir]

(* A context in the memory of the script; sub-contexts by their ctxno. *)
Node == [label : Label \union {Default}, dirs : Seq(Dir), subs : Seq(Nat)]

CtxRow == [id : Nat, parent : Nat, label : Label \union {Default}]
ConfRow == [id : Nat, dir : Dir]
MapRow == [ctx : Nat, conf : Nat]

(* A call of process_ctx, with what is left of its two loops. *)
Call == [node : Nat, id : Nat, dirs : Seq(Dir), subs : Seq(Nat),
         at : {"insert", "select", "map", "find"}, conf : Nat]

ASSUME Conf2SqlAssumption ==
  /\ Default \notin Label
  /\ TypeOf \in [Label \union {Default} -> Type]
  /\ Files \subseteq Seq(FileLine)
  /\ MaxRuns \in Nat

VARIABLES
  file,     \* the lines of the file
  newline,  \* its last line is terminated
  addConf,  \* --add-conf was given
  pos,      \* the lines read so far
  nodes,    \* the tree, by ctxno
  ctxs,     \* @ctxs: the open contexts, the innermost ($ctx) first
  pc,       \* where the script is
  calls,    \* the calls of process_ctx, the innermost last
  ctxTab,   \* the rows of the context table
  confTab,  \* the rows of the directive table
  mapTab,   \* the rows of the mapping table, in the order of insertion
  lastCtx,  \* the last id given to a context row
  lastConf, \* the last id given to a directive row
  runs,     \* how often the script was started
  placed,   \* history: the id process_ctx was called with, by ctxno
  old       \* history: the three tables when this run began

vars == <<file, newline, addConf, pos, nodes, ctxs, pc, calls, ctxTab, confTab, mapTab,
          lastCtx, lastConf, runs, placed, old>>

options == <<file, newline, addConf, runs, old>>
tree == <<pos, nodes, ctxs>>
tables == <<ctxTab, confTab, mapTab, lastCtx, lastConf>>

-----------------------------------------------------------------------------
NewNode(label) == [label |-> label, dirs |-> <<>>, subs |-> <<>>]

(* The values of the script's variables when it starts. *)
Started ==
  [pos |-> 0, nodes |-> <<NewNode(Default)>>, ctxs |-> <<1>>, pc |-> "parse",
   calls |-> <<>>, placed |-> <<>>]

Init ==
  /\ file \in Files /\ newline \in BOOLEAN /\ addConf \in BOOLEAN
  /\ pos = Started.pos /\ nodes = Started.nodes /\ ctxs = Started.ctxs
  /\ pc = Started.pc /\ calls = Started.calls /\ placed = Started.placed
  /\ ctxTab = {} /\ confTab = {} /\ mapTab = <<>>
  /\ lastCtx = 0 /\ lastConf = 0
  /\ runs = 1
  /\ old = [ctxs |-> {}, confs |-> {}, maps |-> <<>>]

-----------------------------------------------------------------------------
(* The loop over the lines.  Its condition is the result of chomp, the       *)
(* number of characters removed: a last line without a newline ends it.      *)

More == pos < Len(file) /\ (newline \/ pos + 1 < Len(file))

Line == file[pos + 1]

Current == Head(ctxs)

OpenLine ==
  /\ pc = "parse" /\ More /\ Line.kind = "open"
  /\ LET new == Len(nodes) + 1 IN
       /\ nodes' = Append([nodes EXCEPT ![Current].subs = Append(@, new)],
                          NewNode(Line.what))
       /\ ctxs' = <<new>> \o ctxs
  /\ pos' = pos + 1
  /\ UNCHANGED <<options, tables, pc, calls, placed>>

(* Mutation: the default context is closed like any other. *)
Outside == Tail(ctxs)

Closed == IF Len(ctxs) > 1 THEN Tail(ctxs) ELSE ctxs

CloseLine ==
  /\ pc = "parse" /\ More /\ Line.kind = "close"
  /\ Line.what = TypeOf[nodes[Current].label]
  /\ ctxs' = Closed
  /\ pos' = pos + 1
  /\ UNCHANGED <<options, tables, nodes, pc, calls, placed>>

(* "improperly nested contexts" *)
BadClose ==
  /\ pc = "parse" /\ More /\ Line.kind = "close"
  /\ Line.what # TypeOf[nodes[Current].label]
  /\ pc' = "dead"
  /\ UNCHANGED <<options, tables, tree, calls, placed>>

DirLine ==
  /\ pc = "parse" /\ More /\ Line.kind = "dir"
  /\ nodes' = [nodes EXCEPT ![Current].dirs = Append(@, Line.what)]
  /\ pos' = pos + 1
  /\ UNCHANGED <<options, tables, ctxs, pc, calls, placed>>

(* Mutation: --add-conf is not looked at. *)
WipesAlways == TRUE

Wipes == ~addConf

EndOfFile ==
  /\ pc = "parse" /\ ~More
  /\ pc' = IF Wipes THEN "delctx" ELSE "root"
  /\ UNCHANGED <<options, tables, tree, calls, placed>>

-----------------------------------------------------------------------------
(* The statements. *)

Script == <<options, tree>>

(* Mutation: the contexts stay. *)
KeepCtxs ==
  /\ pc = "delctx" /\ pc' = "delconf"
  /\ UNCHANGED <<Script, tables, calls, placed>>

DeleteCtxs ==
  /\ pc = "delctx"
  /\ ctxTab' = {}
  /\ pc' = "delconf"
  /\ UNCHANGED <<Script, confTab, mapTab, lastCtx, lastConf, calls, placed>>

DeleteConfs ==
  /\ pc = "delconf"
  /\ confTab' = {}
  /\ pc' = "delmap"
  /\ UNCHANGED <<Script, ctxTab, mapTab, lastCtx, lastConf, calls, placed>>

DeleteMaps ==
  /\ pc = "delmap"
  /\ mapTab' = <<>>
  /\ pc' = "root"
  /\ UNCHANGED <<Script, ctxTab, confTab, lastCtx, lastConf, calls, placed>>

(* Mutation: an id that is free is given again. *)
ReuseCtxId(parent, label) ==
  /\ ctxTab' = ctxTab \union {[id |-> Cardinality(ctxTab) + 1, parent |-> parent, label |-> label]}
  /\ UNCHANGED <<confTab, mapTab, lastCtx, lastConf>>

InsertCtxRow(parent, label) ==
  /\ ctxTab' = ctxTab \union {[id |-> lastCtx + 1, parent |-> parent, label |-> label]}
  /\ lastCtx' = lastCtx + 1
  /\ UNCHANGED <<confTab, mapTab, lastConf>>

InsertRoot ==
  /\ pc = "root"
  /\ InsertCtxRow(Null, Default)
  /\ pc' = "findroot"
  /\ UNCHANGED <<Script, calls, placed>>

NewCall(node, id) ==
  [node |-> node, id |-> id, dirs |-> nodes[node].dirs, subs |-> nodes[node].subs,
   at |-> "insert", conf |-> Null]

Place(node, id) == placed' = [n \in DOMAIN placed \union {node} |->
                                IF n = node THEN id ELSE placed[n]]

(* The first row of the answer is taken, and its order is the server's.  The *)
(* walk starts at $ctx, which is the default context if all others were      *)
(* closed.                                                                   *)
SelectRoot ==
  /\ pc = "findroot"
  /\ \E r \in ctxTab :
       /\ r.label = Default
       /\ calls' = <<NewCall(Current, r.id)>>
       /\ Place(Current, r.id)
  /\ pc' = "process"
  /\ UNCHANGED <<Script, tables>>

Top == calls[Len(calls)]

At(place) == pc = "process" /\ calls # <<>> /\ Top.at = place

SetTop(call) == calls' = [calls EXCEPT ![Len(calls)] = call]

InsertConf ==
  /\ At("insert") /\ Top.dirs # <<>>
  /\ confTab' = confTab \union {[id |-> lastConf + 1, dir |-> Head(Top.dirs)]}
  /\ lastConf' = lastConf + 1
  /\ SetTop([Top EXCEPT !.at = "select"])
  /\ UNCHANGED <<Script, pc, ctxTab, mapTab, lastCtx, placed>>

(* Mutation: the directive is not compared. *)
AnyDir(d) == confTab

SameDir(d) == {c \in confTab : c.dir = d}

SelectConf ==
  /\ At("select")
  /\ \E c \in SameDir(Head(Top.dirs)) : SetTop([Top EXCEPT !.at = "map", !.conf = c.id])
  /\ UNCHANGED <<Script, tables, pc, placed>>

InsertMap ==
  /\ At("map")
  /\ mapTab' = Append(mapTab, [ctx |-> Top.id, conf |-> Top.conf])
  /\ SetTop([Top EXCEPT !.at = "insert", !.dirs = Tail(@)])
  /\ UNCHANGED <<Script, pc, ctxTab, confTab, lastCtx, lastConf, placed>>

(* Mutation: the parent is named by its ctxno instead of the id of its row.  *)
InsertCtxByNo ==
  /\ At("insert") /\ Top.dirs = <<>> /\ Top.subs # <<>>
  /\ InsertCtxRow(Top.node, nodes[Head(Top.subs)].label)
  /\ SetTop([Top EXCEPT !.at = "find"])
  /\ UNCHANGED <<Script, pc, placed>>

InsertCtx ==
  /\ At("insert") /\ Top.dirs = <<>> /\ Top.subs # <<>>
  /\ InsertCtxRow(Top.id, nodes[Head(Top.subs)].label)
  /\ SetTop([Top EXCEPT !.at = "find"])
  /\ UNCHANGED <<Script, pc, placed>>

(* Mutation: the parent is not compared. *)
SameLabel(label, parent) == {r \in ctxTab : r.label = label}

Alike(label, parent) == {r \in ctxTab : r.label = label /\ r.parent = parent}

SelectCtx ==
  /\ At("find")
  /\ LET sub == Head(Top.subs) IN
       \E r \in Alike(nodes[sub].label, Top.id) :
         /\ calls' = Append([calls EXCEPT ![Len(calls)].at = "insert",
                                          ![Len(calls)].subs = Tail(@)],
                            NewCall(sub, r.id))
         /\ Place(sub, r.id)
  /\ UNCHANGED <<Script, tables, pc>>

(* Mutation: process_ctx does not return. *)
Hang == UNCHANGED vars

Return ==
  /\ At("insert") /\ Top.dirs = <<>> /\ Top.subs = <<>>
  /\ calls' = SubSeq(calls, 1, Len(calls) - 1)
  /\ UNCHANGED <<Script, tables, pc, placed>>

Exit ==
  /\ pc = "process" /\ calls = <<>>
  /\ pc' = "done"
  /\ UNCHANGED <<Script, tables, calls, placed>>

Over == pc \in {"done", "dead"}

(* RaiseError is on: an SQL error is the end of the script, as a kill is. *)
Die ==
  /\ ~Over /\ pc # "parse"
  /\ pc' = "dead"
  /\ UNCHANGED <<Script, tables, calls, placed>>

(* Someone runs the script once more. *)
Rerun ==
  /\ Over
  /\ runs < MaxRuns
  /\ runs' = runs + 1
  /\ file' \in Files /\ newline' \in BOOLEAN /\ addConf' \in BOOLEAN
  /\ pos' = Started.pos /\ nodes' = Started.nodes /\ ctxs' = Started.ctxs
  /\ pc' = Started.pc /\ calls' = Started.calls /\ placed' = Started.placed
  /\ old' = [ctxs |-> ctxTab, confs |-> confTab, maps |-> mapTab]
  /\ UNCHANGED tables

Parse == OpenLine \/ CloseLine \/ BadClose \/ DirLine \/ EndOfFile

Statement ==
  \/ DeleteCtxs \/ DeleteConfs \/ DeleteMaps \/ InsertRoot \/ SelectRoot
  \/ InsertConf \/ SelectConf \/ InsertMap \/ InsertCtx \/ SelectCtx

Step == Parse \/ Statement \/ Return \/ Exit

Next == Step \/ Die \/ Rerun \/ (Over /\ UNCHANGED vars)

Spec == Init /\ [][Next]_vars /\ WF_vars(Step)
=============================================================================
