------------------------------ MODULE Sql2Conf ------------------------------
(***************************************************************************)
(* sql2conf.pl: the export of the three tables as a configuration file.    *)
(*                                                                         *)
(* The script first collects the contexts below a row without a parent,    *)
(* one action per SELECT of get_ctx, and then prints them.  Its recursion  *)
(* is the stack `walk'; the tree it collects is kept as the lines it will  *)
(* be printed as.  The tables are those of a server that others change;    *)
(* AutoCommit is on, so each SELECT sees the tables of its own moment.     *)
(***************************************************************************)
EXTENDS Naturals, Sequences, SequencesExt

CONSTANTS
  Null,     \* the id that is undef, SQL's NULL
  Blank,    \* the tag of a context whose type and value are undef
  Shown,    \* how the tag of each label is printed
  NoConf    \* the directive of a line that is a tag

VARIABLES
  ctxTab, confTab, mapTab,  \* the tables
  step,    \* where the script is
  walk,    \* the calls of get_ctx, the innermost last
  text,    \* what get_ctx has collected so far
  output   \* STDOUT

tabs == <<ctxTab, confTab, mapTab>>
vars == <<ctxTab, confTab, mapTab, step, walk, text, output>>

(* A line with the rows it comes from, as --show-tags prints them. *)
Tag(kind, id, label) == [kind |-> kind, ctx |-> id, conf |-> NoConf, what |-> label]
Directive(id, row) == [kind |-> "dir", ctx |-> id, conf |-> row.id, what |-> row.dir]

NewCall(id) == [id |-> id, at |-> "row", label |-> Blank, subs |-> {}]

Init == step = "start" /\ walk = <<>> /\ text = <<>> /\ output = <<>>

-----------------------------------------------------------------------------
(* get_ctx without an id: the first row of the answer, whose order is the    *)
(* server's, or undef.                                                       *)
Parentless == {r.id : r \in {s \in ctxTab : s.parent = Null}}

SelectRoot ==
  /\ step = "start"
  /\ \E id \in IF Parentless = {} THEN {Null} ELSE Parentless : walk' = <<NewCall(id)>>
  /\ step' = "collect"
  /\ UNCHANGED <<tabs, text, output>>

Top == walk[Len(walk)]

At(place) == step = "collect" /\ walk # <<>> /\ Top.at = place

SetTop(call) == walk' = [walk EXCEPT ![Len(walk)] = call]

(* Mutation: the outermost context has its tags like the others. *)
AlwaysTagged(lines) == lines

(* show_conf prints the outermost context without its tags. *)
Tagged(lines) == IF Len(walk) > 1 THEN lines ELSE <<>>

(* The type and value; undef if the row is gone.  A comparison with undef is *)
(* false, so that nothing is found for it.                                   *)
LabelOf(id) ==
  IF \E r \in ctxTab : r.id = id THEN Shown[(CHOOSE r \in ctxTab : r.id = id).label] ELSE Blank

SelectRow ==
  /\ At("row")
  /\ SetTop([Top EXCEPT !.at = "dirs", !.label = LabelOf(Top.id)])
  /\ text' = text \o Tagged(<<Tag("open", Top.id, LabelOf(Top.id))>>)
  /\ UNCHANGED <<tabs, step, output>>

(* Mutation: the join has no condition on the context. *)
JoinAll(id) ==
  {p \in (DOMAIN mapTab) \X confTab : mapTab[p[1]].conf = p[2].id}

(* get_ctx_directives: one row per mapping, in any order. *)
Join(id) ==
  {p \in (DOMAIN mapTab) \X confTab : mapTab[p[1]].ctx = id /\ mapTab[p[1]].conf = p[2].id}

SelectDirs ==
  /\ At("dirs")
  /\ \E rows \in SetToSeqs(Join(Top.id)) :
       text' = text \o [i \in DOMAIN rows |-> Directive(Top.id, rows[i][2])]
  /\ SetTop([Top EXCEPT !.at = "ctxs"])
  /\ UNCHANGED <<tabs, step, output>>

(* get_ctx_ctxs: the ids; parent_id = NULL has no rows. *)
Children(id) == {r.id : r \in {s \in ctxTab : s.parent = id /\ id # Null}}

SelectCtxs ==
  /\ At("ctxs")
  /\ SetTop([Top EXCEPT !.at = "loop", !.subs = Children(Top.id)])
  /\ UNCHANGED <<tabs, step, text, output>>

(* The loop over them, in any order. *)
EnterCtx ==
  /\ At("loop")
  /\ \E id \in Top.subs :
       walk' = Append([walk EXCEPT ![Len(walk)].subs = @ \ {id}], NewCall(id))
  /\ UNCHANGED <<tabs, step, text, output>>

LeaveCtx ==
  /\ At("loop") /\ Top.subs = {}
  /\ walk' = SubSeq(walk, 1, Len(walk) - 1)
  /\ text' = text \o Tagged(<<Tag("close", Top.id, Top.label)>>)
  /\ UNCHANGED <<tabs, step, output>>

(* show_conf, show_directives and show_ctxs. *)
Show ==
  /\ step = "collect" /\ walk = <<>>
  /\ output' = text
  /\ step' = "end"
  /\ UNCHANGED <<tabs, walk, text>>

(* RaiseError is on: an SQL error ends the script before it prints. *)
Die ==
  /\ step \in {"start", "collect"}
  /\ step' = "dead"
  /\ UNCHANGED <<tabs, walk, text, output>>

Next == \/ SelectRoot \/ SelectRow \/ SelectDirs \/ SelectCtxs
        \/ EnterCtx \/ LeaveCtx \/ Show \/ Die
=============================================================================
