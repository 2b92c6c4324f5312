------------------------------- MODULE ReadDb -------------------------------
(***************************************************************************)
(* sqlconf_read_db: the routine that turns the three SQL tables of         *)
(* mod_conf_sql into the lines of a configuration file.                    *)
(*                                                                         *)
(* One action per mod_sql hook call, per SELECT and per iteration of a     *)
(* row loop.  The C recursion read_ctx -> read_ctx_ctxs -> read_ctx is the *)
(* explicit stack of frames `stack'.  The tables live in a server that     *)
(* other clients change while they are being read: nothing in the code     *)
(* opens a transaction, so each SELECT sees the tables of its own moment.  *)
(***************************************************************************)
EXTENDS Naturals, Sequences, FiniteSets

CONSTANTS
  Ctx,        \* the context ids
  Dir,        \* the directives (rows of the conf table)
  NoCtx,      \* SQL NULL as a parent id; also "no base_id in the URI"
  ZeroId,     \* the id 0 that `int id = 0' holds when no root was found
  Histories,  \* the sequences of committed table contents to consider
  Bases,      \* the values sqlconf_ctxs.base_id may have
  CtxWhere,   \* the ids the contexts' WHERE clause admits (Ctx if it is NULL)
  ConfWhere,  \* the directives the confs' WHERE clause admits
  Faults,     \* the calls that may fail
  NullAs,     \* how the backend hands over a NULL column: "empty" or "null"
  EmptyRow,   \* what data[0] and data[1] of an empty result read as
  FreedReads, \* what a read of the freed result of the root query returns
  MaxFrames   \* the nested calls of sqlconf_read_ctx that the C stack holds

(* The calls sqlconf_read_db depends on, by the hook or the query's place. *)
Calls == {"module", "load", "prepare", "define", "open",
          "root", "rootdata", "row", "conf", "ctxs", "close", "cleanup"}

(* What may go wrong below the base context, where no result is checked. *)
Quiet == {"row", "conf", "ctxs", "vanished", "unnamed", "duplicate"}

Row == [id : Ctx, parent : Ctx \union {NoCtx},
        key : {"named", "null"}, val : {"text", "null"}]

Table == [ctxs : SUBSET Row, confs : SUBSET Dir, maps : SUBSET (Dir \X Ctx)]

Line == [kind : {"open", "dir", "close"}, ctx : Ctx \union {ZeroId},
         dir : Dir \union {NoCtx}]

Frame == [ctx : Ctx \union {ZeroId}, at : {"row", "conf", "push", "ctxs", "loop"},
          tagged : BOOLEAN, dirs : SUBSET Dir, kids : SUBSET Row]

ASSUME ReadDbAssumption ==
  /\ NoCtx \notin Ctx \union Dir
  /\ ZeroId \notin Ctx \union {NoCtx}
  /\ Histories \subseteq Seq(Table) \ {<<>>}
  /\ Bases \subseteq Ctx \union {NoCtx}
  /\ CtxWhere \subseteq Ctx
  /\ ConfWhere \subseteq Dir
  /\ Faults \subseteq Calls
  /\ NullAs \in {"empty", "null"}
  /\ EmptyRow \subseteq {"untagged", "crash"}
  /\ FreedReads \subseteq {"intact", "garbled"}
  /\ MaxFrames \in Nat \ {0}

VARIABLES
  history,  \* the successive committed contents of the tables
  ver,      \* the index in history of the present content
  base,     \* sqlconf_ctxs.base_id
  pc,       \* where sqlconf_read_db stands
  res,      \* the result it is bound to return: "none" while undecided
  sql,      \* the state of mod_sql, as its hooks leave it
  trouble,  \* what has gone wrong so far (a history variable)
  roots,    \* the rows the root query returned
  stack,    \* the activations of sqlconf_read_ctx, the innermost last
  lines     \* sqlconf_conf, the array of lines

db == <<history, ver, base>>
vars == <<history, ver, base, pc, res, sql, trouble, roots, stack, lines>>

-----------------------------------------------------------------------------
(* What the queries return.  The operators whose comment says "Mutation" are *)
(* not the code but a plausible mistake in it: replacing the definition that *)
(* follows by one must break a property.                                     *)

Now == history[ver]

RootRows == {r \in Now.ctxs : IF base = NoCtx THEN r.parent = NoCtx ELSE r.id = base}

(* Mutation: the root query asks for the wrong column. *)
RootParents == {r.parent : r \in RootRows}

RootIds == {r.id : r \in RootRows}

RowsOf(t, c) == {r \in t.ctxs : r.id = c /\ c \in CtxWhere}

(* Mutation: the sub-contexts are looked up by their own id. *)
KidsById(t, c) == {r \in t.ctxs : r.id = c /\ r.id \in CtxWhere}

KidsOf(t, c) == {r \in t.ctxs : r.parent = c /\ r.id \in CtxWhere}

(* Mutation: the join has no condition on the context. *)
DirsOfAny(t, c) == {d \in t.confs : d \in ConfWhere}

DirsOf(t, c) == {d \in t.confs : <<d, c>> \in t.maps /\ d \in ConfWhere}

(* The test of lines 803-804, on rnum and fnum. *)
NotUnique(rnum, fnum) == rnum # 1 /\ fnum # 1

-----------------------------------------------------------------------------
Top == stack[Len(stack)]

NewFrame(c) == [ctx |-> c, at |-> "row", tagged |-> FALSE, dirs |-> {}, kids |-> {}]

WithTop(frame) == [stack EXCEPT ![Len(stack)] = frame]

Pop == SubSeq(stack, 1, Len(stack) - 1)

OpenTag(c) == [kind |-> "open", ctx |-> c, dir |-> NoCtx]

(* Mutation: the slash of the closing tag is missing. *)
NoSlash(c) == OpenTag(c)

CloseTag(c) == [kind |-> "close", ctx |-> c, dir |-> NoCtx]

DirLine(c, d) == [kind |-> "dir", ctx |-> c, dir |-> d]

Note(what) == trouble' = trouble \union {what}

(* The call fails, the environment permitting. *)
Fails(call) == call \in Faults /\ Note(call)

Return(value) == pc' = "done" /\ res' = value

Init ==
  /\ history \in Histories
  /\ ver = 1
  /\ base \in Bases
  /\ pc = "module"
  /\ res = "none"
  /\ sql = "none"
  /\ trouble = {}
  /\ roots = {}
  /\ stack = <<>>
  /\ lines = <<>>

-----------------------------------------------------------------------------
(* Up to the open connection, a failing call is an immediate return of -1. *)

Hook(call, next, state) ==
  /\ pc = call
  /\ \/ pc' = next /\ sql' = state /\ UNCHANGED <<res, trouble>>
     \/ Fails(call) /\ Return("err") /\ UNCHANGED sql
  /\ UNCHANGED <<db, roots, stack, lines>>

CheckModule == Hook("module", "load", "none")
LoadBackend == Hook("load", "prepare", "loaded")
Prepare     == Hook("prepare", "define", "prepared")
DefineConn  == Hook("define", "open", "defined")
OpenConn    == Hook("open", "root", "open")

(* Mutation: the error path leaves the connection open. *)
RootFailedLeaks ==
  /\ pc = "root" /\ Fails("root") /\ Return("err")
  /\ UNCHANGED <<db, sql, roots, stack, lines>>

(* The root query fails, or its rows are rejected: the connection is closed *)
(* and -1 returned whatever sqlconf_close_db says.                          *)
RootFailed ==
  /\ pc = "root"
  /\ \/ Fails("root") /\ roots' = {}
     \/ /\ RootRows # {}
        /\ \/ NotUnique(Cardinality(RootRows), 1) /\ Note("unique")
           \/ Fails("rootdata")
        /\ roots' = RootRows
  /\ pc' = "close" /\ res' = "err"
  /\ UNCHANGED <<db, sql, stack, lines>>

(* The root query is answered.  cmd->pool, which owns the result, is        *)
(* destroyed before sd->rnum is read again, so that read returns the old    *)
(* value or anything else; `id' was fetched before.  The order of the rows  *)
(* is the server's.                                                         *)
SelectRoot ==
  /\ pc = "root"
  /\ RootRows = {} \/ ~NotUnique(Cardinality(RootRows), 1)
  /\ roots' = RootRows
  /\ pc' = "walk"
  /\ \E seen \in FreedReads, id \in RootIds \union {ZeroId} :
       /\ id = ZeroId <=> RootRows = {}
       /\ \/ /\ seen = "intact" => Cardinality(RootRows) = 1
             /\ stack' = <<NewFrame(id)>>
          \/ /\ seen = "intact" => Cardinality(RootRows) # 1
             /\ stack' = stack
  /\ UNCHANGED <<db, res, sql, trouble, lines>>

-----------------------------------------------------------------------------
(* sqlconf_read_ctx and its two helpers, on the innermost frame. *)

In(at) == pc = "walk" /\ stack # <<>> /\ Top.at = at

SetTop(frame) == stack' = WithTop(frame)

Undisturbed == UNCHANGED <<db, res, sql, roots>>

(* An early return of -1 from sqlconf_read_ctx.  Both of its callers drop   *)
(* the result: the loop of the frame below goes on with its next row.       *)
(*                                                                          *)
(* Mutation: the query is tried again.                                      *)
Retry == UNCHANGED <<pc, lines, stack>>

Abandon == stack' = Pop /\ UNCHANGED <<pc, lines>>

Crash == pc' = "crashed" /\ UNCHANGED <<stack, lines>>

(* The key and value of the context: the select fails, or more than one row *)
(* has this id.                                                             *)
ReadRowFailed ==
  /\ In("row")
  /\ \/ Fails("row")
     \/ Cardinality(RowsOf(Now, Top.ctx)) > 1 /\ Note("duplicate")
  /\ Abandon
  /\ Undisturbed

(* ctx_key is not NULL. *)
IsNamed(r) == r.key = "named" \/ NullAs = "empty"

(* Mutation: the test of isbase is inverted. *)
IsBaseTagged(r) == IsNamed(r) /\ Len(stack) = 1

(* The context has tags; isbase holds in the outermost activation only. *)
IsTagged(r) == IsNamed(r) /\ Len(stack) # 1

(* The row has a key: push the opening tag, unless this is the base.  A NULL *)
(* key that the backend hands over as a null pointer gives no tag.           *)
ReadRow ==
  /\ In("row")
  /\ \E r \in RowsOf(Now, Top.ctx) :
       /\ RowsOf(Now, Top.ctx) = {r}
       /\ r.val = "null" => NullAs = "empty"
       /\ lines' = IF IsTagged(r) THEN Append(lines, OpenTag(Top.ctx)) ELSE lines
       /\ SetTop([Top EXCEPT !.at = "conf", !.tagged = IsTagged(r)])
       /\ IF IsNamed(r) THEN UNCHANGED trouble ELSE Note("unnamed")
  /\ UNCHANGED pc
  /\ Undisturbed

(* strlen(ctx_val) of a null pointer. *)
NullValue ==
  /\ In("row")
  /\ \E r \in RowsOf(Now, Top.ctx) :
       RowsOf(Now, Top.ctx) = {r} /\ r.val = "null" /\ NullAs = "null"
  /\ Crash
  /\ UNCHANGED trouble
  /\ Undisturbed

(* No row: it was deleted after its id was read, the WHERE clause excludes   *)
(* it, or the id is 0.  sd->rnum is not tested for 0, and data[0], data[1]   *)
(* are read beyond the end of the result.                                    *)
RowVanished ==
  /\ In("row")
  /\ RowsOf(Now, Top.ctx) = {}
  /\ Note("vanished")
  /\ \/ /\ "untagged" \in EmptyRow
        /\ SetTop([Top EXCEPT !.at = "conf"])
        /\ UNCHANGED <<pc, lines>>
     \/ "crash" \in EmptyRow /\ Crash
  /\ Undisturbed

(* sqlconf_read_conf: the SELECT, ... *)
SelectConf ==
  /\ In("conf")
  /\ SetTop([Top EXCEPT !.at = "push", !.dirs = DirsOf(Now, Top.ctx)])
  /\ UNCHANGED <<pc, trouble, lines>>
  /\ Undisturbed

(* ... one line per row, in the order the server chose, ... *)
PushDirective ==
  /\ In("push")
  /\ \E d \in Top.dirs :
       /\ lines' = Append(lines, DirLine(Top.ctx, d))
       /\ SetTop([Top EXCEPT !.dirs = @ \ {d}])
  /\ UNCHANGED <<pc, trouble>>
  /\ Undisturbed

(* ... and its return. *)
DirectivesDone ==
  /\ In("push")
  /\ Top.dirs = {}
  /\ SetTop([Top EXCEPT !.at = "ctxs"])
  /\ UNCHANGED <<pc, trouble, lines>>
  /\ Undisturbed

(* sqlconf_read_ctx_ctxs: the SELECT of the ids of the sub-contexts, ... *)
SelectCtxs ==
  /\ In("ctxs")
  /\ SetTop([Top EXCEPT !.at = "loop", !.kids = KidsOf(Now, Top.ctx)])
  /\ UNCHANGED <<pc, trouble, lines>>
  /\ Undisturbed

(* ... a recursive call for each, for which the C stack must have room. *)
EnterCtx ==
  /\ In("loop")
  /\ Len(stack) < MaxFrames
  /\ \E k \in Top.kids :
       stack' = Append(WithTop([Top EXCEPT !.kids = @ \ {k}]), NewFrame(k.id))
  /\ UNCHANGED <<pc, trouble, lines>>
  /\ Undisturbed

StackOverflow ==
  /\ In("loop")
  /\ Top.kids # {}
  /\ Len(stack) >= MaxFrames
  /\ Crash
  /\ UNCHANGED trouble
  /\ Undisturbed

(* Either SELECT fails: sqlconf_read_ctx returns without the closing tag. *)
SelectFailed ==
  /\ \E call \in {"conf", "ctxs"} : In(call) /\ Fails(call)
  /\ Abandon
  /\ Undisturbed

(* Mutation: there is no closing tag. *)
LeaveUntagged ==
  /\ In("loop") /\ Top.kids = {} /\ stack' = Pop
  /\ UNCHANGED <<pc, trouble, lines>> /\ Undisturbed

(* The closing tag, and the return of 0. *)
LeaveCtx ==
  /\ In("loop")
  /\ Top.kids = {}
  /\ lines' = IF Top.tagged THEN Append(lines, CloseTag(Top.ctx)) ELSE lines
  /\ stack' = Pop
  /\ UNCHANGED <<pc, trouble>>
  /\ Undisturbed

-----------------------------------------------------------------------------
(* sqlconf_close_db, after the walk or on the way out of an error. *)

CloseConn ==
  /\ pc = "close" \/ (pc = "walk" /\ stack = <<>>)
  /\ \/ pc' = "cleanup" /\ sql' = "closed" /\ UNCHANGED <<res, trouble>>
     \/ Fails("close") /\ Return("err") /\ UNCHANGED sql
  /\ UNCHANGED <<db, roots, stack, lines>>

(* Mutation: the result is that of sqlconf_close_db. *)
CloseResult == "ok"

Outcome == IF res = "none" THEN "ok" ELSE res

CleanUp ==
  /\ pc = "cleanup"
  /\ \/ sql' = "clean" /\ Return(Outcome)
        /\ UNCHANGED trouble
     \/ Fails("cleanup") /\ Return("err") /\ UNCHANGED sql
  /\ UNCHANGED <<db, roots, stack, lines>>

(* Another client of the server commits a change. *)
Commit ==
  /\ ver < Len(history)
  /\ ver' = ver + 1
  /\ UNCHANGED <<history, base, pc, res, sql, trouble, roots, stack, lines>>

Returned == pc \in {"done", "crashed"}

Walk == \/ ReadRow \/ ReadRowFailed \/ NullValue \/ RowVanished
        \/ SelectConf \/ PushDirective \/ DirectivesDone
        \/ SelectCtxs \/ EnterCtx \/ StackOverflow \/ SelectFailed \/ LeaveCtx

Step == \/ CheckModule \/ LoadBackend \/ Prepare \/ DefineConn \/ OpenConn
        \/ RootFailed \/ SelectRoot \/ Walk \/ CloseConn \/ CleanUp

Next == Step \/ Commit \/ (Returned /\ UNCHANGED vars)

Spec == Init /\ [][Next]_vars /\ WF_vars(Step)
=============================================================================
