---------------------------- MODULE ReadDbProofs ----------------------------
(***************************************************************************)
(* Theorems about sqlconf_read_db, for every database, every sequence of   *)
(* commits by other clients and every combination of failing calls.        *)
(***************************************************************************)
EXTENDS ReadDbProps, LastLemmas, FiniteSetTheorems, TLAPS

-----------------------------------------------------------------------------
(* The type invariant.  Most actions disturb only the stack and the lines;  *)
(* the facts about their operators come first.                              *)

LEMMA FrameTypes ==
  ASSUME TypeOK, stack # <<>>
  PROVE  /\ Len(stack) \in Nat \ {0}
         /\ Top \in Frame
         /\ Pop \in Seq(Frame)
         /\ \A f \in Frame : WithTop(f) \in Seq(Frame)
<1>1. Len(stack) \in Nat \ {0} /\ Top \in Frame
  BY DEF TypeOK, Top
<1>2. Pop \in Seq(Frame)
  BY LastDropped DEF TypeOK, Pop
<1>3. ASSUME NEW f \in Frame PROVE WithTop(f) \in Seq(Frame)
  BY LastReplaced DEF TypeOK, WithTop
<1> QED
  BY <1>1, <1>2, <1>3

LEMMA TableTypes ==
  ASSUME TypeOK
  PROVE  /\ Now \in Table
         /\ RootRows \subseteq Row
         /\ \A c : /\ RowsOf(Now, c) \subseteq Row
                  /\ KidsOf(Now, c) \subseteq Row
                  /\ DirsOf(Now, c) \subseteq Dir
<1>1. Now \in Table
  BY DEF TypeOK, Now
<1> QED
  BY <1>1 DEF Table, RootRows, RowsOf, KidsOf, DirsOf

LEMMA LineTypes ==
  ASSUME NEW c \in Ctx \union {ZeroId}
  PROVE  /\ OpenTag(c) \in Line
         /\ CloseTag(c) \in Line
         /\ \A d \in Dir : DirLine(c, d) \in Line
         /\ NewFrame(c) \in Frame
  BY DEF OpenTag, CloseTag, DirLine, NewFrame, Line, Frame

LEMMA TypeInit == Init => TypeOK
  BY ReadDbAssumption DEF Init, TypeOK, Calls

LEMMA TypeHooks ==
  ASSUME TypeOK,
         CheckModule \/ LoadBackend \/ Prepare \/ DefineConn \/ OpenConn
         \/ CloseConn \/ CleanUp \/ RootFailed
  PROVE  TypeOK'
<1> USE DEF TypeOK, db, Fails, Note, Return, Calls
<1>1. CASE CheckModule BY <1>1, ReadDbAssumption DEF CheckModule, Hook
<1>2. CASE LoadBackend BY <1>2, ReadDbAssumption DEF LoadBackend, Hook
<1>3. CASE Prepare BY <1>3, ReadDbAssumption DEF Prepare, Hook
<1>4. CASE DefineConn BY <1>4, ReadDbAssumption DEF DefineConn, Hook
<1>5. CASE OpenConn BY <1>5, ReadDbAssumption DEF OpenConn, Hook
<1>6. CASE CloseConn BY <1>6, ReadDbAssumption DEF CloseConn
<1>7. CASE CleanUp BY <1>7, ReadDbAssumption DEF CleanUp, Outcome
<1>8. CASE RootFailed BY <1>8, ReadDbAssumption, TableTypes DEF RootFailed
<1> QED
  BY <1>1, <1>2, <1>3, <1>4, <1>5, <1>6, <1>7, <1>8

LEMMA TypeWalk ==
  ASSUME TypeOK, SelectRoot \/ Walk
  PROVE  TypeOK'
<1> USE DEF db, Fails, Note, Undisturbed, Calls, Quiet
<1>1. CASE SelectRoot
  <2>1. \A id \in RootIds \union {ZeroId} : <<NewFrame(id)>> \in Seq(Frame)
    BY TableTypes, LineTypes DEF RootIds, Row
  <2> QED
    BY <1>1, <2>1, TableTypes DEF SelectRoot, TypeOK
<1>2. CASE ReadRow
  <2>1. stack # <<>> /\ pc = "walk" /\ pc' = pc
    BY <1>2 DEF ReadRow, In
  <2>2. lines' \in Seq(Line)
    BY <1>2, <2>1, FrameTypes, LineTypes, LastAdded DEF ReadRow, TypeOK, Frame
  <2>3. stack' \in Seq(Frame)
    <3>1. \A b \in BOOLEAN : [Top EXCEPT !.at = "conf", !.tagged = b] \in Frame
      BY <2>1, FrameTypes DEF Frame
    <3> QED
      BY <1>2, <2>1, <3>1, FrameTypes DEF ReadRow, SetTop, IsTagged
  <2> QED
    BY <1>2, <2>1, <2>2, <2>3 DEF ReadRow, TypeOK
<1>3. CASE ReadRowFailed \/ SelectFailed
  <2>1. stack # <<>> /\ Abandon /\ Undisturbed /\ trouble' \subseteq Calls \union Quiet \union {"unique"}
    BY <1>3, ReadDbAssumption DEF ReadRowFailed, SelectFailed, In, TypeOK
  <2> QED
    BY <2>1, FrameTypes DEF Abandon, TypeOK
<1>4. CASE NullValue \/ StackOverflow
  BY <1>4 DEF NullValue, StackOverflow, Crash, TypeOK
<1>5. CASE RowVanished
  <2>1. stack # <<>> /\ pc = "walk"
    BY <1>5 DEF RowVanished, In
  <2>2. [Top EXCEPT !.at = "conf"] \in Frame
    BY <2>1, FrameTypes DEF Frame
  <2> QED
    BY <1>5, <2>1, <2>2, FrameTypes DEF RowVanished, Crash, SetTop, TypeOK
<1>6. CASE SelectConf
  <2>1. stack # <<>> /\ pc = "walk"
    BY <1>6 DEF SelectConf, In
  <2>2. [Top EXCEPT !.at = "push", !.dirs = DirsOf(Now, Top.ctx)] \in Frame
    BY <2>1, FrameTypes, TableTypes DEF Frame
  <2> QED
    BY <1>6, <2>1, <2>2, FrameTypes DEF SelectConf, SetTop, TypeOK
<1>7. CASE PushDirective
  <2>1. stack # <<>> /\ pc = "walk" /\ pc' = pc
    BY <1>7 DEF PushDirective, In
  <2>2. PICK d \in Top.dirs : /\ lines' = Append(lines, DirLine(Top.ctx, d))
                             /\ SetTop([Top EXCEPT !.dirs = @ \ {d}])
    BY <1>7 DEF PushDirective
  <2>3. d \in Dir /\ [Top EXCEPT !.dirs = @ \ {d}] \in Frame
    BY <2>1, <2>2, FrameTypes DEF Frame
  <2>4. DirLine(Top.ctx, d) \in Line
    BY <2>1, <2>3, FrameTypes, LineTypes DEF Frame
  <2> QED
    BY <1>7, <2>1, <2>2, <2>3, <2>4, FrameTypes, LastAdded DEF PushDirective, SetTop, TypeOK
<1>8. CASE DirectivesDone
  <2>1. stack # <<>> /\ pc = "walk"
    BY <1>8 DEF DirectivesDone, In
  <2>2. [Top EXCEPT !.at = "ctxs"] \in Frame
    BY <2>1, FrameTypes DEF Frame
  <2> QED
    BY <1>8, <2>1, <2>2, FrameTypes DEF DirectivesDone, SetTop, TypeOK
<1>9. CASE SelectCtxs
  <2>1. stack # <<>> /\ pc = "walk"
    BY <1>9 DEF SelectCtxs, In
  <2>2. [Top EXCEPT !.at = "loop", !.kids = KidsOf(Now, Top.ctx)] \in Frame
    BY <2>1, FrameTypes, TableTypes DEF Frame
  <2> QED
    BY <1>9, <2>1, <2>2, FrameTypes DEF SelectCtxs, SetTop, TypeOK
<1>10. CASE EnterCtx
  <2>1. stack # <<>> /\ pc = "walk"
    BY <1>10 DEF EnterCtx, In
  <2>2. PICK k \in Top.kids :
          stack' = Append(WithTop([Top EXCEPT !.kids = @ \ {k}]), NewFrame(k.id))
    BY <1>10 DEF EnterCtx
  <2>3. k \in Row /\ [Top EXCEPT !.kids = @ \ {k}] \in Frame
    BY <2>1, <2>2, FrameTypes DEF Frame
  <2>4. NewFrame(k.id) \in Frame
    BY <2>3, LineTypes DEF Row
  <2>5. stack' \in Seq(Frame)
    BY <2>1, <2>2, <2>3, <2>4, FrameTypes, LastAdded
  <2> QED
    BY <1>10, <2>1, <2>5 DEF EnterCtx, TypeOK
<1>11. CASE LeaveCtx
  <2>1. stack # <<>> /\ pc = "walk"
    BY <1>11 DEF LeaveCtx, In
  <2>2. lines' \in Seq(Line)
    BY <1>11, <2>1, FrameTypes, LineTypes, LastAdded DEF LeaveCtx, TypeOK, Frame
  <2> QED
    BY <1>11, <2>1, <2>2, FrameTypes DEF LeaveCtx, TypeOK
<1> QED
  BY <1>1, <1>2, <1>3, <1>4, <1>5, <1>6, <1>7, <1>8, <1>9, <1>10, <1>11 DEF Walk

LEMMA TypeNext == TypeOK /\ [Next]_vars => TypeOK'
<1> SUFFICES ASSUME TypeOK, [Next]_vars PROVE TypeOK'
  OBVIOUS
<1>1. CASE Step
  BY <1>1, TypeHooks, TypeWalk DEF Step
<1>2. CASE Commit
  BY <1>2 DEF Commit, TypeOK
<1>3. CASE UNCHANGED vars
  BY <1>3 DEF vars, TypeOK
<1> QED
  BY <1>1, <1>2, <1>3 DEF Next

(* Whatever the tables, the commits and the failures, every variable keeps  *)
(* its type.                                                                *)
THEOREM TypeCorrect == Spec => []TypeOK
  BY TypeInit, TypeNext, PTL DEF Spec
-----------------------------------------------------------------------------
(* The result.  FailuresReported speaks of the end; before it, -1 is already *)
(* decided exactly when something other than a nested call went wrong.       *)

Reporting ==
  /\ res = "err" <=> ~(trouble \subseteq Quiet)
  /\ res = "ok" => pc = "done"
  /\ pc = "done" => res # "none"

LEMMA ReportingInit == Init => Reporting
  BY DEF Init, Reporting

LEMMA ReportingNext == TypeOK /\ Reporting /\ [Next]_vars => Reporting'
<1> SUFFICES ASSUME TypeOK, Reporting, [Next]_vars PROVE Reporting'
  OBVIOUS
<1> USE DEF Reporting, Fails, Note, Return, Quiet
<1>1. CASE CheckModule BY <1>1 DEF CheckModule, Hook
<1>2. CASE LoadBackend BY <1>2 DEF LoadBackend, Hook
<1>3. CASE Prepare BY <1>3 DEF Prepare, Hook
<1>4. CASE DefineConn BY <1>4 DEF DefineConn, Hook
<1>5. CASE OpenConn BY <1>5 DEF OpenConn, Hook
<1>6. CASE RootFailed
  <2>1. PICK what \in {"root", "rootdata", "unique"} : trouble' = trouble \union {what}
    BY <1>6 DEF RootFailed
  <2>2. what \notin Quiet /\ what \in trouble'
    BY <2>1
  <2> QED
    BY <1>6, <2>2 DEF RootFailed
<1>7. CASE SelectRoot BY <1>7 DEF SelectRoot
<1>8. CASE Walk
  <2>1. pc = "walk" /\ pc' # "done" /\ res' = res
    BY <1>8 DEF Walk, ReadRow, ReadRowFailed, NullValue, RowVanished, SelectConf,
         PushDirective, DirectivesDone, SelectCtxs, EnterCtx, StackOverflow,
         SelectFailed, LeaveCtx, In, Abandon, Crash, Undisturbed
  <2>2. trouble' \subseteq Quiet <=> trouble \subseteq Quiet
    BY <1>8 DEF Walk, ReadRow, ReadRowFailed, NullValue, RowVanished, SelectConf,
         PushDirective, DirectivesDone, SelectCtxs, EnterCtx, StackOverflow,
         SelectFailed, LeaveCtx
  <2> QED
    BY <2>1, <2>2
<1>9. CASE CloseConn BY <1>9 DEF CloseConn
<1>10. CASE CleanUp
  <2>1. CASE res' = Outcome /\ pc' = "done" /\ trouble' = trouble
    BY <2>1 DEF Outcome, TypeOK
  <2>2. CASE res' = "err" /\ pc' = "done" /\ "cleanup" \in trouble'
    BY <2>2
  <2> QED
    BY <1>10, <2>1, <2>2 DEF CleanUp
<1>11. CASE Commit BY <1>11 DEF Commit
<1>12. CASE UNCHANGED vars BY <1>12 DEF vars
<1> QED
  BY <1>1, <1>2, <1>3, <1>4, <1>5, <1>6, <1>7, <1>8, <1>9, <1>10, <1>11, <1>12
     DEF Next, Step

(* The result is -1 exactly when a call outside sqlconf_read_ctx went wrong. *)
THEOREM ResultReported == Spec => []FailuresReported
<1>1. TypeOK /\ Reporting => FailuresReported
  BY DEF TypeOK, Reporting, FailuresReported
<1> QED
  BY <1>1, TypeCorrect, ReportingInit, ReportingNext, PTL DEF Spec

-----------------------------------------------------------------------------
(* The session with mod_sql.  The refinement needs to know which state of    *)
(* mod_sql each place of the routine goes with.                              *)

InStep ==
  /\ pc \in {"module", "load"} => sql = "none"
  /\ pc = "prepare" => sql = "loaded"
  /\ pc = "define" => sql = "prepared"
  /\ pc = "open" => sql = "defined"
  /\ pc \in {"root", "walk", "close"} => sql = "open"
  /\ pc = "cleanup" => sql = "closed"

LEMMA InStepNext == InStep /\ [Next]_vars => InStep'
<1> SUFFICES ASSUME InStep, [Next]_vars PROVE InStep'
  OBVIOUS
<1> USE DEF InStep, Return
<1>1. CASE CheckModule BY <1>1 DEF CheckModule, Hook
<1>2. CASE LoadBackend BY <1>2 DEF LoadBackend, Hook
<1>3. CASE Prepare BY <1>3 DEF Prepare, Hook
<1>4. CASE DefineConn BY <1>4 DEF DefineConn, Hook
<1>5. CASE OpenConn BY <1>5 DEF OpenConn, Hook
<1>6. CASE RootFailed BY <1>6 DEF RootFailed
<1>7. CASE SelectRoot BY <1>7 DEF SelectRoot
<1>8. CASE Walk
  <2>1. sql' = sql /\ pc = "walk" /\ pc' \in {"walk", "crashed"}
    BY <1>8 DEF Walk, ReadRow, ReadRowFailed, NullValue, RowVanished, SelectConf,
         PushDirective, DirectivesDone, SelectCtxs, EnterCtx, StackOverflow,
         SelectFailed, LeaveCtx, In, Abandon, Crash, Undisturbed
  <2> QED
    BY <2>1
<1>9. CASE CloseConn BY <1>9 DEF CloseConn
<1>10. CASE CleanUp BY <1>10 DEF CleanUp
<1>11. CASE Commit BY <1>11 DEF Commit
<1>12. CASE UNCHANGED vars BY <1>12 DEF vars
<1> QED
  BY <1>1, <1>2, <1>3, <1>4, <1>5, <1>6, <1>7, <1>8, <1>9, <1>10, <1>11, <1>12
     DEF Next, Step

LEMMA SessionStep ==
  TypeOK /\ InStep /\ [Next]_vars => [Session!Next]_Session!vars
<1> SUFFICES ASSUME TypeOK, InStep, [Next]_vars PROVE [Session!Next]_Session!vars
  OBVIOUS
<1> USE DEF InStep, Fails, Note, Return, Session!vars, Session!Next
<1>1. CASE CheckModule
  BY <1>1 DEF CheckModule, Hook, Session!Fail
<1>2. CASE LoadBackend
  BY <1>2 DEF LoadBackend, Hook, Session!Fail, Session!Advance, Session!Stages
<1>3. CASE Prepare
  BY <1>3 DEF Prepare, Hook, Session!Fail, Session!Advance, Session!Stages
<1>4. CASE DefineConn
  BY <1>4 DEF DefineConn, Hook, Session!Fail, Session!Advance, Session!Stages
<1>5. CASE OpenConn
  BY <1>5 DEF OpenConn, Hook, Session!Fail, Session!Advance, Session!Stages
<1>6. CASE RootFailed
  BY <1>6 DEF RootFailed
<1>7. CASE SelectRoot
  BY <1>7 DEF SelectRoot
<1>8. CASE Walk
  <2>1. sql' = sql /\ res' = res /\ pc = "walk" /\ pc' \in {"walk", "crashed"}
    BY <1>8 DEF Walk, ReadRow, ReadRowFailed, NullValue, RowVanished, SelectConf,
         PushDirective, DirectivesDone, SelectCtxs, EnterCtx, StackOverflow,
         SelectFailed, LeaveCtx, In, Abandon, Crash, Undisturbed
  <2>2. "close" \in trouble' <=> "close" \in trouble
    BY <1>8 DEF Walk, ReadRow, ReadRowFailed, NullValue, RowVanished, SelectConf,
         PushDirective, DirectivesDone, SelectCtxs, EnterCtx, StackOverflow,
         SelectFailed, LeaveCtx
  <2>3. ("close" \in trouble)' = ("close" \in trouble)
    BY <2>2
  <2> QED
    BY <2>1, <2>3 DEF Session!Die
<1>9. CASE CloseConn
  BY <1>9 DEF CloseConn, Session!CloseFails, Session!Advance, Session!Stages
<1>10. CASE CleanUp
  BY <1>10 DEF CleanUp, Outcome, TypeOK, Session!Finish, Session!Fail
<1>11. CASE Commit
  BY <1>11 DEF Commit
<1>12. CASE UNCHANGED vars
  BY <1>12 DEF vars
<1> QED
  BY <1>1, <1>2, <1>3, <1>4, <1>5, <1>6, <1>7, <1>8, <1>9, <1>10, <1>11, <1>12
     DEF Next, Step

(* The routine implements SqlSession: the hooks come in their order, and it  *)
(* does not return with a connection it has not tried to close.              *)
THEOREM SessionImplemented == Spec => Session!Init /\ [][Session!Next]_Session!vars
<1>1. Init => Session!Init /\ InStep
  BY DEF Init, Session!Init, InStep
<1> QED
  BY <1>1, TypeCorrect, InStepNext, SessionStep, PTL DEF Spec
-----------------------------------------------------------------------------
(* The recursion.  Under FixedParents a context has one parent for all time, *)
(* the frames are a chain of parents and children, and the chain cannot come *)
(* back to itself: its first context has no parent.                          *)

ChildOf(c, p) ==
  \E v \in DOMAIN history : \E r \in history[v].ctxs : r.id = c /\ r.parent = p

Chain ==
  /\ stack # <<>> => stack[1].ctx = ZeroId \/ ChildOf(stack[1].ctx, NoCtx)
  /\ \A i \in 2..Len(stack) : ChildOf(stack[i].ctx, stack[i - 1].ctx)
  /\ \A i \in 1..Len(stack) : \A k \in stack[i].kids : ChildOf(k.id, stack[i].ctx)
  /\ \A i, j \in 1..Len(stack) : stack[i].ctx = stack[j].ctx => i = j

Treelike == FixedParents /\ FromNull

LEMMA OneParent ==
  ASSUME FixedParents, NEW c, NEW p, NEW q, ChildOf(c, p), ChildOf(c, q)
  PROVE  p = q
  BY DEF FixedParents, ChildOf

(* The steps that change the stack do one of four things to it. *)
LEMMA StackSteps ==
  ASSUME TypeOK, [Next]_vars
  PROVE  \/ stack' = stack
         \/ stack # <<>> /\ stack' = Pop
         \/ stack # <<>> /\ \E f \in Frame :
              /\ stack' = WithTop(f)
              /\ f.ctx = Top.ctx
              /\ f.kids \subseteq Top.kids \union KidsOf(Now, Top.ctx)
         \/ stack # <<>> /\ \E k \in Top.kids :
              stack' = Append(WithTop([Top EXCEPT !.kids = @ \ {k}]), NewFrame(k.id))
         \/ \E id \in RootIds \union {ZeroId} : stack' = <<NewFrame(id)>>
<1>1. CASE CheckModule \/ LoadBackend \/ Prepare \/ DefineConn \/ OpenConn
           \/ RootFailed \/ CloseConn \/ CleanUp \/ Commit \/ UNCHANGED vars
  BY <1>1 DEF CheckModule, LoadBackend, Prepare, DefineConn, OpenConn, Hook,
       RootFailed, CloseConn, CleanUp, Commit, vars
<1>2. CASE SelectRoot
  BY <1>2 DEF SelectRoot
<1>3. CASE ReadRowFailed \/ SelectFailed \/ LeaveCtx
  BY <1>3 DEF ReadRowFailed, SelectFailed, LeaveCtx, In, Abandon
<1>4. CASE NullValue \/ StackOverflow
  BY <1>4 DEF NullValue, StackOverflow, Crash
<1>5. CASE ReadRow
  <2>1. stack # <<>>
    BY <1>5 DEF ReadRow, In
  <2>2. \E b \in BOOLEAN : stack' = WithTop([Top EXCEPT !.at = "conf", !.tagged = b])
    BY <1>5 DEF ReadRow, SetTop, IsTagged
  <2>3. ASSUME NEW b \in BOOLEAN
        PROVE  LET f == [Top EXCEPT !.at = "conf", !.tagged = b]
               IN  f \in Frame /\ f.ctx = Top.ctx /\ f.kids = Top.kids
    BY <2>1, FrameTypes DEF Frame
  <2> QED
    BY <2>1, <2>2, <2>3
<1>6. CASE RowVanished
  <2>1. stack # <<>>
    BY <1>6 DEF RowVanished, In
  <2>2. LET f == [Top EXCEPT !.at = "conf"]
        IN  f \in Frame /\ f.ctx = Top.ctx /\ f.kids = Top.kids
    BY <2>1, FrameTypes DEF Frame
  <2> QED
    BY <1>6, <2>1, <2>2 DEF RowVanished, Crash, SetTop
<1>7. CASE SelectConf
  <2>1. stack # <<>>
    BY <1>7 DEF SelectConf, In
  <2>2. LET f == [Top EXCEPT !.at = "push", !.dirs = DirsOf(Now, Top.ctx)]
        IN  f \in Frame /\ f.ctx = Top.ctx /\ f.kids = Top.kids
    BY <2>1, FrameTypes, TableTypes DEF Frame
  <2> QED
    BY <1>7, <2>1, <2>2 DEF SelectConf, SetTop
<1>8. CASE PushDirective
  <2>1. stack # <<>>
    BY <1>8 DEF PushDirective, In
  <2>2. \E d \in Top.dirs : stack' = WithTop([Top EXCEPT !.dirs = @ \ {d}])
    BY <1>8 DEF PushDirective, SetTop
  <2>3. ASSUME NEW d \in Top.dirs
        PROVE  LET f == [Top EXCEPT !.dirs = @ \ {d}]
               IN  f \in Frame /\ f.ctx = Top.ctx /\ f.kids = Top.kids
    BY <2>1, FrameTypes DEF Frame
  <2> QED
    BY <2>1, <2>2, <2>3
<1>9. CASE DirectivesDone
  <2>1. stack # <<>>
    BY <1>9 DEF DirectivesDone, In
  <2>2. LET f == [Top EXCEPT !.at = "ctxs"]
        IN  f \in Frame /\ f.ctx = Top.ctx /\ f.kids = Top.kids
    BY <2>1, FrameTypes DEF Frame
  <2> QED
    BY <1>9, <2>1, <2>2 DEF DirectivesDone, SetTop
<1>10. CASE SelectCtxs
  <2>1. stack # <<>>
    BY <1>10 DEF SelectCtxs, In
  <2>2. LET f == [Top EXCEPT !.at = "loop", !.kids = KidsOf(Now, Top.ctx)]
        IN  f \in Frame /\ f.ctx = Top.ctx /\ f.kids = KidsOf(Now, Top.ctx)
    BY <2>1, FrameTypes, TableTypes DEF Frame
  <2> QED
    BY <1>10, <2>1, <2>2 DEF SelectCtxs, SetTop
<1>11. CASE EnterCtx
  BY <1>11 DEF EnterCtx, In
<1> QED
  BY <1>1, <1>2, <1>3, <1>4, <1>5, <1>6, <1>7, <1>8, <1>9, <1>10, <1>11
     DEF Next, Step, Walk

LEMMA ChainNext ==
  ASSUME TypeOK, Treelike, Chain, [Next]_vars
  PROVE  Chain'
<1> USE DEF Treelike
<1>1. history' = history
  BY DEF Next, Step, Walk, vars, db, CheckModule, LoadBackend, Prepare, DefineConn,
       OpenConn, Hook, RootFailed, SelectRoot, CloseConn, CleanUp, Commit, ReadRow,
       ReadRowFailed, NullValue, RowVanished, SelectConf, PushDirective,
       DirectivesDone, SelectCtxs, EnterCtx, StackOverflow, SelectFailed, LeaveCtx,
       Undisturbed
<1>2. \A c, p : ChildOf(c, p)' <=> ChildOf(c, p)
  BY <1>1 DEF ChildOf
<1>3. CASE stack' = stack
  BY <1>2, <1>3 DEF Chain
<1>4. CASE stack # <<>> /\ stack' = Pop
  <2>1. /\ Len(stack') = Len(stack) - 1
        /\ \A i \in 1..(Len(stack) - 1) : stack'[i] = stack[i]
        /\ stack' \in Seq(Frame)
    BY <1>4, LastDropped DEF TypeOK, Pop
  <2>2. Len(stack) \in Nat \ {0} /\ (stack' # <<>> => 1 \in 1..(Len(stack) - 1))
    BY <1>4, <2>1, FrameTypes
  <2>3. \A i \in 1..Len(stack') : i \in 1..Len(stack) /\ stack'[i] = stack[i]
    BY <2>1, <2>2
  <2>4. \A i \in 2..Len(stack') : /\ i \in 2..Len(stack) /\ stack'[i] = stack[i]
                               /\ stack'[i - 1] = stack[i - 1]
    BY <2>1, <2>2
  <2>5. stack' # <<>> => stack'[1].ctx = ZeroId \/ ChildOf(stack'[1].ctx, NoCtx)
    BY <1>4, <2>1, <2>2 DEF Chain
  <2>6. \A i \in 2..Len(stack') : ChildOf(stack'[i].ctx, stack'[i - 1].ctx)
    BY <2>4 DEF Chain
  <2>7. /\ \A i \in 1..Len(stack') : \A k \in stack'[i].kids : ChildOf(k.id, stack'[i].ctx)
        /\ \A i, j \in 1..Len(stack') : stack'[i].ctx = stack'[j].ctx => i = j
    BY <2>3 DEF Chain
  <2> QED
    BY <1>2, <2>5, <2>6, <2>7 DEF Chain
<1>5. CASE stack # <<>> /\ \E f \in Frame :
             /\ stack' = WithTop(f)
             /\ f.ctx = Top.ctx
             /\ f.kids \subseteq Top.kids \union KidsOf(Now, Top.ctx)
  <2>1. PICK f \in Frame : /\ stack' = WithTop(f)
                          /\ f.ctx = Top.ctx
                          /\ f.kids \subseteq Top.kids \union KidsOf(Now, Top.ctx)
    BY <1>5
  <2>2. /\ Len(stack') = Len(stack)
        /\ stack'[Len(stack)] = f
        /\ \A i \in 1..(Len(stack) - 1) : stack'[i] = stack[i]
        /\ stack' \in Seq(Frame)
    BY <1>5, <2>1, LastReplaced DEF TypeOK, WithTop
  <2>3. Len(stack) \in Nat \ {0} /\ \A i \in 1..Len(stack) : stack'[i].ctx = stack[i].ctx
    <3>1. Len(stack) \in Nat \ {0} /\ stack'[Len(stack)].ctx = stack[Len(stack)].ctx
      BY <1>5, <2>1, <2>2, FrameTypes DEF Top
    <3>2. \A i \in 1..Len(stack) : i = Len(stack) \/ i \in 1..(Len(stack) - 1)
      BY <3>1
    <3> QED
      BY <2>2, <3>1, <3>2
  <2>4. \A k \in f.kids : ChildOf(k.id, f.ctx)
    <3>1. \A k \in KidsOf(Now, Top.ctx) : ChildOf(k.id, Top.ctx)
      BY DEF TypeOK, KidsOf, Now, ChildOf
    <3>2. \A k \in Top.kids : ChildOf(k.id, Top.ctx)
      BY <2>3 DEF Chain, Top
    <3> QED
      BY <2>1, <3>1, <3>2
  <2>5. \A i \in 1..Len(stack') : \A k \in stack'[i].kids : ChildOf(k.id, stack'[i].ctx)
    BY <2>2, <2>3, <2>4 DEF Chain
  <2>6. /\ stack' # <<>> => stack'[1].ctx = ZeroId \/ ChildOf(stack'[1].ctx, NoCtx)
        /\ \A i \in 2..Len(stack') : ChildOf(stack'[i].ctx, stack'[i - 1].ctx)
        /\ \A i, j \in 1..Len(stack') : stack'[i].ctx = stack'[j].ctx => i = j
    BY <1>5, <2>2, <2>3 DEF Chain
  <2> QED
    BY <1>2, <2>5, <2>6 DEF Chain
<1>6. CASE stack # <<>> /\ \E k \in Top.kids :
             stack' = Append(WithTop([Top EXCEPT !.kids = @ \ {k}]), NewFrame(k.id))
  <2>1. PICK k \in Top.kids :
          stack' = Append(WithTop([Top EXCEPT !.kids = @ \ {k}]), NewFrame(k.id))
    BY <1>6
  <2> DEFINE f == [Top EXCEPT !.kids = @ \ {k}]
             n == Len(stack)
  <2>2. n \in Nat \ {0} /\ f \in Frame /\ f.ctx = Top.ctx /\ f.kids \subseteq Top.kids
        /\ k \in Row
    BY <1>6, FrameTypes DEF Frame
  <2>3. NewFrame(k.id) \in Frame /\ NewFrame(k.id).ctx = k.id /\ NewFrame(k.id).kids = {}
    BY <2>2, LineTypes DEF NewFrame, Row
  <2>4. stack' = Append([stack EXCEPT ![Len(stack)] = f], NewFrame(k.id))
    BY <2>1 DEF WithTop
  <2>5. /\ Len(stack') = n + 1
        /\ stack'[n + 1] = NewFrame(k.id)
        /\ stack'[n] = f
        /\ \A i \in 1..(n - 1) : stack'[i] = stack[i]
    <3> DEFINE t == Append([stack EXCEPT ![Len(stack)] = f], NewFrame(k.id))
    <3> HIDE DEF f
    <3>1. stack \in Seq(Frame)
      BY DEF TypeOK
    <3>2. /\ Len(t) = Len(stack) + 1
          /\ t[Len(stack) + 1] = NewFrame(k.id) /\ t[Len(stack)] = f
          /\ \A i \in 1..(Len(stack) - 1) : t[i] = stack[i]
      BY <1>6, <2>2, <2>3, <3>1, LastReplacedAndAdded
    <3>3. stack' = t
      BY <2>4
    <3> HIDE DEF t
    <3> QED
      BY <3>2, <3>3
  <2>6. /\ \A i \in 1..n : stack'[i].ctx = stack[i].ctx /\ stack'[i].kids \subseteq stack[i].kids
        /\ stack'[n + 1].ctx = k.id /\ stack'[n + 1].kids = {}
    <3>1. stack[n] = Top
      BY DEF Top
    <3> HIDE DEF f, n
    <3>2. \A i \in 1..n : i = n \/ i \in 1..(n - 1)
      BY <2>2
    <3> QED
      BY <2>2, <2>3, <2>5, <3>1, <3>2
  <2>7. ChildOf(k.id, stack[n].ctx)
    BY <2>2 DEF Chain, Top
  <2>8. ASSUME NEW j \in 1..n, stack[j].ctx = k.id PROVE FALSE
    <3>1. k.id \in Ctx /\ stack[n].ctx \in Ctx \union {ZeroId}
      BY <2>2, FrameTypes, <1>6 DEF Row, Frame, Top
    <3>2. CASE j = 1
      <4>1. ChildOf(k.id, NoCtx)
        BY <2>8, <3>1, <3>2, <1>6, ReadDbAssumption DEF Chain
      <4>2. stack[n].ctx = NoCtx
        BY <2>7, <4>1, OneParent
      <4> QED
        BY <3>1, <4>2, ReadDbAssumption
    <3>3. CASE j \in 2..n
      <4>1. ChildOf(k.id, stack[j - 1].ctx)
        BY <2>8, <3>3 DEF Chain
      <4>2. stack[n].ctx = stack[j - 1].ctx
        BY <2>7, <4>1, OneParent
      <4> QED
        BY <2>2, <3>3, <4>2 DEF Chain
    <3> QED
      BY <2>2, <3>2, <3>3
  <2> HIDE DEF f, n
  <2>9. /\ stack'[1].ctx = ZeroId \/ ChildOf(stack'[1].ctx, NoCtx)
        /\ \A i \in 2..(n + 1) : ChildOf(stack'[i].ctx, stack'[i - 1].ctx)
    <3>1. stack'[1].ctx = stack[1].ctx
      BY <2>2, <2>6
    <3>2. stack'[n + 1].ctx = k.id /\ stack'[n].ctx = stack[n].ctx
      BY <2>2, <2>6
    <3>3. \A i \in 2..n : stack'[i].ctx = stack[i].ctx /\ stack'[i - 1].ctx = stack[i - 1].ctx
      BY <2>2, <2>6
    <3>4. \A i \in 2..(n + 1) : i \in 2..n \/ (i = n + 1 /\ i - 1 = n)
      BY <2>2
    <3>5. \A i \in 2..n : ChildOf(stack[i].ctx, stack[i - 1].ctx)
      BY DEF Chain, n
    <3> QED
      BY <1>6, <2>7, <3>1, <3>2, <3>3, <3>4, <3>5 DEF Chain
  <2>10. \A i \in 1..(n + 1) : \A r \in stack'[i].kids : ChildOf(r.id, stack'[i].ctx)
    BY <2>2, <2>6 DEF Chain, n
  <2>11. \A i, j \in 1..(n + 1) : stack'[i].ctx = stack'[j].ctx => i = j
    BY <2>2, <2>6, <2>8 DEF Chain, n
  <2> QED
    BY <1>2, <2>5, <2>9, <2>10, <2>11 DEF Chain
<1>7. CASE \E id \in RootIds \union {ZeroId} : stack' = <<NewFrame(id)>>
  <2>1. PICK id \in RootIds \union {ZeroId} : stack' = <<NewFrame(id)>>
    BY <1>7
  <2>2. id = ZeroId \/ ChildOf(id, NoCtx)
    BY DEF TypeOK, RootIds, RootRows, Now, ChildOf, FromNull
  <2>3. Len(stack') = 1 /\ stack'[1].ctx = id /\ stack'[1].kids = {}
    BY <2>1 DEF NewFrame
  <2> QED
    BY <1>2, <2>2, <2>3 DEF Chain
<1> QED
  BY StackSteps, <1>3, <1>4, <1>5, <1>6, <1>7

LEMMA TreelikeNext == Treelike' /\ [Next]_vars => Treelike
<1> SUFFICES ASSUME [Next]_vars PROVE history' = history /\ base' = base
  BY DEF Treelike, FixedParents, FromNull
<1> QED
  BY DEF Next, Step, Walk, vars, db, CheckModule, LoadBackend, Prepare, DefineConn,
       OpenConn, Hook, RootFailed, SelectRoot, CloseConn, CleanUp, Commit, ReadRow,
       ReadRowFailed, NullValue, RowVanished, SelectConf, PushDirective,
       DirectivesDone, SelectCtxs, EnterCtx, StackOverflow, SelectFailed, LeaveCtx,
       Undisturbed

(* No context is entered while it is being read, from a base without a      *)
(* parent, whatever other clients add, delete and rename meanwhile.         *)
THEOREM NeverReentered == Spec => []NoReentry
<1>1. Init => (Treelike => Chain)
  BY DEF Init, Chain
<1>2. TypeOK /\ (Treelike => Chain) /\ [Next]_vars => (Treelike => Chain)'
  BY ChainNext, TreelikeNext
<1>3. TypeOK /\ (Treelike => Chain) => NoReentry
  BY DEF NoReentry, Chain, Treelike, TypeOK
<1> QED
  BY <1>1, <1>2, <1>3, TypeCorrect, PTL DEF Spec

(* Hence the recursion needs no more activations than there are contexts,   *)
(* plus one for the id 0 of an empty root result.                           *)
THEOREM DepthBounded ==
  IsFiniteSet(Ctx) =>
    (Spec => [](FixedParents /\ FromNull => Len(stack) <= Cardinality(Ctx) + 1))
<1> SUFFICES ASSUME IsFiniteSet(Ctx)
             PROVE  Spec => [](FixedParents /\ FromNull => Len(stack) <= Cardinality(Ctx) + 1)
  OBVIOUS
<1>1. IsFiniteSet(Ctx \union {ZeroId}) /\ Cardinality(Ctx \union {ZeroId}) = Cardinality(Ctx) + 1
  BY FS_AddElement, ReadDbAssumption
<1>2. ASSUME TypeOK, NoReentry, FixedParents /\ FromNull
      PROVE  Len(stack) <= Cardinality(Ctx) + 1
  <2> DEFINE n == Len(stack)
             T == Ctx \union {ZeroId}
             g == [i \in 1..n |-> stack[i].ctx]
  <2>1. n \in Nat /\ \A i \in 1..n : stack[i].ctx \in T
    <3>1. n \in Nat /\ \A i \in 1..n : stack[i] \in Frame
      BY <1>2 DEF TypeOK
    <3> QED
      BY <3>1 DEF Frame
  <2>2. \A i, j \in 1..n : stack[i].ctx = stack[j].ctx => i = j
    BY <1>2 DEF NoReentry, TypeOK
  <2>3. g \in Injection(1..n, T)
    BY <2>1, <2>2 DEF Injection, IsInjective
  <2>4. IsFiniteSet(T) /\ Cardinality(T) = Cardinality(Ctx) + 1
    BY <1>1
  <2> HIDE DEF n, T, g
  <2>5. Cardinality(1..n) <= Cardinality(T)
    BY <2>3, <2>4, FS_Injection
  <2>6. Cardinality(1..n) = n
    <3>1. Cardinality(1..n) = IF 1 > n THEN 0 ELSE n - 1 + 1
      BY <2>1, FS_Interval
    <3>2. (1 > n => n = 0) /\ n - 1 + 1 = n
      BY <2>1
    <3> QED
      BY <3>1, <3>2
  <2> QED
    BY <2>4, <2>5, <2>6 DEF n
<1>3. TypeOK /\ NoReentry => (FixedParents /\ FromNull => Len(stack) <= Cardinality(Ctx) + 1)
  BY <1>2
<1> QED
  BY <1>3, TypeCorrect, NeverReentered, PTL

-----------------------------------------------------------------------------
(* The scope of the directives.  They are pushed by the innermost frame      *)
(* between its opening tag and its first sub-context, so the lines of this   *)
(* frame end the array as long as it is at them.                             *)

Tagless == {"vanished", "unnamed"}

LastIs(c) ==
  /\ lines # <<>>
  /\ lines[Len(lines)].kind \in {"open", "dir"}
  /\ lines[Len(lines)].ctx = c

OnlyDirsOf(c) == \A j \in DOMAIN lines : IsDir(j) /\ lines[j].ctx = c

DirsInScope ==
  \A k \in DOMAIN lines : IsDir(k) =>
    \/ /\ k > 1
       /\ lines[k - 1].kind \in {"open", "dir"}
       /\ lines[k - 1].ctx = lines[k].ctx
    \/ \A j \in 1..k : IsDir(j) /\ lines[j].ctx = lines[k].ctx

(* The lines are ready for the directives of the innermost frame. *)
Ready ==
  /\ Top.at = "row" /\ Len(stack) = 1 => lines = <<>>
  /\ Top.at \in {"conf", "push"} =>
       IF Len(stack) = 1 THEN OnlyDirsOf(Top.ctx) ELSE LastIs(Top.ctx)

Placed ==
  /\ \A i \in 1..(Len(stack) - 1) : stack[i].at = "loop"
  /\ pc \in {"module", "load", "prepare", "define", "open", "root"} =>
       stack = <<>> /\ lines = <<>>
  /\ trouble \intersect Tagless = {} =>
       /\ stack # <<>> => Ready
       /\ DirsInScope

LEMMA LineAdded ==
  ASSUME TypeOK, DirsInScope, NEW x \in Line, lines' = Append(lines, x),
         x.kind = "dir" => LastIs(x.ctx) \/ OnlyDirsOf(x.ctx)
  PROVE  DirsInScope'
<1> DEFINE n == Len(lines)
<1>1. /\ n \in Nat /\ Len(lines') = n + 1 /\ lines'[n + 1] = x
      /\ \A i \in 1..n : lines'[i] = lines[i]
      /\ DOMAIN lines = 1..n /\ DOMAIN lines' = 1..(n + 1)
  BY DEF TypeOK
<1> SUFFICES ASSUME NEW k \in 1..(n + 1), lines'[k].kind = "dir"
             PROVE  \/ /\ k > 1
                       /\ lines'[k - 1].kind \in {"open", "dir"}
                       /\ lines'[k - 1].ctx = lines'[k].ctx
                    \/ \A j \in 1..k : lines'[j].kind = "dir" /\ lines'[j].ctx = lines'[k].ctx
  BY <1>1 DEF DirsInScope, IsDir
<1> HIDE DEF n
<1>2. CASE k \in 1..n
  <2>1. /\ lines'[k] = lines[k]
        /\ k > 1 => lines'[k - 1] = lines[k - 1]
        /\ \A j \in 1..k : lines'[j] = lines[j]
    BY <1>1, <1>2
  <2>2. \/ /\ k > 1
           /\ lines[k - 1].kind \in {"open", "dir"}
           /\ lines[k - 1].ctx = lines[k].ctx
        \/ \A j \in 1..k : lines[j].kind = "dir" /\ lines[j].ctx = lines[k].ctx
    BY <1>1, <1>2, <2>1 DEF DirsInScope, IsDir
  <2> QED
    BY <2>1, <2>2
<1>3. CASE k = n + 1
  <2>1. CASE LastIs(x.ctx)
    <3>1. n > 0
      BY <1>1, <2>1 DEF LastIs, TypeOK, n
    <3>2. k > 1 /\ k - 1 = n /\ lines'[n] = lines[n]
      BY <1>1, <1>3, <3>1
    <3> QED
      BY <1>1, <1>3, <2>1, <3>2 DEF LastIs, n
  <2>2. CASE OnlyDirsOf(x.ctx)
    <3>1. \A j \in 1..n : lines'[j].kind = "dir" /\ lines'[j].ctx = x.ctx
      BY <1>1, <2>2 DEF OnlyDirsOf, IsDir
    <3>2. \A j \in 1..k : j \in 1..n \/ j = n + 1
      BY <1>1, <1>3
    <3> QED
      BY <1>1, <1>3, <3>1, <3>2
  <2> QED
    BY <1>1, <1>3, <2>1, <2>2
<1> QED
  BY <1>1, <1>2, <1>3

(* What the innermost frame and those below are after each kind of step. *)
LEMMA TopReplaced ==
  ASSUME TypeOK, stack # <<>>, NEW f \in Frame, stack' = WithTop(f)
  PROVE  /\ stack' # <<>> /\ Len(stack') = Len(stack) /\ Top' = f
         /\ \A i \in 1..(Len(stack) - 1) : stack'[i] = stack[i]
<1>1. Len(stack) \in Nat \ {0}
  BY FrameTypes
<1>2. /\ stack' \in Seq(Frame) /\ Len(stack') = Len(stack) /\ stack'[Len(stack)] = f
      /\ \A i \in 1..(Len(stack) - 1) : stack'[i] = stack[i]
  BY LastReplaced DEF WithTop, TypeOK
<1> QED
  BY <1>1, <1>2 DEF Top

LEMMA TopDropped ==
  ASSUME TypeOK, Placed, stack # <<>>, stack' = Pop
  PROVE  /\ \A i \in 1..(Len(stack') - 1) : stack'[i].at = "loop"
         /\ stack' # <<>> => (Top.at)' = "loop"
<1>1. Len(stack) \in Nat \ {0}
  BY FrameTypes
<1>2. /\ stack' \in Seq(Frame) /\ Len(stack') = Len(stack) - 1
      /\ \A i \in 1..(Len(stack) - 1) : stack'[i] = stack[i]
  BY LastDropped DEF Pop, TypeOK
<1>3. \A i \in 1..(Len(stack) - 1) : stack'[i].at = "loop"
  BY <1>2 DEF Placed
<1>4. stack' # <<>> => Len(stack') \in 1..(Len(stack) - 1)
  BY <1>1, <1>2
<1>5. \A i \in 1..(Len(stack') - 1) : i \in 1..(Len(stack) - 1)
  BY <1>1, <1>2
<1> QED
  BY <1>3, <1>4, <1>5 DEF Top

LEMMA CtxAdded ==
  ASSUME TypeOK, Placed, stack # <<>>, Top.at = "loop", NEW k \in Top.kids,
         stack' = Append(WithTop([Top EXCEPT !.kids = @ \ {k}]), NewFrame(k.id))
  PROVE  /\ \A i \in 1..(Len(stack') - 1) : stack'[i].at = "loop"
         /\ Len(stack') # 1 /\ stack' # <<>> /\ (Top.at)' = "row"
<1> DEFINE f == [Top EXCEPT !.kids = @ \ {k}]
           x == NewFrame(k.id)
           n == Len(stack)
<1>1. n \in Nat \ {0} /\ f \in Frame /\ f.at = "loop" /\ x \in Frame /\ x.at = "row"
  BY FrameTypes, LineTypes DEF Frame, Row, NewFrame
<1>2. stack' = Append([stack EXCEPT ![Len(stack)] = f], x)
  BY DEF WithTop
<1> HIDE DEF f, x
<1>3. /\ stack' \in Seq(Frame) /\ Len(stack') = n + 1 /\ stack'[n + 1] = x /\ stack'[n] = f
      /\ \A i \in 1..(n - 1) : stack'[i] = stack[i]
  <2> DEFINE t == Append([stack EXCEPT ![Len(stack)] = f], x)
  <2>1. stack \in Seq(Frame)
    BY DEF TypeOK
  <2>2. /\ t \in Seq(Frame) /\ Len(t) = Len(stack) + 1
        /\ t[Len(stack) + 1] = x /\ t[Len(stack)] = f
        /\ \A i \in 1..(Len(stack) - 1) : t[i] = stack[i]
    BY <1>1, <2>1, LastReplacedAndAdded
  <2>3. stack' = t
    BY <1>2
  <2> HIDE DEF t
  <2> QED
    BY <2>2, <2>3
<1>4. \A i \in 1..(n - 1) : stack[i].at = "loop"
  BY DEF Placed
<1>5. \A i \in 1..n : stack'[i].at = "loop"
  <2>1. \A i \in 1..n : i = n \/ i \in 1..(n - 1)
    BY <1>1
  <2> HIDE DEF n
  <2> QED
    BY <1>1, <1>3, <1>4, <2>1
<1>6. (Top.at)' = "row"
  BY <1>1, <1>3 DEF Top
<1>7. n + 1 # 1 /\ (n + 1) - 1 = n /\ n + 1 # 0
  BY <1>1
<1>8. stack' # <<>>
  BY <1>3, <1>7
<1> QED
  <2> HIDE DEF n
  <2> QED BY <1>3, <1>5, <1>6, <1>7, <1>8

LEMMA PlacedWalk ==
  ASSUME TypeOK, Placed, Walk
  PROVE  Placed'
<1>0. /\ stack # <<>> /\ pc = "walk" /\ pc' \in {"walk", "crashed"}
      /\ trouble \subseteq trouble' /\ Len(stack) \in Nat \ {0}
  <2>1. stack # <<>> /\ pc = "walk" /\ pc' \in {"walk", "crashed"}
    BY DEF Walk, ReadRow, ReadRowFailed, NullValue, RowVanished, SelectConf,
         PushDirective, DirectivesDone, SelectCtxs, EnterCtx, StackOverflow,
         SelectFailed, LeaveCtx, In, Abandon, Crash
  <2>2. trouble \subseteq trouble'
    BY DEF Walk, ReadRow, ReadRowFailed, NullValue, RowVanished, SelectConf,
         PushDirective, DirectivesDone, SelectCtxs, EnterCtx, StackOverflow,
         SelectFailed, LeaveCtx, Fails, Note
  <2> QED
    BY <2>1, <2>2, FrameTypes
(* What is left to show, once the frames below the innermost are dealt with. *)
<1>1. ASSUME \A i \in 1..(Len(stack') - 1) : stack'[i].at = "loop",
             trouble' \intersect Tagless = {} => (stack' # <<>> => Ready') /\ DirsInScope'
      PROVE  Placed'
  BY <1>0, <1>1 DEF Placed
<1>2. trouble' \intersect Tagless = {} => Ready /\ DirsInScope
  BY <1>0 DEF Placed
<1>3. lines' = lines => (DirsInScope' <=> DirsInScope)
  BY DEF DirsInScope, IsDir
<1>4. \A i \in 1..(Len(stack) - 1) : stack[i].at = "loop"
  BY DEF Placed
<1>5. CASE stack' = stack /\ lines' = lines
  <2>1. Ready' <=> Ready
    BY <1>5 DEF Ready, Top, OnlyDirsOf, LastIs, IsDir
  <2> QED
    BY <1>1, <1>2, <1>3, <1>4, <1>5, <2>1
<1>6. CASE stack' = Pop /\ lines' = lines
  <2>1. Ready' \/ stack' = <<>>
    BY <1>0, <1>6, TopDropped DEF Ready
  <2> QED
    BY <1>0, <1>1, <1>2, <1>3, <1>6, <2>1, TopDropped
<1>7. CASE LeaveCtx
  <2>1. stack' = Pop
    BY <1>7 DEF LeaveCtx
  <2>2. Ready' \/ stack' = <<>>
    BY <1>0, <2>1, TopDropped DEF Ready
  <2>3. DirsInScope => DirsInScope'
    <3>1. CASE lines' = lines
      BY <1>3, <3>1
    <3>2. CASE lines' = Append(lines, CloseTag(Top.ctx))
      <4>1. CloseTag(Top.ctx) \in Line /\ CloseTag(Top.ctx).kind = "close"
        BY <1>0, FrameTypes, LineTypes DEF Frame, CloseTag
      <4> QED
        BY <3>2, <4>1, LineAdded
    <3> QED
      BY <1>7, <3>1, <3>2 DEF LeaveCtx
  <2> QED
    BY <1>0, <1>1, <1>2, <2>1, <2>2, <2>3, TopDropped
<1>8. CASE ReadRow
  <2>1. PICK r \in Row :
          /\ lines' = IF IsTagged(r) THEN Append(lines, OpenTag(Top.ctx)) ELSE lines
          /\ stack' = WithTop([Top EXCEPT !.at = "conf", !.tagged = IsTagged(r)])
          /\ IsNamed(r) \/ trouble' = trouble \union {"unnamed"}
    BY <1>8, TableTypes DEF ReadRow, SetTop, Note
  <2>2. Top.at = "row" /\ Top \in Frame
    BY <1>0, <1>8, FrameTypes DEF ReadRow, In
  <2>3. /\ stack' # <<>> /\ Len(stack') = Len(stack)
        /\ (Top.at)' = "conf" /\ (Top.ctx)' = Top.ctx
        /\ \A i \in 1..(Len(stack) - 1) : stack'[i] = stack[i]
    <3> DEFINE f == [Top EXCEPT !.at = "conf", !.tagged = IsTagged(r)]
    <3>1. f \in Frame /\ f.at = "conf" /\ f.ctx = Top.ctx
      BY <2>2 DEF Frame, IsTagged
    <3>2. stack' = WithTop(f)
      BY <2>1
    <3> HIDE DEF f
    <3> QED
      BY <1>0, <3>1, <3>2, TopReplaced
  <2>4. OpenTag(Top.ctx) \in Line /\ OpenTag(Top.ctx).kind = "open" /\ OpenTag(Top.ctx).ctx = Top.ctx
    BY <2>2, LineTypes DEF Frame, OpenTag
  <2>5. DirsInScope => DirsInScope'
    BY <1>3, <2>1, <2>4, LineAdded
  <2>6. ASSUME trouble' \intersect Tagless = {}
        PROVE  Ready'
    <3>1. IsNamed(r)
      BY <2>1, <2>6 DEF Tagless
    <3>2. CASE Len(stack) = 1
      <4>1. lines' = <<>>
        BY <1>2, <2>1, <2>2, <2>6, <3>2 DEF IsTagged, Ready
      <4> QED
        BY <2>3, <3>2, <4>1 DEF Ready, OnlyDirsOf
    <3>3. CASE Len(stack) # 1
      <4>1. lines' = Append(lines, OpenTag(Top.ctx))
        BY <2>1, <3>1, <3>3 DEF IsTagged
      <4>2. LastIs(Top.ctx)'
        BY <2>3, <2>4, <4>1 DEF LastIs, TypeOK
      <4> QED
        BY <2>3, <3>3, <4>2 DEF Ready
    <3> QED
      BY <3>2, <3>3
  <2> QED
    BY <1>1, <1>2, <1>4, <2>3, <2>5, <2>6
<1>9. CASE RowVanished /\ pc' = "walk"
  <2>1. "vanished" \in trouble' /\ stack' = WithTop([Top EXCEPT !.at = "conf"])
    BY <1>9 DEF RowVanished, Crash, SetTop, Note
  <2>2. [Top EXCEPT !.at = "conf"] \in Frame
    BY <1>0, FrameTypes DEF Frame
  <2>3. \A i \in 1..(Len(stack') - 1) : stack'[i].at = "loop"
    BY <1>0, <1>4, <2>1, <2>2, TopReplaced
  <2> QED
    BY <1>1, <2>1, <2>3 DEF Tagless
<1>10. CASE SelectConf
  <2> DEFINE f == [Top EXCEPT !.at = "push", !.dirs = DirsOf(Now, Top.ctx)]
  <2>1. Top.at = "conf" /\ stack' = WithTop(f) /\ lines' = lines
    BY <1>10 DEF SelectConf, In, SetTop
  <2>2. f \in Frame /\ f.at = "push" /\ f.ctx = Top.ctx
    BY <1>0, FrameTypes, TableTypes DEF Frame
  <2> HIDE DEF f
  <2>3. /\ stack' # <<>> /\ Len(stack') = Len(stack) /\ Top' = f
        /\ \A i \in 1..(Len(stack) - 1) : stack'[i] = stack[i]
    BY <1>0, <2>1, <2>2, TopReplaced
  <2>4. Ready => Ready'
    BY <2>1, <2>2, <2>3 DEF Ready, OnlyDirsOf, LastIs, IsDir
  <2> QED
    BY <1>1, <1>2, <1>3, <1>4, <2>1, <2>3, <2>4
<1>11. CASE PushDirective
  <2>1. PICK d \in Top.dirs : /\ lines' = Append(lines, DirLine(Top.ctx, d))
                             /\ stack' = WithTop([Top EXCEPT !.dirs = @ \ {d}])
    BY <1>11 DEF PushDirective, SetTop
  <2> DEFINE f == [Top EXCEPT !.dirs = @ \ {d}]
             x == DirLine(Top.ctx, d)
  <2>2. Top.at = "push" /\ f \in Frame /\ f.at = "push" /\ f.ctx = Top.ctx
    BY <1>0, <1>11, FrameTypes DEF PushDirective, In, Frame
  <2>3. x \in Line /\ x.kind = "dir" /\ x.ctx = Top.ctx
    BY <1>0, <2>1, FrameTypes, LineTypes DEF Frame, DirLine
  <2>4. stack' = WithTop(f) /\ lines' = Append(lines, x)
    BY <2>1
  <2> HIDE DEF f, x
  <2>5. /\ stack' # <<>> /\ Len(stack') = Len(stack) /\ Top' = f
        /\ \A i \in 1..(Len(stack) - 1) : stack'[i] = stack[i]
    BY <1>0, <2>2, <2>4, TopReplaced
  <2>6. Ready /\ DirsInScope => DirsInScope'
    BY <2>2, <2>3, <2>4, LineAdded DEF Ready
  <2>7. Ready => Ready'
    <3>1. Len(lines) \in Nat /\ Len(lines') = Len(lines) + 1 /\ lines'[Len(lines) + 1] = x
          /\ DOMAIN lines' = 1..(Len(lines) + 1) /\ DOMAIN lines = 1..Len(lines)
          /\ \A j \in 1..Len(lines) : lines'[j] = lines[j]
      BY <2>3, <2>4 DEF TypeOK
    <3>2. LastIs(Top.ctx)'
      BY <2>2, <2>3, <2>5, <3>1 DEF LastIs
    <3>3. OnlyDirsOf(Top.ctx) => OnlyDirsOf(Top.ctx)'
      <4>1. \A j \in DOMAIN lines' : j \in DOMAIN lines \/ j = Len(lines) + 1
        BY <3>1
      <4> QED
        BY <2>2, <2>3, <2>5, <3>1, <4>1 DEF OnlyDirsOf, IsDir
    <3> QED
      BY <2>2, <2>5, <3>2, <3>3 DEF Ready
  <2> QED
    BY <1>1, <1>2, <1>4, <2>5, <2>6, <2>7
<1>12. CASE DirectivesDone \/ SelectCtxs
  <2>1. lines' = lines /\ \E f \in Frame : stack' = WithTop(f) /\ f.at \in {"ctxs", "loop"}
    <3>1. [Top EXCEPT !.at = "ctxs"] \in Frame /\ [Top EXCEPT !.at = "ctxs"].at = "ctxs"
      BY <1>0, FrameTypes DEF Frame
    <3>2. LET f == [Top EXCEPT !.at = "loop", !.kids = KidsOf(Now, Top.ctx)]
          IN  f \in Frame /\ f.at = "loop"
      BY <1>0, FrameTypes, TableTypes DEF Frame
    <3> QED
      BY <1>12, <3>1, <3>2 DEF DirectivesDone, SelectCtxs, SetTop
  <2>2. /\ stack' # <<>> /\ Len(stack') = Len(stack) /\ (Top.at)' \in {"ctxs", "loop"}
        /\ \A i \in 1..(Len(stack) - 1) : stack'[i] = stack[i]
    BY <1>0, <2>1, TopReplaced
  <2>3. Ready'
    BY <2>2 DEF Ready
  <2> QED
    BY <1>1, <1>2, <1>3, <1>4, <2>1, <2>2, <2>3
<1>13. CASE EnterCtx
  <2>1. /\ lines' = lines /\ Top.at = "loop"
        /\ \E k \in Top.kids :
             stack' = Append(WithTop([Top EXCEPT !.kids = @ \ {k}]), NewFrame(k.id))
    BY <1>13 DEF EnterCtx, In
  <2>2. /\ \A i \in 1..(Len(stack') - 1) : stack'[i].at = "loop"
        /\ Len(stack') # 1 /\ stack' # <<>> /\ (Top.at)' = "row"
    BY <1>0, <2>1, CtxAdded
  <2>3. Ready'
    BY <2>2 DEF Ready
  <2> QED
    BY <1>1, <1>2, <1>3, <2>1, <2>2, <2>3
<1> QED
  <2>1. CASE NullValue \/ StackOverflow \/ (RowVanished /\ pc' # "walk")
    <3>1. stack' = stack /\ lines' = lines
      <4>1. CASE NullValue \/ StackOverflow
        BY <4>1 DEF NullValue, StackOverflow, Crash
      <4>2. CASE RowVanished /\ pc' # "walk"
        <5>1. pc' # pc
          BY <1>0, <4>2
        <5> QED
          BY <4>2, <5>1 DEF RowVanished, Crash
      <4> QED
        BY <2>1, <4>1, <4>2
    <3> QED
      BY <1>5, <3>1
  <2>2. CASE ReadRowFailed \/ SelectFailed
    BY <1>6, <2>2 DEF ReadRowFailed, SelectFailed, Abandon
  <2> QED
    BY <1>7, <1>8, <1>9, <1>10, <1>11, <1>12, <1>13, <2>1, <2>2 DEF Walk

LEMMA PlacedNext == TypeOK /\ Placed /\ [Next]_vars => Placed'
<1> SUFFICES ASSUME TypeOK, Placed, [Next]_vars PROVE Placed'
  OBVIOUS
<1>1. CASE Walk
  BY <1>1, PlacedWalk
<1>2. CASE SelectRoot
  <2>1. /\ stack = <<>> /\ lines = <<>> /\ lines' = lines /\ pc' = "walk"
        /\ stack' = stack \/ \E c : stack' = <<NewFrame(c)>>
    BY <1>2 DEF SelectRoot, Placed
  <2>2. DirsInScope'
    BY <2>1 DEF DirsInScope
  <2>3. CASE stack' = stack
    BY <2>1, <2>2, <2>3 DEF Placed
  <2>4. CASE \E c : stack' = <<NewFrame(c)>>
    <3>1. Len(stack') = 1 /\ (Top.at)' = "row"
      BY <2>4 DEF Top, NewFrame
    <3>2. Ready'
      BY <2>1, <3>1 DEF Ready
    <3> QED
      BY <2>1, <2>2, <3>1, <3>2 DEF Placed
  <2> QED
    BY <2>1, <2>3, <2>4
<1>3. CASE stack' = stack /\ lines' = lines /\ trouble \subseteq trouble'
           /\ (pc' \in {"module", "load", "prepare", "define", "open", "root"} =>
                pc \in {"module", "load", "prepare", "define", "open", "root"})
  <2>1. Ready' <=> Ready
    BY <1>3 DEF Ready, Top, OnlyDirsOf, LastIs, IsDir
  <2>2. DirsInScope' <=> DirsInScope
    BY <1>3 DEF DirsInScope, IsDir
  <2> QED
    BY <1>3, <2>1, <2>2 DEF Placed
<1>4. CASE CheckModule BY <1>3, <1>4 DEF CheckModule, Hook, Fails, Note, Return
<1>5. CASE LoadBackend BY <1>3, <1>5 DEF LoadBackend, Hook, Fails, Note, Return
<1>6. CASE Prepare BY <1>3, <1>6 DEF Prepare, Hook, Fails, Note, Return
<1>7. CASE DefineConn BY <1>3, <1>7 DEF DefineConn, Hook, Fails, Note, Return
<1>8. CASE OpenConn BY <1>3, <1>8 DEF OpenConn, Hook, Fails, Note, Return
<1>9. CASE RootFailed BY <1>3, <1>9 DEF RootFailed, Fails, Note
<1>10. CASE CloseConn BY <1>3, <1>10 DEF CloseConn, Fails, Note, Return
<1>11. CASE CleanUp BY <1>3, <1>11 DEF CleanUp, Fails, Note, Return
<1>12. CASE Commit BY <1>3, <1>12 DEF Commit
<1>13. CASE UNCHANGED vars BY <1>3, <1>13 DEF vars
<1> QED
  BY <1>1, <1>2, <1>4, <1>5, <1>6, <1>7, <1>8, <1>9, <1>10, <1>11, <1>12, <1>13
     DEF Next, Step

(* Whatever fails and whatever other clients commit, no directive ends up   *)
(* in a context it is not mapped to.                                        *)
THEOREM AlwaysInScope == Spec => []OwnScope
<1>1. Init => Placed
  BY DEF Init, Placed, DirsInScope
<1>2. Placed => OwnScope
  BY DEF Placed, DirsInScope, OwnScope, Tagless
<1> QED
  BY <1>1, <1>2, TypeCorrect, PlacedNext, PTL DEF Spec
=============================================================================
