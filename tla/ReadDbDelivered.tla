-------------------------- MODULE ReadDbDelivered --------------------------
(***************************************************************************)
(* What a read that nothing disturbs delivers: no line twice, each line    *)
(* inside the tags of its contexts, and the whole configuration; for every *)
(* database and every sequence of additions other clients commit while it  *)
(* runs.                                                                   *)
(***************************************************************************)
EXTENDS ReadDbProofs

-----------------------------------------------------------------------------
(* No line is put twice into the array, and the lines are nested as the      *)
(* contexts are nested in the tables: every tag and every directive is       *)
(* directly inside the context it belongs to, and a closing tag closes the   *)
(* innermost one.                                                            *)
(*                                                                           *)
(* The recursion keeps no record of where it was.  That it does not come     *)
(* back rests on the rows alone: a context has one parent, the sub-contexts  *)
(* of a context are asked for once, when no line is from below it, and those *)
(* still to be entered have not been seen.                                   *)
(*                                                                           *)
(* The tags no line closes are, from the outermost to the innermost, those   *)
(* of the frames of the recursion above the base that have read their row.   *)

Seen(x) == \E i \in DOMAIN lines : lines[i] = x

Distinct == \A i, j \in DOMAIN lines : lines[i] = lines[j] => i = j

Opened(c) == Seen(OpenTag(c))

OnStack(c) == \E i \in 1..Len(stack) : stack[i].ctx = c

Frames == {stack[i] : i \in 1..Len(stack)}

Visited(c) == Opened(c) \/ OnStack(c)

Bottom == stack[1].ctx

(* What a frame still has to do was not done. *)
Fresh(f) ==
  /\ f.kids \subseteq Last.ctxs
  /\ \A k \in f.kids : ~Visited(k.id)
  /\ f.tagged => Opened(f.ctx)
  /\ f.at = "row" => ~Opened(f.ctx)
  /\ f.at # "row" /\ f.ctx # Bottom => Opened(f.ctx)
  /\ f.at # "loop" => f.kids = {} /\ \A c : ChildOf(c, f.ctx) => ~Visited(c)
  /\ f.at \in {"row", "conf"} => \A d : ~Seen(DirLine(f.ctx, d))
  /\ f.at = "push" => \A d \in f.dirs : ~Seen(DirLine(f.ctx, d))

(* What the lines came from. *)
Grown ==
  /\ \A c : Opened(c) => \E p : ChildOf(c, p) /\ (Opened(p) \/ p = Bottom)
  /\ \A c, d : Seen(DirLine(c, d)) => Opened(c) \/ c = Bottom
  /\ \A c : Seen(CloseTag(c)) => Opened(c) /\ ~OnStack(c)

Once ==
  /\ Distinct
  /\ stack # <<>> => Grown /\ \A f \in Frames : Fresh(f)
-----------------------------------------------------------------------------
(* An orderly read. *)

LEMMA OrderlyTables ==
  ASSUME TypeOK, Orderly
  PROVE  /\ Treelike
         /\ \A v \in DOMAIN history : history[v].ctxs \subseteq Last.ctxs
         /\ Now.ctxs \subseteq Last.ctxs
<1>1. Len(history) \in DOMAIN history /\ \A v \in DOMAIN history : v <= Len(history)
  BY DEF TypeOK
<1>2. \A v \in DOMAIN history : history[v].ctxs \subseteq Last.ctxs
  BY <1>1 DEF Orderly, OnlyGrows, Last
<1>3. FixedParents
  BY <1>2 DEF Orderly, UniqueIds, FixedParents
<1>4. Now.ctxs \subseteq Last.ctxs
  BY <1>2 DEF Now, TypeOK
<1> QED
  BY <1>2, <1>3, <1>4 DEF Treelike, Orderly

LEMMA OrderlyNext ==
  ASSUME [Next]_vars
  PROVE  history' = history /\ (Orderly' => Orderly)
<1>1. history' = history /\ base' = base /\ trouble \subseteq trouble'
  BY DEF Next, Step, Walk, vars, db, CheckModule, LoadBackend, Prepare, DefineConn,
       OpenConn, Hook, RootFailed, SelectRoot, CloseConn, CleanUp, Commit, ReadRow,
       ReadRowFailed, NullValue, RowVanished, SelectConf, PushDirective,
       DirectivesDone, SelectCtxs, EnterCtx, StackOverflow, SelectFailed, LeaveCtx,
       Undisturbed, Note, Fails
<1> QED
  BY <1>1 DEF Orderly, OnlyGrows, UniqueIds, FromNull, Last

(* No context has no parent and a parent, or the id 0. *)
LEMMA NoParentOfRoot ==
  ASSUME TypeOK, FixedParents, NEW c, NEW p, ChildOf(c, p)
  PROVE  c \in Ctx /\ (ChildOf(c, NoCtx) => p = NoCtx)
<1>1. c \in Ctx
  <2>1. PICK v \in DOMAIN history : \E r \in history[v].ctxs : r.id = c
    BY DEF ChildOf
  <2>2. history[v] \in Table
    BY <2>1 DEF TypeOK
  <2> QED
    BY <2>1, <2>2 DEF Table, Row
<1> QED
  BY <1>1, OneParent

-----------------------------------------------------------------------------
(* What the lines and the stack show, after a step. *)

LEMMA SeenSame ==
  ASSUME lines' = lines
  PROVE  (\A x : Seen(x)' <=> Seen(x)) /\ (Distinct => Distinct')
  BY DEF Seen, Distinct

LEMMA SeenMore ==
  ASSUME TypeOK, NEW x \in Line, lines' = Append(lines, x)
  PROVE  /\ \A y : Seen(y)' <=> Seen(y) \/ y = x
         /\ Distinct /\ ~Seen(x) => Distinct'
<1> DEFINE n == Len(lines)
<1>1. /\ n \in Nat /\ DOMAIN lines = 1..n /\ DOMAIN lines' = 1..(n + 1)
      /\ lines'[n + 1] = x /\ \A i \in 1..n : lines'[i] = lines[i]
  BY DEF TypeOK
<1> HIDE DEF n
<1>2. \A i \in 1..(n + 1) : i \in 1..n \/ i = n + 1
  BY <1>1
<1>3. 1..n \subseteq 1..(n + 1) /\ n + 1 \in 1..(n + 1)
  BY <1>1
<1>4. ASSUME NEW y PROVE Seen(y)' <=> Seen(y) \/ y = x
  BY <1>1, <1>2, <1>3 DEF Seen
<1>5. ASSUME Distinct, ~Seen(x) PROVE Distinct'
  <2>1. \A i \in 1..n : lines[i] # x
    BY <1>1, <1>5 DEF Seen
  <2> QED
    BY <1>1, <1>2, <1>5, <2>1 DEF Distinct
<1> QED
  BY <1>4, <1>5

LEMMA DifferentTags ==
  /\ \A c, e : /\ OpenTag(c) = OpenTag(e) <=> c = e
               /\ CloseTag(c) = CloseTag(e) <=> c = e
               /\ OpenTag(c) # CloseTag(e) /\ CloseTag(c) # OpenTag(e)
  /\ \A c, e, d : /\ OpenTag(c) # DirLine(e, d) /\ DirLine(e, d) # OpenTag(c)
                  /\ CloseTag(c) # DirLine(e, d) /\ DirLine(e, d) # CloseTag(c)
  /\ \A c, e, d, g : DirLine(c, d) = DirLine(e, g) <=> c = e /\ d = g
<1>1. \A y : OpenTag(y).kind = "open" /\ OpenTag(y).ctx = y
  BY DEF OpenTag
<1>2. \A y : CloseTag(y).kind = "close" /\ CloseTag(y).ctx = y
  BY DEF CloseTag
<1>3. \A y, g : DirLine(y, g).kind = "dir" /\ DirLine(y, g).ctx = y /\ DirLine(y, g).dir = g
  BY DEF DirLine
<1> QED
  BY <1>1, <1>2, <1>3

(* The innermost frame moves on. *)
LEMMA MovedOn ==
  ASSUME TypeOK, stack # <<>>, NEW f \in Frame, stack' = WithTop(f), f.ctx = Top.ctx
  PROVE  /\ Bottom' = Bottom /\ \A c : OnStack(c)' <=> OnStack(c)
         /\ Len(stack') = Len(stack) /\ Len(stack) \in Nat \ {0} /\ stack' # <<>>
         /\ stack'[Len(stack)] = f
         /\ \A i \in 1..(Len(stack) - 1) : stack'[i] = stack[i]
<1> DEFINE n == Len(stack)
<1>1. /\ stack' # <<>> /\ Len(stack') = n /\ stack'[n] = f
      /\ \A i \in 1..(n - 1) : stack'[i] = stack[i]
  BY TopReplaced DEF Top
<1>2. n \in Nat \ {0}
  BY FrameTypes
<1>3. stack[n].ctx = f.ctx
  BY DEF Top
<1> HIDE DEF n
<1>4. \A i \in 1..n : i \in 1..(n - 1) \/ i = n
  BY <1>2
<1>5. \A i \in 1..n : stack'[i].ctx = stack[i].ctx
  BY <1>1, <1>3, <1>4
<1>6. 1 \in 1..n
  BY <1>2
<1> QED
  BY <1>1, <1>2, <1>5, <1>6 DEF OnStack, Bottom, n

(* The frames below are in their loops. *)
LEMMA OthersLoop ==
  ASSUME TypeOK, Placed, stack # <<>>, NEW f \in Frame, stack' = WithTop(f), f.ctx = Top.ctx
  PROVE  \A g \in Frames' : g = f \/ (g \in Frames /\ g.at = "loop")
<1> DEFINE n == Len(stack)
<1>1. /\ Len(stack') = n /\ n \in Nat \ {0} /\ stack'[n] = f
      /\ \A i \in 1..(n - 1) : stack'[i] = stack[i]
  BY MovedOn
<1>2. \A i \in 1..(n - 1) : stack[i].at = "loop"
  BY DEF Placed
<1>3. Frames' = {stack'[i] : i \in 1..n} /\ Frames = {stack[i] : i \in 1..n}
  BY <1>1 DEF Frames
<1> HIDE DEF n
<1>4. /\ \A i \in 1..n : i \in 1..(n - 1) \/ i = n
      /\ \A i \in 1..(n - 1) : i \in 1..n
  BY <1>1
<1> QED
  BY <1>1, <1>2, <1>3, <1>4

(* A frame that stays, when nothing it has to do is done by the step. *)
LEMMA StaysFresh ==
  ASSUME NEW f, Fresh(f), history' = history, Bottom' = Bottom,
         \A x : Seen(x) => Seen(x)',
         f.at = "row" => (Opened(f.ctx)' => Opened(f.ctx)),
         \A c : Visited(c)' => Visited(c) \/ (f.at = "loop" /\ \A k \in f.kids : k.id # c),
         \A d : Seen(DirLine(f.ctx, d))' => Seen(DirLine(f.ctx, d))
  PROVE  Fresh(f)'
<1>1. Last' = Last /\ \A c, p : ChildOf(c, p)' <=> ChildOf(c, p)
  BY DEF Last, ChildOf
<1>2. Opened(f.ctx) => Opened(f.ctx)'
  BY DEF Opened
<1> QED
  BY <1>1, <1>2 DEF Fresh
-----------------------------------------------------------------------------
(* The steps of the walk, in an orderly read. *)

(* The innermost frame moves on and no line is added. *)
LEMMA OnceMoved ==
  ASSUME TypeOK, Once, history' = history, stack # <<>>, lines' = lines,
         NEW f \in Frame, stack' = WithTop(f), f.ctx = Top.ctx,
         Fresh(Top) => Fresh(f)
  PROVE  Once'
<1> DEFINE n == Len(stack)
<1>1. /\ Bottom' = Bottom /\ \A c : OnStack(c)' <=> OnStack(c)
      /\ Len(stack') = n /\ n \in Nat \ {0} /\ stack'[n] = f
      /\ \A i \in 1..(n - 1) : stack'[i] = stack[i]
  BY MovedOn
<1>2. (\A x : Seen(x)' <=> Seen(x)) /\ (Distinct => Distinct')
  BY SeenSame
<1>3. \A c : (Opened(c)' <=> Opened(c)) /\ (Visited(c)' <=> Visited(c))
  BY <1>1, <1>2 DEF Opened, Visited
<1>4. \A g : Fresh(g) => Fresh(g)'
  BY <1>1, <1>2, <1>3, StaysFresh
<1>5. Top \in Frames /\ Frames' \subseteq Frames \union {f}
  <2> HIDE DEF n
  <2>1. \A i \in 1..n : i \in 1..(n - 1) \/ i = n
    BY <1>1
  <2>2. \A i \in 1..(n - 1) : i \in 1..n
    BY <1>1
  <2> QED
    BY <1>1, <2>1, <2>2 DEF Frames, Top, n
<1>6. Grown'
  <2>1. \A c, p : ChildOf(c, p)' <=> ChildOf(c, p)
    BY DEF ChildOf
  <2> QED
    BY <1>1, <1>2, <1>3, <2>1 DEF Once, Grown
<1>7. \A g \in Frames' : Fresh(g)'
  BY <1>4, <1>5 DEF Once
<1> QED
  BY <1>2, <1>6, <1>7 DEF Once
(* The opening tag of the innermost context. *)
LEMMA OnceTagged ==
  ASSUME TypeOK, Treelike, Chain, Placed, Once, history' = history, stack # <<>>,
         Len(stack) # 1, Top.at = "row", lines' = Append(lines, OpenTag(Top.ctx)),
         NEW f \in Frame, stack' = WithTop(f), f = [Top EXCEPT !.at = "conf", !.tagged = TRUE]
  PROVE  Once'
<1> DEFINE n == Len(stack)
<1>1. PICK c : c = Top.ctx
  OBVIOUS
<1>2. /\ Top \in Frame /\ Top \in Frames /\ f.ctx = c /\ f.at = "conf"
      /\ f.kids = Top.kids /\ f.dirs = Top.dirs
  BY <1>1, FrameTypes DEF Frame, Frames, Top
<1>3. /\ Bottom' = Bottom /\ \A y : OnStack(y)' <=> OnStack(y)
      /\ Len(stack') = n /\ n \in Nat \ {0} /\ stack'[n] = f
      /\ \A i \in 1..(n - 1) : stack'[i] = stack[i]
  BY <1>1, <1>2, MovedOn
<1>4. Fresh(Top) /\ Grown /\ Distinct
  BY <1>2 DEF Once
<1>5. ~Seen(OpenTag(c))
  BY <1>1, <1>4 DEF Fresh, Opened
<1>6. OpenTag(c) \in Line
  BY <1>1, <1>2, LineTypes DEF Frame
<1>7. (\A y : Seen(y)' <=> Seen(y) \/ y = OpenTag(c)) /\ Distinct'
  BY <1>1, <1>4, <1>5, <1>6, SeenMore
<1>8. \A y : /\ Opened(y)' <=> Opened(y) \/ y = c
             /\ Seen(CloseTag(y))' <=> Seen(CloseTag(y))
             /\ \A d : Seen(DirLine(y, d))' <=> Seen(DirLine(y, d))
  BY <1>7, DifferentTags DEF Opened
<1>9. OnStack(c) /\ \A y : Visited(y)' <=> Visited(y)
  <2>1. OnStack(c)
    BY <1>1, <1>3 DEF OnStack, Top
  <2> QED
    BY <1>3, <1>8, <2>1 DEF Visited
(* The frames below, which are in their loops. *)
<1>10. ASSUME NEW g \in Frames, g.at # "row" PROVE Fresh(g)'
  <2>1. Fresh(g)
    BY <1>10 DEF Once
  <2> QED
    BY <1>3, <1>7, <1>8, <1>9, <1>10, <2>1, StaysFresh
<1>11. Fresh(f)'
  <2>1. Last' = Last /\ \A y, p : ChildOf(y, p)' <=> ChildOf(y, p)
    BY DEF Last, ChildOf
  <2>2. Opened(c)'
    BY <1>8
  <2> QED
    BY <1>1, <1>2, <1>4, <1>8, <1>9, <2>1, <2>2 DEF Fresh
<1>12. \A g \in Frames' : g = f \/ (g \in Frames /\ g.at # "row")
  BY <1>1, <1>2, OthersLoop
(* The parent of the context is open, or the base. *)
<1>13. \E p : ChildOf(c, p) /\ (Opened(p) \/ p = Bottom)
  <2>1. n \in 2..n /\ n - 1 \in 1..(n - 1) /\ n - 1 \in 1..n
    BY <1>3
  <2>2. ChildOf(c, stack[n - 1].ctx)
    BY <1>1, <2>1 DEF Chain, Top
  <2>3. stack[n - 1].at = "loop" /\ stack[n - 1] \in Frames
    BY <2>1 DEF Placed, Frames
  <2>4. Fresh(stack[n - 1])
    BY <2>3 DEF Once
  <2>5. Opened(stack[n - 1].ctx) \/ stack[n - 1].ctx = Bottom
    BY <2>3, <2>4 DEF Fresh
  <2> QED
    BY <2>2, <2>5
<1>14. Grown'
  <2>1. \A y, p : ChildOf(y, p)' <=> ChildOf(y, p)
    BY DEF ChildOf
  <2> QED
    BY <1>3, <1>4, <1>8, <1>13, <2>1 DEF Grown
<1> QED
  BY <1>7, <1>10, <1>11, <1>12, <1>14 DEF Once

(* A directive of the innermost context. *)
LEMMA OncePushed ==
  ASSUME TypeOK, Placed, Once, history' = history, stack # <<>>,
         Top.at = "push", NEW e \in Top.dirs, lines' = Append(lines, DirLine(Top.ctx, e)),
         NEW f \in Frame, stack' = WithTop(f), f = [Top EXCEPT !.dirs = @ \ {e}]
  PROVE  Once'
<1> DEFINE n == Len(stack)
<1>1. PICK c : c = Top.ctx
  OBVIOUS
<1>2. /\ Top \in Frame /\ Top \in Frames /\ f.ctx = c /\ f.at = "push" /\ f.tagged = Top.tagged
      /\ f.kids = Top.kids /\ f.dirs = Top.dirs \ {e} /\ e \in Dir
  BY <1>1, FrameTypes DEF Frame, Frames, Top
<1>3. /\ Bottom' = Bottom /\ \A y : OnStack(y)' <=> OnStack(y)
      /\ Len(stack') = n /\ n \in Nat \ {0} /\ stack'[n] = f
      /\ \A i \in 1..(n - 1) : stack'[i] = stack[i]
  BY <1>1, <1>2, MovedOn
<1>4. Fresh(Top) /\ Grown /\ Distinct
  BY <1>2 DEF Once
<1>5. ~Seen(DirLine(c, e))
  BY <1>1, <1>4 DEF Fresh
<1>6. DirLine(c, e) \in Line
  BY <1>1, <1>2, LineTypes DEF Frame
<1>7. (\A y : Seen(y)' <=> Seen(y) \/ y = DirLine(c, e)) /\ Distinct'
  BY <1>1, <1>4, <1>5, <1>6, SeenMore
<1>8. \A y : /\ Opened(y)' <=> Opened(y)
             /\ Seen(CloseTag(y))' <=> Seen(CloseTag(y))
             /\ \A d : Seen(DirLine(y, d))' <=> Seen(DirLine(y, d)) \/ (y = c /\ d = e)
  BY <1>7, DifferentTags DEF Opened
<1>9. \A y : Visited(y)' <=> Visited(y)
  BY <1>3, <1>8 DEF Visited
<1>10. Last' = Last /\ \A y, p : ChildOf(y, p)' <=> ChildOf(y, p)
  BY DEF Last, ChildOf
(* The frames below, which have pushed theirs. *)
<1>11. ASSUME NEW g \in Frames, g.at = "loop" PROVE Fresh(g)'
  <2>1. Fresh(g)
    BY <1>11 DEF Once
  <2> QED
    BY <1>3, <1>8, <1>9, <1>10, <1>11, <2>1 DEF Fresh
<1>12. Fresh(f)'
  BY <1>1, <1>2, <1>3, <1>4, <1>8, <1>9, <1>10 DEF Fresh
<1>13. \A g \in Frames' : g = f \/ (g \in Frames /\ g.at = "loop")
  BY <1>1, <1>2, OthersLoop
<1>14. Opened(c) \/ c = Bottom
  BY <1>1, <1>4, <1>2 DEF Fresh
<1>15. Grown'
  BY <1>3, <1>4, <1>8, <1>10, <1>14 DEF Grown
<1> QED
  BY <1>7, <1>11, <1>12, <1>13, <1>15 DEF Once
(* The return from the innermost context, whose closing tag is new as the    *)
(* context was on the stack.                                                 *)
LEMMA OnceLeft ==
  ASSUME TypeOK, Chain, Once, history' = history, stack # <<>>, stack' = Pop,
         Top.at = "loop",
         lines' = IF Top.tagged THEN Append(lines, CloseTag(Top.ctx)) ELSE lines
  PROVE  Once'
<1> DEFINE n == Len(stack)
<1>1. PICK c : c = Top.ctx
  OBVIOUS
<1>2. Top \in Frame /\ Top \in Frames /\ n \in Nat \ {0}
  BY FrameTypes DEF Frames, Top
<1>3. Fresh(Top) /\ Grown /\ Distinct
  BY <1>2 DEF Once
<1>4. /\ Len(stack') = n - 1
      /\ \A i \in 1..(n - 1) : stack'[i] = stack[i]
  BY LastDropped DEF Pop, TypeOK
<1>5. stack' # <<>> => 1 \in 1..(n - 1)
  <2>1. stack' \in Seq(Frame)
    BY LastDropped DEF Pop, TypeOK
  <2> QED
    BY <1>2, <1>4, <2>1
<1>6. stack' # <<>> => Bottom' = Bottom
  BY <1>4, <1>5 DEF Bottom
<1>7. \A y : OnStack(y)' <=> OnStack(y) /\ y # c
  <2> HIDE DEF n
  <2>1. \A i \in 1..n : i \in 1..(n - 1) \/ i = n
    BY <1>2
  <2>2. \A i \in 1..(n - 1) : i \in 1..n /\ i # n
    BY <1>2
  <2>3. n \in 1..n /\ stack[n].ctx = c
    BY <1>1, <1>2 DEF Top, n
  <2>4. \A i \in 1..n : stack[i].ctx = c => i = n
    BY <2>3 DEF Chain, n
  <2>5. \A y : OnStack(y) <=> \E i \in 1..n : stack[i].ctx = y
    BY DEF OnStack, n
  <2>6. \A y : OnStack(y)' <=> \E i \in 1..(n - 1) : stack[i].ctx = y
    BY <1>4 DEF OnStack
  <2> QED
    BY <2>1, <2>2, <2>3, <2>4, <2>5, <2>6
<1>8. \A g \in Frames' : g \in Frames
  <2> HIDE DEF n
  <2>1. \A i \in 1..(n - 1) : i \in 1..n
    BY <1>2
  <2> QED
    BY <1>4, <2>1 DEF Frames, n
<1>9. OnStack(c)
  BY <1>1, <1>2 DEF OnStack, Top
<1>10. /\ Distinct'
       /\ \A x : Seen(x)' <=> Seen(x) \/ (Top.tagged /\ x = CloseTag(c))
  <2>1. CASE Top.tagged
    <3>1. CloseTag(c) \in Line
      BY <1>1, <1>2, LineTypes DEF Frame
    <3>2. ~Seen(CloseTag(c))
      BY <1>3, <1>9 DEF Grown
    <3> QED
      BY <1>1, <1>3, <2>1, <3>1, <3>2, SeenMore
  <2>2. CASE ~Top.tagged
    BY <1>3, <2>2, SeenSame
  <2> QED
    BY <2>1, <2>2
<1>11. \A y : /\ Opened(y)' <=> Opened(y)
              /\ Seen(CloseTag(y))' <=> Seen(CloseTag(y)) \/ (Top.tagged /\ y = c)
              /\ \A d : Seen(DirLine(y, d))' <=> Seen(DirLine(y, d))
  BY <1>10, DifferentTags DEF Opened
<1>12. \A y : Visited(y)' => Visited(y)
  BY <1>7, <1>11 DEF Visited
<1>13. ASSUME stack' # <<>>, NEW g \in Frames' PROVE Fresh(g)'
  <2>1. Fresh(g)
    BY <1>8 DEF Once
  <2>2. Bottom' = Bottom
    BY <1>6, <1>13
  <2> QED
    BY <1>10, <1>11, <1>12, <2>1, <2>2, StaysFresh
<1>14. ASSUME stack' # <<>> PROVE Grown'
  <2>1. \A y, p : ChildOf(y, p)' <=> ChildOf(y, p)
    BY DEF ChildOf
  <2>2. Bottom' = Bottom
    BY <1>6, <1>14
  <2>3. Top.tagged => Opened(c)
    BY <1>1, <1>3 DEF Fresh
  <2> QED
    BY <1>3, <1>7, <1>11, <2>1, <2>2, <2>3 DEF Grown
<1> QED
  BY <1>10, <1>13, <1>14 DEF Once

(* A sub-context is entered: it was neither visited before nor is it in the  *)
(* loop of another frame, and nothing below it was.                          *)
LEMMA OnceEntered ==
  ASSUME TypeOK, Orderly, Chain, Once, history' = history, stack # <<>>, lines' = lines,
         Top.at = "loop", NEW k \in Top.kids,
         stack' = Append(WithTop([Top EXCEPT !.kids = @ \ {k}]), NewFrame(k.id))
  PROVE  Once'
<1> DEFINE n == Len(stack)
<1>1. PICK f : f = [Top EXCEPT !.kids = @ \ {k}]
  OBVIOUS
<1>2. PICK new : new = NewFrame(k.id)
  OBVIOUS
<1>3. Top \in Frame /\ Top \in Frames /\ n \in Nat \ {0}
  BY FrameTypes DEF Frames, Top
<1>4. /\ f \in Frame /\ f.ctx = Top.ctx /\ f.at = "loop" /\ f.kids = Top.kids \ {k}
      /\ f.tagged = Top.tagged /\ k \in Row
  BY <1>1, <1>3 DEF Frame
<1>5. new \in Frame /\ new.ctx = k.id /\ new.at = "row" /\ new.kids = {} /\ new.tagged = FALSE
  BY <1>2, <1>4, LineTypes DEF NewFrame, Row
<1>6. /\ Len(stack') = n + 1 /\ stack'[n + 1] = new /\ stack'[n] = f
      /\ \A i \in 1..(n - 1) : stack'[i] = stack[i]
  <2>1. stack' = Append([stack EXCEPT ![Len(stack)] = f], new)
    BY <1>1, <1>2 DEF WithTop
  <2>2. stack \in Seq(Frame) /\ f \in Frame /\ new \in Frame
    BY <1>4, <1>5 DEF TypeOK
  <2> DEFINE t == Append([stack EXCEPT ![Len(stack)] = f], new)
  <2>3. /\ Len(t) = Len(stack) + 1 /\ t[Len(stack) + 1] = new
        /\ t[Len(stack)] = f
        /\ \A i \in 1..(Len(stack) - 1) : t[i] = stack[i]
    BY <2>2, LastReplacedAndAdded
  <2> HIDE DEF t
  <2>4. stack' = t
    BY <2>1 DEF t
  <2> QED
    BY <2>3, <2>4
<1>7. /\ \A i \in 1..(n + 1) : i \in 1..(n - 1) \/ i = n \/ i = n + 1
      /\ \A i \in 1..n : i \in 1..(n - 1) \/ i = n
      /\ \A i \in 1..(n - 1) : i \in 1..n /\ i # n
      /\ 1..n \subseteq 1..(n + 1) /\ n \in 1..n /\ n + 1 \in 1..(n + 1) /\ 1 \in 1..n
  BY <1>3
<1>8. stack[n] = Top /\ \A i \in 1..n : stack[i] \in Frames
  BY DEF Top, Frames
<1> HIDE DEF n
<1>9. \A i \in 1..n : stack'[i].ctx = stack[i].ctx
  BY <1>4, <1>6, <1>7, <1>8
<1>10. /\ Bottom' = Bottom /\ stack' # <<>>
       /\ \A y : OnStack(y)' <=> OnStack(y) \/ y = k.id
  <2>1. Bottom' = Bottom
    BY <1>7, <1>9 DEF Bottom
  <2>2. \A y : OnStack(y) <=> \E i \in 1..n : stack[i].ctx = y
    BY DEF OnStack, n
  <2>3. \A y : OnStack(y)' <=> \E i \in 1..(n + 1) : stack'[i].ctx = y
    BY <1>6 DEF OnStack
  <2>4. \A y : OnStack(y)' <=> OnStack(y) \/ y = k.id
    BY <1>5, <1>6, <1>7, <1>9, <2>2, <2>3
  <2>5. stack' # <<>>
    BY <1>3, <1>6
  <2> QED
    BY <2>1, <2>4, <2>5
<1>11. (\A x : Seen(x)' <=> Seen(x)) /\ Distinct'
  BY SeenSame DEF Once
<1>12. \A y : (Opened(y)' <=> Opened(y)) /\ (Visited(y)' <=> Visited(y) \/ y = k.id)
  BY <1>10, <1>11 DEF Opened, Visited
<1>13. Fresh(Top) /\ Grown
  BY <1>3 DEF Once
<1>14. Last' = Last /\ \A y, p : ChildOf(y, p)' <=> ChildOf(y, p)
  BY DEF Last, ChildOf
<1>15. FixedParents /\ FromNull /\ UniqueIds
  BY OrderlyTables DEF Treelike, Orderly
<1>16. ChildOf(k.id, Top.ctx) /\ ~Visited(k.id) /\ k \in Last.ctxs
  BY <1>7, <1>8, <1>13 DEF Chain, Fresh, n
(* The other frames have other kids. *)
<1>17. ASSUME NEW i \in 1..(n - 1), NEW g, g = stack[i] PROVE Fresh(g)'
  <2>1. Fresh(g) /\ g.ctx # Top.ctx
    BY <1>7, <1>8, <1>17 DEF Once, Chain, n
  <2>2. \A j \in g.kids : ChildOf(j.id, g.ctx)
    BY <1>7, <1>17 DEF Chain, n
  <2>3. \A j \in g.kids : j.id # k.id
    BY <1>15, <1>16, <2>1, <2>2, OneParent
  <2>4. g.at # "loop" => ~ChildOf(k.id, g.ctx)
    BY <1>15, <1>16, <2>1, OneParent
  <2> QED
    BY <1>10, <1>11, <1>12, <1>14, <2>1, <2>3, <2>4 DEF Fresh
<1>18. Fresh(f)'
  <2>1. \A j \in f.kids : j.id # k.id
    BY <1>4, <1>13, <1>15, <1>16 DEF UniqueIds, Fresh
  <2> QED
    BY <1>4, <1>10, <1>11, <1>12, <1>13, <1>14, <2>1 DEF Fresh
(* Nothing below the new context was visited: its parent would have been. *)
<1>19. ASSUME NEW c, ChildOf(c, k.id), Visited(c)' PROVE FALSE
  <2>1. k.id \in Ctx /\ ~Opened(k.id) /\ ~OnStack(k.id)
    BY <1>4, <1>16 DEF Row, Visited
  <2>2. \A i \in 1..n : stack[i].ctx # k.id
    BY <2>1 DEF OnStack, n
  <2>3. CASE c = k.id
    BY <1>7, <1>8, <1>15, <1>16, <1>19, <2>2, <2>3, OneParent
  <2>4. CASE OnStack(c)
    <3>1. PICK i \in 1..n : stack[i].ctx = c
      BY <2>4 DEF OnStack, n
    <3>2. CASE i = 1
      <4>1. c = ZeroId \/ ChildOf(c, NoCtx)
        BY <1>3, <3>1, <3>2 DEF Chain, n
      <4>2. c \in Ctx /\ (ChildOf(c, NoCtx) => k.id = NoCtx)
        BY <1>15, <1>19, NoParentOfRoot
      <4> QED
        BY <2>1, <4>1, <4>2, ReadDbAssumption
    <3>3. CASE i \in 2..n
      <4>1. ChildOf(c, stack[i - 1].ctx) /\ i - 1 \in 1..n
        BY <1>3, <3>1, <3>3 DEF Chain, n
      <4> QED
        BY <1>15, <1>19, <2>2, <4>1, OneParent
    <3> QED
      BY <1>3, <3>1, <3>2, <3>3
  <2>5. CASE Opened(c)
    <3>1. PICK p : ChildOf(c, p) /\ (Opened(p) \/ p = Bottom)
      BY <1>13, <2>5 DEF Grown
    <3>2. p = k.id
      BY <1>15, <1>19, <3>1, OneParent
    <3> QED
      BY <1>7, <2>1, <2>2, <3>1, <3>2 DEF Bottom
  <2> QED
    BY <1>12, <1>19, <2>3, <2>4, <2>5 DEF Visited
<1>20. ~Opened(k.id) /\ k.id # Bottom
  BY <1>7, <1>16 DEF Visited, OnStack, Bottom, n
<1>21. Fresh(new)'
  <2>1. \A d : ~Seen(DirLine(k.id, d))
    BY <1>13, <1>20 DEF Grown
  <2> QED
    BY <1>5, <1>11, <1>12, <1>14, <1>19, <1>20, <2>1 DEF Fresh
<1>22. Grown'
  BY <1>10, <1>11, <1>12, <1>13, <1>14, <1>20 DEF Grown
<1>23. \A g \in Frames' : g = f \/ g = new \/ \E i \in 1..(n - 1) : g = stack[i]
  <2>1. Frames' = {stack'[i] : i \in 1..(n + 1)}
    BY <1>6 DEF Frames
  <2>2. ASSUME NEW i \in 1..(n + 1)
        PROVE  stack'[i] = f \/ stack'[i] = new \/ \E j \in 1..(n - 1) : stack'[i] = stack[j]
    BY <1>6, <1>7
  <2> QED
    BY <2>1, <2>2
<1> QED
  BY <1>11, <1>17, <1>18, <1>21, <1>22, <1>23 DEF Once

(* The walk begins at a context without a parent, or at the id 0. *)
LEMMA OnceBegun ==
  ASSUME TypeOK, Treelike, history' = history, stack = <<>>, lines = <<>>, lines' = lines,
         NEW id \in RootIds \union {ZeroId}, stack' = <<NewFrame(id)>>
  PROVE  Once'
<1>1. \A x : ~Seen(x)'
  BY DEF Seen
<1>2. /\ Bottom' = id /\ (\A y : OnStack(y)' <=> y = id)
      /\ Frames' = {NewFrame(id)}
  <2>1. Len(stack') = 1 /\ stack'[1] = NewFrame(id) /\ NewFrame(id).ctx = id
    BY DEF NewFrame
  <2>2. Bottom' = id
    BY <2>1 DEF Bottom
  <2>3. \A y : OnStack(y)' <=> y = id
    BY <2>1 DEF OnStack
  <2>4. Frames' = {NewFrame(id)}
    BY <2>1 DEF Frames
  <2> QED
    BY <2>2, <2>3, <2>4
<1>3. PICK f : f = NewFrame(id)
  OBVIOUS
<1>4. f.ctx = id /\ f.at = "row" /\ f.kids = {} /\ f.tagged = FALSE
  BY <1>3 DEF NewFrame
<1>5. \A y : (~Opened(y)') /\ (Visited(y)' <=> y = id)
  BY <1>1, <1>2 DEF Opened, Visited
<1>6. ~ChildOf(id, id)
  <2>1. SUFFICES ASSUME ChildOf(id, id) PROVE FALSE
    OBVIOUS
  <2>2. FixedParents /\ FromNull /\ id \in Ctx /\ (ChildOf(id, NoCtx) => id = NoCtx)
    BY <2>1, NoParentOfRoot DEF Treelike
  <2>3. ChildOf(id, NoCtx)
    <3>1. PICK r \in Now.ctxs : r.id = id /\ r.parent = NoCtx
      BY <2>2, ReadDbAssumption DEF RootIds, RootRows, FromNull
    <3> QED
      BY <3>1 DEF ChildOf, Now, TypeOK
  <2> QED
    BY <2>2, <2>3, ReadDbAssumption
<1>7. \A y, p : ChildOf(y, p)' <=> ChildOf(y, p)
  BY DEF ChildOf
<1>8. Fresh(f)'
  BY <1>1, <1>2, <1>4, <1>5, <1>6, <1>7 DEF Fresh
<1>9. Grown'
  BY <1>1, <1>5 DEF Grown
<1>10. Distinct'
  BY DEF Distinct
<1> QED
  BY <1>2, <1>3, <1>8, <1>9, <1>10 DEF Once
(* Nothing of the walk happens. *)
LEMMA OnceSame ==
  ASSUME Once, history' = history, stack' = stack, lines' = lines
  PROVE  Once'
<1>1. (\A x : Seen(x)' <=> Seen(x)) /\ (Distinct => Distinct')
  BY SeenSame
<1>2. \A c : (OnStack(c)' <=> OnStack(c)) /\ (Opened(c)' <=> Opened(c))
             /\ (Visited(c)' <=> Visited(c))
  BY <1>1 DEF OnStack, Opened, Visited
<1>3. Bottom' = Bottom /\ Frames' = Frames /\ Last' = Last
  BY DEF Bottom, Frames, Last
<1>4. \A c, p : ChildOf(c, p)' <=> ChildOf(c, p)
  BY DEF ChildOf
<1>5. \A f : Fresh(f) => Fresh(f)'
  BY <1>1, <1>2, <1>3, <1>4 DEF Fresh
<1>6. Grown => Grown'
  BY <1>1, <1>2, <1>3, <1>4 DEF Grown
<1> QED
  BY <1>1, <1>3, <1>5, <1>6 DEF Once

LEMMA OnceNext ==
  ASSUME TypeOK, Chain, Placed, Orderly, Once, [Next]_vars, Orderly'
  PROVE  Once'
<1>1. history' = history /\ trouble' = {}
  BY OrderlyNext DEF Orderly
<1>2. Treelike
  BY OrderlyTables
<1>3. CASE \/ CheckModule \/ LoadBackend \/ Prepare \/ DefineConn \/ OpenConn \/ RootFailed
           \/ CloseConn \/ CleanUp \/ Commit \/ NullValue \/ StackOverflow \/ UNCHANGED vars
  <2>1. stack' = stack /\ lines' = lines
    BY <1>3 DEF CheckModule, LoadBackend, Prepare, DefineConn, OpenConn, Hook, RootFailed,
                CloseConn, CleanUp, Commit, NullValue, StackOverflow, Crash, vars
  <2> QED
    BY <1>1, <2>1, OnceSame
<1>4. CASE SelectRoot
  <2>1. stack = <<>> /\ lines = <<>> /\ lines' = lines
    BY <1>4 DEF SelectRoot, Placed
  <2>2. CASE stack' = stack
    BY <1>1, <2>1, <2>2, OnceSame
  <2>3. CASE \E id \in RootIds \union {ZeroId} : stack' = <<NewFrame(id)>>
    BY <1>1, <1>2, <2>1, <2>3, OnceBegun
  <2> QED
    BY <1>4, <2>2, <2>3 DEF SelectRoot
(* What goes wrong is noted. *)
<1>5. CASE ReadRowFailed \/ SelectFailed \/ RowVanished
  BY <1>1, <1>5 DEF ReadRowFailed, SelectFailed, RowVanished, Fails, Note
<1>6. ASSUME NEW at, In(at)
      PROVE  stack # <<>> /\ Top.at = at /\ Top \in Frame
  BY <1>6, FrameTypes DEF In
<1>7. CASE ReadRow
  <2>1. stack # <<>> /\ Top.at = "row" /\ Top \in Frame
    BY <1>6, <1>7 DEF ReadRow
  <2>2. PICK r : /\ lines' = IF IsTagged(r) THEN Append(lines, OpenTag(Top.ctx)) ELSE lines
                 /\ SetTop([Top EXCEPT !.at = "conf", !.tagged = IsTagged(r)])
                 /\ IsNamed(r)
    BY <1>1, <1>7 DEF ReadRow, Note
  <2>3. CASE Len(stack) # 1
    <3>1. PICK f : f = [Top EXCEPT !.at = "conf", !.tagged = TRUE]
      OBVIOUS
    <3>2. f \in Frame
      BY <2>1, <3>1 DEF Frame
    <3>3. IsTagged(r) = TRUE
      BY <2>2, <2>3 DEF IsTagged
    <3>4. lines' = Append(lines, OpenTag(Top.ctx)) /\ stack' = WithTop(f)
      BY <2>2, <3>1, <3>3 DEF SetTop
    <3> QED
      BY <1>1, <1>2, <2>1, <2>3, <3>1, <3>2, <3>4, OnceTagged
  <2>4. CASE Len(stack) = 1
    <3>1. PICK f : f = [Top EXCEPT !.at = "conf", !.tagged = FALSE]
      OBVIOUS
    <3>2. /\ f \in Frame /\ f.ctx = Top.ctx /\ f.at = "conf" /\ f.tagged = FALSE
          /\ f.kids = Top.kids /\ f.dirs = Top.dirs
      BY <2>1, <3>1 DEF Frame
    <3>3. IsTagged(r) = FALSE
      BY <2>4 DEF IsTagged
    <3>4. lines' = lines /\ stack' = WithTop(f)
      BY <2>2, <3>1, <3>3 DEF SetTop
    <3>5. Top.ctx = Bottom
      BY <2>4 DEF Top, Bottom
    <3>6. Fresh(Top) => Fresh(f)
      BY <2>1, <3>2, <3>5 DEF Fresh
    <3> QED
      BY <1>1, <2>1, <3>2, <3>4, <3>6, OnceMoved
  <2> QED
    BY <2>3, <2>4
<1>8. CASE SelectConf
  <2>1. stack # <<>> /\ Top.at = "conf" /\ Top \in Frame /\ lines' = lines
    BY <1>6, <1>8 DEF SelectConf
  <2>2. PICK f : f = [Top EXCEPT !.at = "push", !.dirs = DirsOf(Now, Top.ctx)]
    OBVIOUS
  <2>3. /\ f \in Frame /\ f.ctx = Top.ctx /\ f.at = "push" /\ f.tagged = Top.tagged
        /\ f.kids = Top.kids
    BY <2>1, <2>2, TableTypes DEF Frame
  <2>4. Fresh(Top) => Fresh(f)
    BY <2>1, <2>3 DEF Fresh
  <2>5. stack' = WithTop(f)
    BY <1>8, <2>2 DEF SelectConf, SetTop
  <2> QED
    BY <1>1, <2>1, <2>3, <2>4, <2>5, OnceMoved
<1>9. CASE PushDirective
  <2>1. stack # <<>> /\ Top.at = "push" /\ Top \in Frame
    BY <1>6, <1>9 DEF PushDirective
  <2>2. PICK e \in Top.dirs : /\ lines' = Append(lines, DirLine(Top.ctx, e))
                             /\ stack' = WithTop([Top EXCEPT !.dirs = @ \ {e}])
    BY <1>9 DEF PushDirective, SetTop
  <2>3. PICK f : f = [Top EXCEPT !.dirs = @ \ {e}]
    OBVIOUS
  <2>4. f \in Frame
    BY <2>1, <2>3 DEF Frame
  <2> QED
    BY <1>1, <2>1, <2>2, <2>3, <2>4, OncePushed
<1>10. CASE DirectivesDone
  <2>1. stack # <<>> /\ Top.at = "push" /\ Top \in Frame /\ lines' = lines
    BY <1>6, <1>10 DEF DirectivesDone
  <2>2. PICK f : f = [Top EXCEPT !.at = "ctxs"]
    OBVIOUS
  <2>3. /\ f \in Frame /\ f.ctx = Top.ctx /\ f.at = "ctxs" /\ f.tagged = Top.tagged
        /\ f.kids = Top.kids
    BY <2>1, <2>2 DEF Frame
  <2>4. Fresh(Top) => Fresh(f)
    BY <2>1, <2>3 DEF Fresh
  <2>5. stack' = WithTop(f)
    BY <1>10, <2>2 DEF DirectivesDone, SetTop
  <2> QED
    BY <1>1, <2>1, <2>3, <2>4, <2>5, OnceMoved
<1>11. CASE SelectCtxs
  <2>1. stack # <<>> /\ Top.at = "ctxs" /\ Top \in Frame /\ lines' = lines
    BY <1>6, <1>11 DEF SelectCtxs
  <2>2. PICK f : f = [Top EXCEPT !.at = "loop", !.kids = KidsOf(Now, Top.ctx)]
    OBVIOUS
  <2>3. /\ f \in Frame /\ f.ctx = Top.ctx /\ f.at = "loop" /\ f.tagged = Top.tagged
        /\ f.kids = KidsOf(Now, Top.ctx)
    BY <2>1, <2>2, TableTypes DEF Frame
  <2>4. \A k \in f.kids : k \in Last.ctxs /\ ChildOf(k.id, Top.ctx)
    BY <2>3, OrderlyTables DEF KidsOf, ChildOf, Now, TypeOK
  <2>5. Fresh(Top) => Fresh(f)
    BY <2>1, <2>3, <2>4 DEF Fresh
  <2>6. stack' = WithTop(f)
    BY <1>11, <2>2 DEF SelectCtxs, SetTop
  <2> QED
    BY <1>1, <2>1, <2>3, <2>5, <2>6, OnceMoved
<1>12. CASE EnterCtx
  <2>1. stack # <<>> /\ Top.at = "loop" /\ lines' = lines
    BY <1>6, <1>12 DEF EnterCtx
  <2>2. PICK k \in Top.kids :
          stack' = Append(WithTop([Top EXCEPT !.kids = @ \ {k}]), NewFrame(k.id))
    BY <1>12 DEF EnterCtx
  <2> QED
    BY <1>1, <2>1, <2>2, OnceEntered
<1>13. CASE LeaveCtx
  BY <1>1, <1>6, <1>13, OnceLeft DEF LeaveCtx
<1> QED
  BY <1>3, <1>4, <1>5, <1>7, <1>8, <1>9, <1>10, <1>11, <1>12, <1>13 DEF Next, Step, Walk

(* An undisturbed read, during which other clients only add rows, opens and  *)
(* closes each context once and pushes each of its directives once.          *)
THEOREM NeverTwice == Spec => []OnlyOnce
<1> DEFINE Inv == /\ TypeOK /\ Placed
                  /\ Treelike => Chain
                  /\ Orderly => Once
<1>1. Init => Inv
  <2> SUFFICES ASSUME Init PROVE Inv
    OBVIOUS
  <2>1. TypeOK
    BY TypeInit
  <2>2. stack = <<>> /\ lines = <<>>
    BY DEF Init
  <2>3. Placed
    BY <2>2 DEF Placed, DirsInScope
  <2>4. Chain /\ Once
    BY <2>2 DEF Chain, Once, Distinct
  <2> QED
    BY <2>1, <2>3, <2>4
<1>2. Inv /\ [Next]_vars => Inv'
  <2> SUFFICES ASSUME Inv, [Next]_vars PROVE Inv'
    OBVIOUS
  <2>1. TypeOK' /\ Placed'
    BY TypeNext, PlacedNext
  <2>2. (Treelike => Chain)'
    BY ChainNext, TreelikeNext
  <2>3. ASSUME Orderly' PROVE Once'
    <3>1. Orderly /\ Treelike
      BY <2>3, OrderlyNext, OrderlyTables
    <3> QED
      BY <2>3, <3>1, OnceNext
  <2> QED
    BY <2>1, <2>2, <2>3
<1>3. Inv => OnlyOnce
  BY DEF OnlyOnce, Once, Distinct
<1> QED
  BY <1>1, <1>2, <1>3, PTL DEF Spec

-----------------------------------------------------------------------------
(* The nesting. *)
NestedAt(k) ==
  \E c, z : /\ z = lines[k].ctx
            /\ Directly(k, c)
            /\ IF lines[k].kind = "open" THEN ChildOf(z, c) ELSE c = z

(* The tags that are open at the end of the array. *)
OpenNow == Unclosed(Len(lines) + 1)

(* The base has no tag.  It is a row of the root query, or the id 0 whose row *)
(* nobody found yet.                                                          *)
Based ==
  /\ ~stack[1].tagged
  /\ \/ Bottom \in {r.id : r \in roots}
     \/ Bottom = ZeroId /\ Len(stack) = 1 /\ Top.at = "row"

(* The open tags o, at their places in m, are those of the frames of s, in   *)
(* the order of the frames.                                                  *)
AlignedIn(o, m, s) ==
  /\ \A i \in o : \E j \in 2..Len(s) : s[j].at # "row" /\ m[i] = OpenTag(s[j].ctx)
  /\ \A j \in 2..Len(s) : s[j].at # "row" =>
       s[j].tagged /\ \E i \in o : m[i] = OpenTag(s[j].ctx)
  /\ \A i, k \in o : \A g, h \in 2..Len(s) :
       m[i].ctx = s[g].ctx /\ m[k].ctx = s[h].ctx /\ g < h => i < k

Aligned == AlignedIn(OpenNow, lines, stack)

Nesting ==
  /\ \A k \in DOMAIN lines : NestedAt(k)
  /\ stack # <<>> => Aligned /\ Based

-----------------------------------------------------------------------------
(* A line more, and what it closes and opens. *)

LEMMA UnclosedMore ==
  ASSUME TypeOK, NEW x \in Line, lines' = Append(lines, x)
  PROVE  /\ \A k \in 1..(Len(lines) + 1) : Unclosed(k)' = Unclosed(k)
         /\ \A i : i \in OpenNow' <=>
              \/ i \in OpenNow /\ ~(x.kind = "close" /\ x.ctx = lines[i].ctx)
              \/ i = Len(lines) + 1 /\ x.kind = "open"
<1> DEFINE n == Len(lines)
<1>1. /\ n \in Nat /\ DOMAIN lines = 1..n /\ DOMAIN lines' = 1..(n + 1) /\ Len(lines') = n + 1
      /\ lines'[n + 1] = x /\ \A i \in 1..n : lines'[i] = lines[i]
  BY DEF TypeOK
<1> HIDE DEF n
<1>2. ASSUME NEW k \in 1..(n + 1) PROVE Unclosed(k)' = Unclosed(k)
  <2>1. \A i \in 1..(k - 1) : i \in 1..n /\ \A j \in (i + 1)..(k - 1) : j \in 1..n
    BY <1>1
  <2> QED
    BY <1>1, <2>1 DEF Unclosed, IsOpen, Closes
<1>3. ASSUME NEW i
      PROVE  i \in OpenNow' <=>
               \/ i \in OpenNow /\ ~(x.kind = "close" /\ x.ctx = lines[i].ctx)
               \/ i = n + 1 /\ x.kind = "open"
  <2>1. i \in OpenNow <=>
          i \in 1..n /\ lines[i].kind = "open"
          /\ ~\E j \in (i + 1)..n : lines[j].kind = "close" /\ lines[j].ctx = lines[i].ctx
    BY <1>1 DEF OpenNow, Unclosed, IsOpen, Closes, n
  <2>2. i \in OpenNow' <=>
          i \in 1..(n + 1) /\ lines'[i].kind = "open"
          /\ ~\E j \in (i + 1)..(n + 1) : lines'[j].kind = "close" /\ lines'[j].ctx = lines'[i].ctx
    BY <1>1 DEF OpenNow, Unclosed, IsOpen, Closes
  <2>3. CASE i \in 1..n
    <3>1. i # n + 1 /\ i \in 1..(n + 1) /\ n + 1 \in (i + 1)..(n + 1)
      BY <1>1, <2>3
    <3>2. \A j \in (i + 1)..(n + 1) : j = n + 1 \/ j \in (i + 1)..n
      BY <1>1, <2>3
    <3>3. \A j \in (i + 1)..n : j \in (i + 1)..(n + 1) /\ lines'[j] = lines[j]
      BY <1>1, <2>3
    <3> QED
      BY <1>1, <2>1, <2>2, <2>3, <3>1, <3>2, <3>3
  <2>4. CASE i = n + 1
    <3>1. i \notin 1..n /\ i \in 1..(n + 1) /\ \A j \in (i + 1)..(n + 1) : FALSE
      BY <1>1, <2>4
    <3> QED
      BY <1>1, <2>1, <2>2, <2>4, <3>1
  <2>5. CASE i \notin 1..(n + 1)
    BY <1>1, <2>1, <2>2, <2>5
  <2> QED
    BY <1>1, <2>3, <2>4, <2>5
<1> QED
  BY <1>2, <1>3 DEF n

(* The lines that are there stay nested. *)
LEMMA NestedMore ==
  ASSUME TypeOK, NEW x \in Line, lines' = Append(lines, x), roots' = roots,
         history' = history, \A k \in DOMAIN lines : NestedAt(k),
         NEW c, IF x.kind = "open" THEN ChildOf(x.ctx, c) ELSE c = x.ctx,
         Directly(Len(lines) + 1, c)
  PROVE  \A k \in DOMAIN lines' : NestedAt(k)'
<1> DEFINE n == Len(lines)
<1>1. /\ n \in Nat /\ DOMAIN lines = 1..n /\ DOMAIN lines' = 1..(n + 1)
      /\ lines'[n + 1] = x /\ \A i \in 1..n : lines'[i] = lines[i]
  BY DEF TypeOK
<1>2. \A k \in 1..(n + 1) : Unclosed(k)' = Unclosed(k) /\ Unclosed(k) \subseteq 1..n
  <2>1. \A k \in 1..(n + 1) : Unclosed(k)' = Unclosed(k)
    BY UnclosedMore
  <2>2. \A k \in 1..(n + 1) : Unclosed(k) \subseteq 1..n
    BY <1>1 DEF Unclosed
  <2> QED
    BY <2>1, <2>2
<1>3. \A y, z : ChildOf(y, z)' <=> ChildOf(y, z)
  BY DEF ChildOf
<1> HIDE DEF n
<1>4. \A k \in 1..(n + 1) : \A y : Directly(k, y)' <=> Directly(k, y)
  BY <1>1, <1>2 DEF Directly
<1>5. ASSUME NEW k \in 1..n PROVE NestedAt(k)'
  <2>1. PICK y, z : /\ z = lines[k].ctx
                    /\ Directly(k, y)
                    /\ IF lines[k].kind = "open" THEN ChildOf(z, y) ELSE y = z
    BY <1>1 DEF NestedAt
  <2>2. Directly(k, y)' /\ (ChildOf(z, y)' <=> ChildOf(z, y))
    BY <1>1, <1>3, <1>4, <2>1
  <2>3. z = lines'[k].ctx /\ lines'[k].kind = lines[k].kind
    BY <1>1, <2>1
  <2> QED
    BY <2>1, <2>2, <2>3 DEF NestedAt
<1>6. PICK k : k = n + 1
  OBVIOUS
<1>7. NestedAt(k)'
  <2>1. Directly(k, c)'
    BY <1>1, <1>4, <1>6 DEF n
  <2>2. PICK z : z = x.ctx
    OBVIOUS
  <2>3. ChildOf(z, c)' <=> ChildOf(z, c)
    BY <1>3
  <2>4. lines'[k].kind = x.kind /\ z = lines'[k].ctx
    BY <1>1, <1>6, <2>2
  <2> QED
    BY <2>1, <2>2, <2>3, <2>4 DEF NestedAt
<1> QED
  BY <1>1, <1>5, <1>6, <1>7

(* No line more. *)
LEMMA NestedSame ==
  ASSUME TypeOK, lines' = lines, roots' = roots, history' = history,
         \A k \in DOMAIN lines : NestedAt(k)
  PROVE  /\ \A k \in DOMAIN lines' : NestedAt(k)'
         /\ OpenNow' = OpenNow
<1>1. \A k : Unclosed(k)' = Unclosed(k)
  BY DEF Unclosed, IsOpen, Closes
<1>2. \A k, y, z : (Directly(k, y)' <=> Directly(k, y)) /\ (ChildOf(y, z)' <=> ChildOf(y, z))
  BY <1>1 DEF Directly, ChildOf
<1>3. OpenNow' = OpenNow
  BY DEF OpenNow, Unclosed, IsOpen, Closes
<1> QED
  BY <1>2, <1>3 DEF NestedAt

-----------------------------------------------------------------------------
(* What is put into the array now is directly inside the innermost frame    *)
(* that has read its row.                                                   *)
LEMMA Inner ==
  ASSUME TypeOK, Chain, Distinct, Aligned, NEW m \in 1..Len(stack),
         \A j \in 2..Len(stack) : stack[j].at # "row" <=> j <= m,
         Bottom \in {r.id : r \in roots}
  PROVE  Directly(Len(lines) + 1, stack[m].ctx)
<1>1. PICK n : n = Len(stack) /\ n \in Nat
  BY DEF TypeOK
<1>2. CASE m = 1
  <2>1. \A j \in 2..n : ~(j <= 1)
    BY <1>1
  <2>2. OpenNow = {}
    BY <1>1, <1>2, <2>1 DEF Aligned, AlignedIn
  <2> QED
    BY <1>2, <2>2 DEF Directly, OpenNow, Bottom
<1>3. CASE m # 1
  <2>1. m \in 2..n /\ stack[m].at # "row"
    BY <1>1, <1>3
  <2>2. PICK i \in OpenNow : lines[i] = OpenTag(stack[m].ctx)
    BY <1>1, <2>1 DEF Aligned, AlignedIn
  <2>3. lines[i].ctx = stack[m].ctx
    BY <2>2 DEF OpenTag
  <2>4. \A k \in OpenNow : k \in DOMAIN lines /\ k \in Nat
    BY DEF OpenNow, Unclosed, TypeOK
  <2>5. ASSUME NEW k \in OpenNow PROVE k <= i
    <3>1. PICK j \in 2..n : stack[j].at # "row" /\ lines[k] = OpenTag(stack[j].ctx)
      BY <1>1 DEF Aligned, AlignedIn
    <3>2. j = m \/ j < m
      BY <1>1, <3>1
    <3>3. CASE j = m
      BY <2>2, <2>4, <3>1, <3>3 DEF Distinct
    <3>4. CASE j < m
      <4>1. lines[k].ctx = stack[j].ctx
        BY <3>1 DEF OpenTag
      <4>2. k < i
        BY <1>1, <2>1, <2>3, <3>4, <4>1 DEF Aligned, AlignedIn
      <4> QED
        BY <2>4, <4>2
    <3> QED
      BY <3>2, <3>3, <3>4
  <2> QED
    BY <2>2, <2>3, <2>5 DEF Directly, OpenNow
<1> QED
  BY <1>2, <1>3

-----------------------------------------------------------------------------
(* The steps of the walk. *)

(* The innermost frame moves on, and no tag is opened or closed. *)
LEMMA AlignedMoved ==
  ASSUME TypeOK, stack # <<>>, Aligned, Based, Bottom \in {r.id : r \in roots}, roots' = roots,
         NEW f \in Frame, stack' = WithTop(f), f.ctx = Top.ctx, f.tagged = Top.tagged,
         Len(stack) # 1 => f.at # "row" /\ Top.at # "row",
         OpenNow' = OpenNow, \A i \in OpenNow : lines'[i] = lines[i]
  PROVE  (Aligned /\ Based)'
<1>1. PICK n : n = Len(stack) /\ n \in Nat \ {0}
  BY FrameTypes
<1>2. /\ Len(stack') = n /\ stack'[n] = f /\ Bottom' = Bottom
      /\ \A i \in 1..(n - 1) : stack'[i] = stack[i]
  BY <1>1, MovedOn
<1>3. ASSUME NEW j \in 2..n
      PROVE  /\ stack'[j].ctx = stack[j].ctx /\ stack'[j].tagged = stack[j].tagged
             /\ stack'[j].at = "row" <=> stack[j].at = "row"
  <2>1. j \in 1..(n - 1) \/ (j = n /\ n # 1)
    BY <1>1
  <2> QED
    BY <1>1, <1>2, <2>1 DEF Top
<1>4. Aligned'
  <2>1. ASSUME NEW i \in OpenNow
        PROVE  \E j \in 2..n : stack'[j].at # "row" /\ lines'[i] = OpenTag(stack'[j].ctx)
    <3>1. PICK j \in 2..n : stack[j].at # "row" /\ lines[i] = OpenTag(stack[j].ctx)
      BY <1>1 DEF Aligned, AlignedIn
    <3> QED
      BY <1>3, <3>1
  <2>2. ASSUME NEW j \in 2..n, stack'[j].at # "row"
        PROVE  stack'[j].tagged /\ \E i \in OpenNow : lines'[i] = OpenTag(stack'[j].ctx)
    <3>1. stack[j].tagged /\ \E i \in OpenNow : lines[i] = OpenTag(stack[j].ctx)
      BY <1>1, <1>3, <2>2 DEF Aligned, AlignedIn
    <3> QED
      BY <1>3, <3>1
  <2>3. ASSUME NEW i \in OpenNow, NEW k \in OpenNow, NEW g \in 2..n, NEW h \in 2..n,
               lines'[i].ctx = stack'[g].ctx, lines'[k].ctx = stack'[h].ctx, g < h
        PROVE  i < k
    <3>1. lines[i].ctx = stack[g].ctx /\ lines[k].ctx = stack[h].ctx
      BY <1>3, <2>3
    <3> QED
      BY <1>1, <2>3, <3>1 DEF Aligned, AlignedIn
  <2> QED
    BY <1>2, <2>1, <2>2, <2>3 DEF Aligned, AlignedIn, OpenTag
<1>5. Based'
  <2>1. stack'[1].tagged = stack[1].tagged
    <3>1. n = 1 \/ 1 \in 1..(n - 1)
      BY <1>1
    <3> QED
      BY <1>1, <1>2, <3>1 DEF Top
  <2>2. ~stack[1].tagged
    BY DEF Based
  <2>3. (Bottom \in {r.id : r \in roots})'
    BY <1>2
  <2> QED
    BY <2>1, <2>2, <2>3 DEF Based
<1> QED
  BY <1>4, <1>5

(* A tag more, for the innermost frame. *)
LEMMA AlignedTagged ==
  ASSUME Chain, Aligned, NEW n \in Nat \ {0, 1}, n = Len(stack), NEW c, c = stack[n].ctx,
         NEW l \in Nat, NEW m, NEW o, NEW s,
         s[n].ctx = c, s[n].tagged, s[n].at # "row",
         \A j \in 2..n : /\ j = n \/ (stack[j].at # "row" /\ s[j] = stack[j])
                         /\ s[j].ctx = stack[j].ctx,
         \A i : i \in o <=> i \in OpenNow \/ i = l,
         m[l] = OpenTag(c),
         \A i \in OpenNow : i < l /\ m[i] = lines[i],
         Len(s) = n
  PROVE  AlignedIn(o, m, s)
<1>1. n \in 2..n /\ n \in 1..n /\ \A j \in 2..n : j \in 1..n
  OBVIOUS
<1>2. \A j \in 2..n : /\ s[j].at # "row" /\ s[j].tagged
                      /\ \E i \in o : m[i] = OpenTag(s[j].ctx)
  <2> SUFFICES ASSUME NEW j \in 2..n
               PROVE  /\ s[j].at # "row" /\ s[j].tagged
                      /\ \E i \in o : m[i] = OpenTag(s[j].ctx)
    OBVIOUS
  <2>1. CASE j = n
    BY <2>1
  <2>2. CASE j # n
    <3>1. stack[j].at # "row" /\ s[j] = stack[j]
      BY <2>2
    <3>2. stack[j].tagged /\ \E i \in OpenNow : lines[i] = OpenTag(stack[j].ctx)
      BY <3>1 DEF Aligned, AlignedIn
    <3> QED
      BY <3>1, <3>2
  <2> QED
    BY <2>1, <2>2
<1>3. \A i \in o : \E j \in 2..n : s[j].at # "row" /\ m[i] = OpenTag(s[j].ctx)
  <2> SUFFICES ASSUME NEW i \in o
               PROVE  \E j \in 2..n : s[j].at # "row" /\ m[i] = OpenTag(s[j].ctx)
    OBVIOUS
  <2>1. CASE i = l
    BY <1>1, <2>1
  <2>2. CASE i \in OpenNow
    <3>1. PICK j \in 2..n : lines[i] = OpenTag(stack[j].ctx)
      BY <2>2 DEF Aligned, AlignedIn
    <3> QED
      BY <1>2, <2>2, <3>1
  <2> QED
    BY <2>1, <2>2
<1>4. ASSUME NEW i \in o, NEW k \in o, NEW g \in 2..n, NEW h \in 2..n,
             m[i].ctx = s[g].ctx, m[k].ctx = s[h].ctx, g < h
      PROVE  i < k
  (* The last line is the tag of the innermost context only. *)
  <2>1. g # n
    BY <1>4
  <2>2. m[l].ctx = c
    BY DEF OpenTag
  <2>3. stack[g].ctx # c /\ s[g].ctx = stack[g].ctx
    BY <1>1, <2>1 DEF Chain
  <2>4. i \in OpenNow
    BY <1>4, <2>2, <2>3
  <2>5. CASE k = l
    BY <2>4, <2>5
  <2>6. CASE k \in OpenNow
    <3>1. lines[i].ctx = stack[g].ctx /\ lines[k].ctx = stack[h].ctx
      BY <1>4, <2>4, <2>6
    <3> QED
      BY <1>4, <2>4, <2>6, <3>1 DEF Aligned, AlignedIn
  <2> QED
    BY <2>5, <2>6
<1>5. \A i, k \in o : \A g, h \in 2..n :
        m[i].ctx = s[g].ctx /\ m[k].ctx = s[h].ctx /\ g < h => i < k
  BY <1>4
<1> QED
  BY <1>2, <1>3, <1>5 DEF AlignedIn

(* The opening tag of the innermost context, inside the tag of its parent. *)
LEMMA NestingTagged ==
  ASSUME TypeOK, Chain, Placed, Distinct, Nesting, history' = history, roots' = roots,
         stack # <<>>, Len(stack) # 1, Top.at = "row", lines' = Append(lines, OpenTag(Top.ctx)),
         NEW f \in Frame, stack' = WithTop(f), f = [Top EXCEPT !.at = "conf", !.tagged = TRUE]
  PROVE  Nesting'
<1>1. PICK n, l : n = Len(stack) /\ n \in Nat \ {0} /\ l = Len(lines) + 1 /\ l \in Nat
  <2>1. Len(stack) \in Nat \ {0}
    BY FrameTypes
  <2>2. Len(lines) + 1 \in Nat
    BY DEF TypeOK
  <2> QED
    BY <2>1, <2>2
<1>2. PICK c : c = Top.ctx /\ c = stack[n].ctx
  BY <1>1 DEF Top
<1>3. /\ Top \in Frame /\ f.ctx = c /\ f.at = "conf" /\ f.tagged = TRUE
  BY <1>2, FrameTypes DEF Frame
<1>4. /\ Bottom' = Bottom /\ Len(stack') = n /\ stack'[n] = f /\ stack' # <<>>
      /\ \A i \in 1..(n - 1) : stack'[i] = stack[i]
  BY <1>1, <1>2, <1>3, MovedOn
<1>5. /\ OpenTag(c) \in Line /\ OpenTag(c).kind = "open" /\ OpenTag(c).ctx = c
  BY <1>2, <1>3, LineTypes DEF Frame, OpenTag
<1>6. /\ n - 1 \in 1..n /\ n \in 2..n
      /\ \A j \in 2..n : stack[j].at # "row" <=> j <= n - 1
  <2>1. \A j \in 2..n : j = n \/ (j \in 1..(n - 1) /\ j <= n - 1)
    BY <1>1
  <2>2. stack[n].at = "row" /\ ~(n <= n - 1)
    BY <1>1 DEF Top
  <2>3. \A j \in 1..(n - 1) : stack[j].at = "loop"
    BY <1>1 DEF Placed
  <2> QED
    BY <1>1, <2>1, <2>2, <2>3
<1>7. Aligned /\ Bottom \in {r.id : r \in roots}
  BY <1>1 DEF Nesting, Based
<1>8. Directly(l, stack[n - 1].ctx) /\ ChildOf(c, stack[n - 1].ctx)
  <2>1. Directly(l, stack[n - 1].ctx)
    BY <1>1, <1>6, <1>7, Inner
  <2> QED
    BY <1>1, <1>2, <1>6, <2>1 DEF Chain
<1>9. \A k \in DOMAIN lines' : NestedAt(k)'
  BY <1>1, <1>2, <1>5, <1>8, NestedMore DEF Nesting
<1>10. \A i : i \in OpenNow' <=> i \in OpenNow \/ i = l
  BY <1>1, <1>2, <1>5, UnclosedMore
<1>11. /\ lines'[l] = OpenTag(c)
       /\ \A i \in OpenNow : i \in Nat /\ i < l /\ lines'[i] = lines[i]
  <2>1. \A i \in 1..Len(lines) : i < l /\ lines'[i] = lines[i]
    BY <1>1 DEF TypeOK
  <2>2. OpenNow \subseteq 1..Len(lines)
    BY <1>1 DEF OpenNow, Unclosed
  <2>3. lines'[l] = OpenTag(c)
    BY <1>1, <1>2 DEF TypeOK
  <2> QED
    BY <2>1, <2>2, <2>3
<1>12. ASSUME NEW j \in 2..n
       PROVE  /\ j = n \/ (j < n /\ stack[j].at # "row" /\ stack'[j] = stack[j])
              /\ stack'[j].ctx = stack[j].ctx /\ stack'[j].at # "row"
  <2>1. CASE j = n
    BY <1>2, <1>3, <1>4, <2>1
  <2>2. CASE j # n
    <3>1. j \in 1..(n - 1) /\ j < n /\ j <= n - 1
      BY <1>1, <2>2
    <3> QED
      BY <1>4, <1>6, <3>1
  <2> QED
    BY <2>1, <2>2
<1>13. PICK m, o, s : m = lines' /\ o = OpenNow' /\ s = stack' /\ Len(s) = n
  BY <1>4
<1>14. Aligned'
  <2>1. AlignedIn(o, m, s)
    <3>1. n \in Nat \ {0, 1} /\ n = Len(stack) /\ c = stack[n].ctx
      BY <1>1, <1>2
    <3>2. s[n].ctx = c /\ s[n].tagged /\ s[n].at # "row" /\ Len(s) = n
      BY <1>3, <1>4, <1>13
    <3>3. \A j \in 2..n : /\ j = n \/ (stack[j].at # "row" /\ s[j] = stack[j])
                          /\ s[j].ctx = stack[j].ctx
      BY <1>12, <1>13
    <3>4. \A i : i \in o <=> i \in OpenNow \/ i = l
      BY <1>10, <1>13
    <3>5. m[l] = OpenTag(c) /\ \A i \in OpenNow : i < l /\ m[i] = lines[i]
      BY <1>11, <1>13
    <3> QED
      BY <1>1, <1>7, <3>1, <3>2, <3>3, <3>4, <3>5, AlignedTagged
  <2> QED
    BY <1>13, <2>1 DEF Aligned
<1>15. Based'
  <2>1. stack'[1] = stack[1] /\ ~stack[1].tagged
    BY <1>1, <1>4 DEF Nesting, Based
  <2>2. (Bottom \in {r.id : r \in roots})'
    BY <1>4, <1>7
  <2> QED
    BY <2>1, <2>2 DEF Based
<1> QED
  BY <1>9, <1>14, <1>15 DEF Nesting

(* A directive of the innermost context. *)
LEMMA NestingPushed ==
  ASSUME TypeOK, Chain, Placed, Distinct, Nesting, history' = history, roots' = roots,
         stack # <<>>, Top.at = "push", NEW e \in Dir,
         lines' = Append(lines, DirLine(Top.ctx, e)),
         NEW f \in Frame, stack' = WithTop(f), f.ctx = Top.ctx, f.tagged = Top.tagged, f.at = "push"
  PROVE  Nesting'
<1>1. PICK n, l : n = Len(stack) /\ n \in Nat \ {0} /\ l = Len(lines) + 1 /\ l \in Nat
  <2>1. Len(stack) \in Nat \ {0}
    BY FrameTypes
  <2>2. Len(lines) + 1 \in Nat
    BY DEF TypeOK
  <2> QED
    BY <2>1, <2>2
<1>2. PICK c : c = Top.ctx /\ c = stack[n].ctx
  BY <1>1 DEF Top
<1>3. DirLine(c, e) \in Line /\ DirLine(c, e).kind = "dir" /\ DirLine(c, e).ctx = c
  <2>1. c \in Ctx \union {ZeroId}
    BY <1>2, FrameTypes DEF Frame
  <2> QED
    BY <2>1, LineTypes DEF DirLine
<1>4. Aligned /\ Based /\ Bottom \in {r.id : r \in roots}
  BY DEF Nesting, Based
<1>5. n \in 1..n /\ \A j \in 2..n : stack[j].at # "row" <=> j <= n
  <2>1. \A j \in 2..n : j <= n /\ (j = n \/ j \in 1..(n - 1))
    BY <1>1
  <2> QED
    BY <1>1, <2>1 DEF Placed, Top
<1>6. Directly(l, c)
  BY <1>1, <1>2, <1>4, <1>5, Inner
<1>7. \A k \in DOMAIN lines' : NestedAt(k)'
  BY <1>1, <1>2, <1>3, <1>6, NestedMore DEF Nesting
<1>8. OpenNow' = OpenNow
  BY <1>2, <1>3, UnclosedMore
<1>9. \A i \in OpenNow : lines'[i] = lines[i]
  BY DEF OpenNow, Unclosed, TypeOK
<1>10. (Aligned /\ Based)'
  BY <1>1, <1>4, <1>8, <1>9, AlignedMoved
<1> QED
  BY <1>7, <1>10 DEF Nesting

(* No line: the innermost frame, which has read its row or is the base whose *)
(* row is there, moves on.                                                   *)
LEMMA NestingMoved ==
  ASSUME TypeOK, Nesting, history' = history, roots' = roots, stack # <<>>, lines' = lines,
         NEW f \in Frame, stack' = WithTop(f), f.ctx = Top.ctx, f.tagged = Top.tagged,
         Len(stack) # 1 => f.at # "row" /\ Top.at # "row",
         Bottom \in {r.id : r \in roots}
  PROVE  Nesting'
<1>1. (\A k \in DOMAIN lines' : NestedAt(k)') /\ OpenNow' = OpenNow
  BY NestedSame DEF Nesting
<1>2. (Aligned /\ Based)'
  BY <1>1, AlignedMoved DEF Nesting
<1> QED
  BY <1>1, <1>2 DEF Nesting

(* A sub-context is entered, whose row is still to be read. *)
LEMMA AlignedEntered ==
  ASSUME Aligned, NEW n \in Nat \ {0}, n = Len(stack), NEW s, Len(s) = n + 1,
         s[n + 1].at = "row", ~OnStack(s[n + 1].ctx),
         \A j \in 2..n : /\ s[j].at = "row" <=> stack[j].at = "row"
                         /\ s[j].ctx = stack[j].ctx /\ s[j].tagged = stack[j].tagged
  PROVE  AlignedIn(OpenNow, lines, s)
<1>1. \A j \in 2..(n + 1) : j = n + 1 \/ j \in 2..n
  OBVIOUS
<1>2. \A j \in 2..n : j \in 2..(n + 1) /\ j \in 1..n
  OBVIOUS
<1>3. ASSUME NEW i \in OpenNow
      PROVE  \E j \in 2..(n + 1) : s[j].at # "row" /\ lines[i] = OpenTag(s[j].ctx)
  <2>1. PICK j \in 2..n : stack[j].at # "row" /\ lines[i] = OpenTag(stack[j].ctx)
    BY DEF Aligned, AlignedIn
  <2> QED
    BY <1>2, <2>1
<1>4. ASSUME NEW j \in 2..(n + 1), s[j].at # "row"
      PROVE  s[j].tagged /\ \E i \in OpenNow : lines[i] = OpenTag(s[j].ctx)
  <2>1. j \in 2..n /\ stack[j].at # "row"
    BY <1>1, <1>4
  <2>2. stack[j].tagged /\ \E i \in OpenNow : lines[i] = OpenTag(stack[j].ctx)
    BY <2>1 DEF Aligned, AlignedIn
  <2> QED
    BY <2>1, <2>2
<1>5. ASSUME NEW i \in OpenNow PROVE lines[i].ctx # s[n + 1].ctx
  <2>1. PICK j \in 2..n : lines[i] = OpenTag(stack[j].ctx)
    BY DEF Aligned, AlignedIn
  <2>2. lines[i].ctx = stack[j].ctx
    BY <2>1 DEF OpenTag
  <2> QED
    BY <1>2, <2>1, <2>2 DEF OnStack
<1>6. ASSUME NEW i \in OpenNow, NEW k \in OpenNow, NEW g \in 2..(n + 1), NEW h \in 2..(n + 1),
             lines[i].ctx = s[g].ctx, lines[k].ctx = s[h].ctx, g < h
      PROVE  i < k
  <2>1. g \in 2..n /\ h \in 2..n
    BY <1>1, <1>5, <1>6
  <2>2. lines[i].ctx = stack[g].ctx /\ lines[k].ctx = stack[h].ctx
    BY <1>6, <2>1
  <2> QED
    BY <1>6, <2>1, <2>2 DEF Aligned, AlignedIn
<1>7. \A i, k \in OpenNow : \A g, h \in 2..(n + 1) :
        lines[i].ctx = s[g].ctx /\ lines[k].ctx = s[h].ctx /\ g < h => i < k
  BY <1>6
<1> QED
  BY <1>3, <1>4, <1>7 DEF AlignedIn

LEMMA NestingEntered ==
  ASSUME TypeOK, Once, Nesting, history' = history, roots' = roots, stack # <<>>,
         lines' = lines, Top.at = "loop", NEW k \in Top.kids,
         stack' = Append(WithTop([Top EXCEPT !.kids = @ \ {k}]), NewFrame(k.id))
  PROVE  Nesting'
<1>1. PICK n : n = Len(stack) /\ n \in Nat \ {0}
  BY FrameTypes
<1>2. PICK f, new : f = [Top EXCEPT !.kids = @ \ {k}] /\ new = NewFrame(k.id)
  OBVIOUS
<1>3. Top \in Frame /\ Top \in Frames /\ Top = stack[n]
  BY <1>1, FrameTypes DEF Frames, Top
<1>4. /\ f \in Frame /\ f.ctx = Top.ctx /\ f.at = "loop" /\ f.tagged = Top.tagged /\ k \in Row
  BY <1>2, <1>3 DEF Frame
<1>5. new \in Frame /\ new.ctx = k.id /\ new.at = "row"
  BY <1>2, <1>4, LineTypes DEF NewFrame, Row
<1>6. PICK s : /\ s = stack' /\ Len(s) = n + 1 /\ s[n + 1] = new /\ s[n] = f
               /\ \A i \in 1..(n - 1) : s[i] = stack[i]
  <2> DEFINE t == Append([stack EXCEPT ![Len(stack)] = f], new)
  <2>1. stack \in Seq(Frame)
    BY DEF TypeOK
  <2>2. /\ Len(t) = Len(stack) + 1 /\ t[Len(stack) + 1] = new
        /\ t[Len(stack)] = f
        /\ \A i \in 1..(Len(stack) - 1) : t[i] = stack[i]
    BY <1>4, <1>5, <2>1, LastReplacedAndAdded
  <2>3. stack' = t
    BY <1>2 DEF WithTop
  <2> HIDE DEF t
  <2> QED
    BY <1>1, <2>2, <2>3
<1>7. /\ \A j \in 1..n : j = n \/ j \in 1..(n - 1)
      /\ \A j \in 2..n : j \in 1..n
      /\ 1 \in 1..n
  BY <1>1
<1>8. \A j \in 1..n : /\ s[j].at = "row" <=> stack[j].at = "row"
                      /\ s[j].ctx = stack[j].ctx /\ s[j].tagged = stack[j].tagged
  BY <1>3, <1>4, <1>6, <1>7
<1>9. ~OnStack(k.id)
  BY <1>3 DEF Once, Fresh, Visited
<1>10. AlignedIn(OpenNow, lines, s)
  <2>1. Aligned
    BY DEF Nesting
  <2>2. Len(s) = n + 1 /\ s[n + 1].at = "row" /\ ~OnStack(s[n + 1].ctx)
    BY <1>5, <1>6, <1>9
  <2> QED
    BY <1>1, <1>7, <1>8, <2>1, <2>2, AlignedEntered
<1>11. (\A j \in DOMAIN lines' : NestedAt(j)') /\ OpenNow' = OpenNow
  BY NestedSame DEF Nesting
<1>12. Aligned'
  BY <1>6, <1>10, <1>11 DEF Aligned
<1>13. Based'
  <2>1. Bottom \in {r.id : r \in roots} /\ ~stack[1].tagged
    BY DEF Nesting, Based
  <2>2. stack'[1].ctx = stack[1].ctx /\ stack'[1].tagged = stack[1].tagged
    BY <1>6, <1>7, <1>8
  <2>3. (Bottom \in {r.id : r \in roots})'
    BY <2>1, <2>2 DEF Bottom
  <2> QED
    BY <2>1, <2>2, <2>3 DEF Based
<1> QED
  BY <1>11, <1>12, <1>13 DEF Nesting

(* The tag of the innermost context is closed, and its frame gone. *)
LEMMA AlignedLeft ==
  ASSUME Chain, Aligned, NEW n \in Nat \ {0}, n = Len(stack), NEW o, NEW m, NEW s,
         Len(s) = n - 1, \A j \in 1..(n - 1) : s[j] = stack[j],
         \A i : i \in o <=> i \in OpenNow /\ lines[i].ctx # stack[n].ctx,
         \A i \in OpenNow : m[i] = lines[i]
  PROVE  AlignedIn(o, m, s)
<1>1. /\ \A j \in 2..n : j = n \/ j \in 2..(n - 1)
      /\ \A j \in 2..(n - 1) : j \in 2..n /\ j \in 1..n /\ j \in 1..(n - 1) /\ j # n
      /\ n \in 1..n
  OBVIOUS
<1>2. \A j \in 2..(n - 1) : s[j] = stack[j] /\ stack[j].ctx # stack[n].ctx
  BY <1>1 DEF Chain
<1>3. ASSUME NEW i \in o
      PROVE  \E j \in 2..(n - 1) : s[j].at # "row" /\ m[i] = OpenTag(s[j].ctx)
  <2>1. i \in OpenNow /\ lines[i].ctx # stack[n].ctx /\ m[i] = lines[i]
    BY <1>3
  <2>2. PICK j \in 2..n : stack[j].at # "row" /\ lines[i] = OpenTag(stack[j].ctx)
    BY <2>1 DEF Aligned, AlignedIn
  <2>3. lines[i].ctx = stack[j].ctx
    BY <2>2 DEF OpenTag
  <2> QED
    BY <1>1, <1>2, <2>1, <2>2, <2>3
<1>4. ASSUME NEW j \in 2..(n - 1), s[j].at # "row"
      PROVE  s[j].tagged /\ \E i \in o : m[i] = OpenTag(s[j].ctx)
  <2>1. stack[j].at # "row" /\ s[j] = stack[j] /\ stack[j].ctx # stack[n].ctx
    BY <1>2, <1>4
  <2>2. stack[j].tagged /\ \E i \in OpenNow : lines[i] = OpenTag(stack[j].ctx)
    BY <1>1, <2>1 DEF Aligned, AlignedIn
  <2>3. PICK i \in OpenNow : lines[i] = OpenTag(stack[j].ctx)
    BY <2>2
  <2>4. lines[i].ctx = stack[j].ctx
    BY <2>3 DEF OpenTag
  <2>5. i \in o /\ m[i] = OpenTag(s[j].ctx)
    BY <2>1, <2>3, <2>4
  <2> QED
    BY <2>1, <2>2, <2>5
<1>5. ASSUME NEW i \in o, NEW k \in o, NEW g \in 2..(n - 1), NEW h \in 2..(n - 1),
             m[i].ctx = s[g].ctx, m[k].ctx = s[h].ctx, g < h
      PROVE  i < k
  <2>1. /\ i \in OpenNow /\ k \in OpenNow /\ g \in 2..n /\ h \in 2..n
        /\ lines[i].ctx = stack[g].ctx /\ lines[k].ctx = stack[h].ctx
    BY <1>1, <1>2, <1>5
  <2> QED
    BY <1>5, <2>1 DEF Aligned, AlignedIn
<1>6. \A i, k \in o : \A g, h \in 2..(n - 1) :
        m[i].ctx = s[g].ctx /\ m[k].ctx = s[h].ctx /\ g < h => i < k
  BY <1>5
<1> QED
  BY <1>3, <1>4, <1>6 DEF AlignedIn

LEMMA NestingLeft ==
  ASSUME TypeOK, Chain, Placed, Distinct, Nesting, history' = history, roots' = roots,
         stack # <<>>, stack' = Pop, Top.at = "loop",
         lines' = IF Top.tagged THEN Append(lines, CloseTag(Top.ctx)) ELSE lines
  PROVE  Nesting'
<1>1. PICK n, l : n = Len(stack) /\ n \in Nat \ {0} /\ l = Len(lines) + 1 /\ l \in Nat
  <2>1. Len(stack) \in Nat \ {0}
    BY FrameTypes
  <2>2. Len(lines) + 1 \in Nat
    BY DEF TypeOK
  <2> QED
    BY <2>1, <2>2
<1>2. PICK c : c = Top.ctx /\ c = stack[n].ctx
  BY <1>1 DEF Top
<1>3. PICK s : /\ s = stack' /\ s \in Seq(Frame) /\ Len(s) = n - 1
               /\ \A j \in 1..(n - 1) : s[j] = stack[j]
  BY <1>1, LastDropped DEF Pop, TypeOK
<1>4. Aligned /\ Based /\ Bottom \in {r.id : r \in roots}
  BY DEF Nesting, Based
<1>5. CASE n = 1
  <2>1. ~Top.tagged
    BY <1>1, <1>4, <1>5 DEF Based, Top
  <2>2. stack' = <<>>
    BY <1>3, <1>5
  <2> QED
    BY <2>1, <2>2, NestedSame DEF Nesting
<1>6. CASE n # 1
  <2>1. n \in 2..n /\ n \in 1..n /\ Top = stack[n]
    BY <1>1, <1>6 DEF Top
  <2>2. Top.tagged
    BY <1>1, <1>4, <2>1 DEF Aligned, AlignedIn
  <2>3. CloseTag(c) \in Line /\ CloseTag(c).kind = "close" /\ CloseTag(c).ctx = c
    <3>1. c \in Ctx \union {ZeroId}
      BY <1>2, FrameTypes DEF Frame
    <3> QED
      BY <3>1, LineTypes DEF CloseTag
  <2>4. lines' = Append(lines, CloseTag(c))
    BY <1>2, <2>2
  <2>5. \A j \in 2..Len(stack) : stack[j].at # "row" <=> j <= n
    <3>1. \A j \in 2..n : j <= n /\ (j = n \/ j \in 1..(n - 1))
      BY <1>1
    <3> QED
      BY <1>1, <3>1 DEF Placed, Top
  <2>6. Directly(l, c)
    BY <1>1, <1>2, <1>4, <2>1, <2>5, Inner
  <2>7. \A k \in DOMAIN lines' : NestedAt(k)'
    BY <1>1, <2>3, <2>4, <2>6, NestedMore DEF Nesting
  <2>8. PICK o, m : o = OpenNow' /\ m = lines'
    OBVIOUS
  <2>9. \A i : i \in o <=> i \in OpenNow /\ lines[i].ctx # c
    BY <2>3, <2>4, <2>8, UnclosedMore
  <2>10. \A i \in OpenNow : m[i] = lines[i]
    BY <2>4, <2>8 DEF OpenNow, Unclosed, TypeOK
  <2>11. AlignedIn(o, m, s)
    BY <1>1, <1>2, <1>3, <1>4, <2>9, <2>10, AlignedLeft
  <2>12. Aligned'
    BY <1>3, <2>8, <2>11 DEF Aligned
  <2>13. Based'
    <3>1. 1 \in 1..(n - 1)
      BY <1>1, <1>6
    <3>2. stack'[1] = stack[1]
      BY <1>3, <3>1
    <3>3. (Bottom \in {r.id : r \in roots})'
      BY <1>4, <3>2 DEF Bottom
    <3> QED
      BY <1>4, <3>2, <3>3 DEF Based
  <2> QED
    BY <2>7, <2>12, <2>13 DEF Nesting
<1> QED
  BY <1>5, <1>6

(* The walk begins. *)
LEMMA NestingBegun ==
  ASSUME lines = <<>>, lines' = lines, roots' = RootRows,
         NEW id \in RootIds \union {ZeroId}, stack' = <<NewFrame(id)>>
  PROVE  Nesting'
<1>1. PICK s : s = stack' /\ Len(s) = 1 /\ s[1].ctx = id /\ s[1].at = "row" /\ s[1].tagged = FALSE
  BY DEF NewFrame
<1>2. OpenNow' = {} /\ DOMAIN lines' = {}
  BY DEF OpenNow, Unclosed
<1>3. \A j \in 2..1 : FALSE
  OBVIOUS
<1>4. AlignedIn({}, lines', s)
  BY <1>1, <1>3 DEF AlignedIn
<1>5. Aligned'
  BY <1>1, <1>2, <1>4 DEF Aligned
<1>6. Based'
  <2>1. Bottom' = id /\ Len(stack') = 1 /\ (Top.at)' = "row" /\ ~stack'[1].tagged
    BY <1>1 DEF Bottom, Top
  <2>2. id \in RootIds => (Bottom \in {r.id : r \in roots})'
    BY <2>1 DEF RootIds
  <2> QED
    BY <2>1, <2>2 DEF Based
<1> QED
  BY <1>2, <1>5, <1>6 DEF Nesting

(* Nothing of the walk happens. *)
LEMMA NestingSame ==
  ASSUME TypeOK, Nesting, history' = history, roots' = roots, stack' = stack, lines' = lines
  PROVE  Nesting'
<1>1. (\A k \in DOMAIN lines' : NestedAt(k)') /\ OpenNow' = OpenNow
  BY NestedSame DEF Nesting
<1>2. Aligned => Aligned'
  BY <1>1 DEF Aligned
<1>3. Based => Based'
  BY DEF Based, Bottom, Top
<1> QED
  BY <1>1, <1>2, <1>3 DEF Nesting

LEMMA NestingNext ==
  ASSUME TypeOK, Chain, Placed, Orderly, Once, Nesting, [Next]_vars, Orderly'
  PROVE  Nesting'
<1>1. history' = history /\ trouble' = {}
  BY OrderlyNext DEF Orderly
<1>2. CASE \/ CheckModule \/ LoadBackend \/ Prepare \/ DefineConn \/ OpenConn
           \/ CloseConn \/ CleanUp \/ Commit \/ NullValue \/ StackOverflow \/ UNCHANGED vars
  <2>1. stack' = stack /\ lines' = lines /\ roots' = roots
    BY <1>2 DEF CheckModule, LoadBackend, Prepare, DefineConn, OpenConn, Hook,
                CloseConn, CleanUp, Commit, NullValue, StackOverflow, Crash, Undisturbed, vars
  <2> QED
    BY <1>1, <2>1, NestingSame
<1>3. CASE SelectRoot
  <2>1. stack = <<>> /\ lines = <<>> /\ lines' = lines /\ roots' = RootRows
    BY <1>3 DEF SelectRoot, Placed
  <2>2. CASE stack' = stack
    BY <2>1, <2>2 DEF Nesting
  <2>3. CASE \E id \in RootIds \union {ZeroId} : stack' = <<NewFrame(id)>>
    BY <2>1, <2>3, NestingBegun
  <2> QED
    BY <1>3, <2>2, <2>3 DEF SelectRoot
(* What goes wrong is noted. *)
<1>4. CASE ReadRowFailed \/ SelectFailed \/ RowVanished \/ RootFailed
  BY <1>1, <1>4 DEF ReadRowFailed, SelectFailed, RowVanished, RootFailed, Fails, Note
<1>5. ASSUME NEW at, In(at)
      PROVE  /\ stack # <<>> /\ Top.at = at /\ Top \in Frame /\ Distinct
             /\ at # "row" => Bottom \in {r.id : r \in roots}
  BY <1>5, FrameTypes DEF In, Once, Nesting, Based
<1>6. CASE ReadRow
  <2>1. stack # <<>> /\ Top.at = "row" /\ Top \in Frame /\ Distinct /\ roots' = roots
    BY <1>5, <1>6 DEF ReadRow, Undisturbed
  <2>2. PICK r \in RowsOf(Now, Top.ctx) :
          /\ lines' = IF IsTagged(r) THEN Append(lines, OpenTag(Top.ctx)) ELSE lines
          /\ SetTop([Top EXCEPT !.at = "conf", !.tagged = IsTagged(r)])
          /\ IsNamed(r)
    BY <1>1, <1>6 DEF ReadRow, Note
  <2>3. CASE Len(stack) # 1
    <3>1. PICK f : f = [Top EXCEPT !.at = "conf", !.tagged = TRUE]
      OBVIOUS
    <3>2. f \in Frame
      BY <2>1, <3>1 DEF Frame
    <3>3. IsTagged(r) = TRUE
      BY <2>2, <2>3 DEF IsTagged
    <3>4. lines' = Append(lines, OpenTag(Top.ctx)) /\ stack' = WithTop(f)
      BY <2>2, <3>1, <3>3 DEF SetTop
    <3> QED
      BY <1>1, <2>1, <2>3, <3>1, <3>2, <3>4, NestingTagged
  <2>4. CASE Len(stack) = 1
    <3>1. PICK f : f = [Top EXCEPT !.at = "conf", !.tagged = FALSE]
      OBVIOUS
    <3>2. f \in Frame /\ f.ctx = Top.ctx /\ f.tagged = FALSE
      BY <2>1, <3>1 DEF Frame
    <3>3. IsTagged(r) = FALSE
      BY <2>4 DEF IsTagged
    <3>4. lines' = lines /\ stack' = WithTop(f)
      BY <2>2, <3>1, <3>3 DEF SetTop
    (* The base has a row, so it is not the id 0. *)
    <3>5. Top = stack[1] /\ Top.ctx = Bottom
      BY <2>4 DEF Top, Bottom
    <3>6. Bottom # ZeroId
      <4>1. Bottom \in Ctx
        BY <2>2, <3>5, TableTypes DEF RowsOf, Row
      <4> QED
        BY <4>1, ReadDbAssumption
    <3>7. Bottom \in {x.id : x \in roots} /\ Top.tagged = FALSE
      <4>1. Bottom \in {x.id : x \in roots} /\ ~Top.tagged
        BY <2>1, <3>5, <3>6 DEF Nesting, Based
      <4>2. Top.tagged \in BOOLEAN
        BY <2>1 DEF Frame
      <4> QED
        BY <4>1, <4>2
    <3> QED
      BY <1>1, <2>1, <2>4, <3>2, <3>4, <3>7, NestingMoved
  <2> QED
    BY <2>3, <2>4
<1>7. CASE SelectConf
  <2>1. PICK f : f = [Top EXCEPT !.at = "push", !.dirs = DirsOf(Now, Top.ctx)]
    OBVIOUS
  <2>2. stack # <<>> /\ Top.at = "conf" /\ Top \in Frame /\ Bottom \in {r.id : r \in roots}
    BY <1>5, <1>7 DEF SelectConf
  <2>3. f \in Frame /\ f.ctx = Top.ctx /\ f.at = "push" /\ f.tagged = Top.tagged
    BY <2>1, <2>2, TableTypes DEF Frame
  <2>4. stack' = WithTop(f) /\ lines' = lines /\ roots' = roots
    BY <1>7, <2>1 DEF SelectConf, SetTop, Undisturbed
  <2> QED
    BY <1>1, <2>2, <2>3, <2>4, NestingMoved
<1>8. CASE PushDirective
  <2>1. stack # <<>> /\ Top.at = "push" /\ Top \in Frame /\ Distinct
    BY <1>5, <1>8 DEF PushDirective
  <2>2. PICK e \in Top.dirs : /\ lines' = Append(lines, DirLine(Top.ctx, e))
                             /\ stack' = WithTop([Top EXCEPT !.dirs = @ \ {e}])
    BY <1>8 DEF PushDirective, SetTop
  <2>3. PICK f : f = [Top EXCEPT !.dirs = @ \ {e}]
    OBVIOUS
  <2>4. f \in Frame /\ f.ctx = Top.ctx /\ f.at = "push" /\ f.tagged = Top.tagged /\ e \in Dir
    BY <2>1, <2>3 DEF Frame
  <2>5. roots' = roots /\ stack' = WithTop(f)
    BY <1>8, <2>2, <2>3 DEF PushDirective, Undisturbed
  <2> QED
    BY <1>1, <2>1, <2>2, <2>4, <2>5, NestingPushed
<1>9. CASE DirectivesDone
  <2>1. PICK f : f = [Top EXCEPT !.at = "ctxs"]
    OBVIOUS
  <2>2. stack # <<>> /\ Top.at = "push" /\ Top \in Frame /\ Bottom \in {r.id : r \in roots}
    BY <1>5, <1>9 DEF DirectivesDone
  <2>3. f \in Frame /\ f.ctx = Top.ctx /\ f.at = "ctxs" /\ f.tagged = Top.tagged
    BY <2>1, <2>2 DEF Frame
  <2>4. stack' = WithTop(f) /\ lines' = lines /\ roots' = roots
    BY <1>9, <2>1 DEF DirectivesDone, SetTop, Undisturbed
  <2> QED
    BY <1>1, <2>2, <2>3, <2>4, NestingMoved
<1>10. CASE SelectCtxs
  <2>1. PICK f : f = [Top EXCEPT !.at = "loop", !.kids = KidsOf(Now, Top.ctx)]
    OBVIOUS
  <2>2. stack # <<>> /\ Top.at = "ctxs" /\ Top \in Frame /\ Bottom \in {r.id : r \in roots}
    BY <1>5, <1>10 DEF SelectCtxs
  <2>3. f \in Frame /\ f.ctx = Top.ctx /\ f.at = "loop" /\ f.tagged = Top.tagged
    BY <2>1, <2>2, TableTypes DEF Frame
  <2>4. stack' = WithTop(f) /\ lines' = lines /\ roots' = roots
    BY <1>10, <2>1 DEF SelectCtxs, SetTop, Undisturbed
  <2> QED
    BY <1>1, <2>2, <2>3, <2>4, NestingMoved
<1>11. CASE EnterCtx
  <2>1. stack # <<>> /\ Top.at = "loop" /\ lines' = lines /\ roots' = roots
    BY <1>5, <1>11 DEF EnterCtx, Undisturbed
  <2>2. PICK k \in Top.kids :
          stack' = Append(WithTop([Top EXCEPT !.kids = @ \ {k}]), NewFrame(k.id))
    BY <1>11 DEF EnterCtx
  <2> QED
    BY <1>1, <2>1, <2>2, NestingEntered
<1>12. CASE LeaveCtx
  BY <1>1, <1>5, <1>12, NestingLeft DEF LeaveCtx, Undisturbed
<1> QED
  BY <1>2, <1>3, <1>4, <1>6, <1>7, <1>8, <1>9, <1>10, <1>11, <1>12 DEF Next, Step, Walk

(* The array of an undisturbed read nests as the contexts do in the tables,  *)
(* for every database, whatever other clients add while it is read.          *)
THEOREM AlwaysNested == Spec => []Nested
<1> DEFINE Inv == /\ TypeOK /\ Placed
                  /\ Treelike => Chain
                  /\ Orderly => Once /\ Nesting
<1>1. Init => Inv
  <2> SUFFICES ASSUME Init PROVE Inv
    OBVIOUS
  <2>1. TypeOK
    BY TypeInit
  <2>2. stack = <<>> /\ lines = <<>>
    BY DEF Init
  <2>3. Placed
    BY <2>2 DEF Placed, DirsInScope
  <2>4. Chain /\ Once /\ Nesting
    BY <2>2 DEF Chain, Once, Distinct, Nesting
  <2> QED
    BY <2>1, <2>3, <2>4
<1>2. Inv /\ [Next]_vars => Inv'
  <2> SUFFICES ASSUME Inv, [Next]_vars PROVE Inv'
    OBVIOUS
  <2>1. TypeOK' /\ Placed'
    BY TypeNext, PlacedNext
  <2>2. (Treelike => Chain)'
    BY ChainNext, TreelikeNext
  <2>3. ASSUME Orderly' PROVE Once' /\ Nesting'
    <3>1. Orderly /\ Treelike
      BY <2>3, OrderlyNext, OrderlyTables
    <3> QED
      BY <2>3, <3>1, OnceNext, NestingNext
  <2> QED
    BY <2>1, <2>2, <2>3
<1>3. Inv => Nested
  <2> SUFFICES ASSUME Inv, Orderly, NEW k \in DOMAIN lines
               PROVE  Directly(k, IF IsOpen(k) THEN ParentOf(lines[k].ctx) ELSE lines[k].ctx)
    BY DEF Nested
  <2>1. PICK c, z : /\ z = lines[k].ctx
                    /\ Directly(k, c)
                    /\ IF lines[k].kind = "open" THEN ChildOf(z, c) ELSE c = z
    BY DEF Nesting, NestedAt
  <2>2. ChildOf(z, c) => ParentOf(z) = c
    <3>1. ASSUME ChildOf(z, c) PROVE \E r \in Last.ctxs : r.id = z /\ r.parent = c
      BY <3>1, OrderlyTables DEF ChildOf
    <3> QED
      BY <3>1 DEF ParentOf, Orderly, UniqueIds
  <2> QED
    BY <2>1, <2>2 DEF IsOpen
<1> QED
  BY <1>1, <1>2, <1>3, PTL DEF Spec

-----------------------------------------------------------------------------
(* All that was in the tables below the base before the first query is       *)
(* delivered, and nothing that is not there after the last.                  *)
(*                                                                           *)
(* Where the closing tag of a context stands, everything below it that was   *)
(* there from the beginning is delivered; what a frame still lacks is in its *)
(* results or is being worked on by the frame above it.                      *)

First == history[1]

Closed(c) == Seen(CloseTag(c))

DirsDone(c) == \A d \in DirsOf(First, c) : Seen(DirLine(c, d))

KidsDone(c) == \A k \in KidsOf(First, c) : Closed(k.id)

(* What a frame lacks is left to do, or the frame above it is in `called'. *)
Paid(f, called) ==
  /\ f.at = "push" => \A d \in DirsOf(First, f.ctx) : Seen(DirLine(f.ctx, d)) \/ d \in f.dirs
  /\ f.at \in {"ctxs", "loop"} => DirsDone(f.ctx)
  /\ f.at = "loop" =>
       \A k \in KidsOf(First, f.ctx) : Closed(k.id) \/ k \in f.kids \/ k.id = called

Owed ==
  /\ \A c : Closed(c) => DirsDone(c) /\ KidsDone(c)
  /\ \A i \in 1..(Len(stack) - 1) : \A f, c : f = stack[i] /\ c = stack[i + 1].ctx => Paid(f, c)
  /\ stack # <<>> => \A f : f = Top => Paid(f, NoCtx)
  /\ stack = <<>> => \A r : roots = {r} => \A b : b = r.id => DirsDone(b) /\ KidsDone(b)

(* What a frame is at, and what it has still to do, lies below b. *)
InBounds(f, b) ==
  /\ f.ctx \in Inside(Last, b)
  /\ f.dirs \subseteq DirsOf(Last, f.ctx)
  /\ \A k \in f.kids : k \in Last.ctxs /\ k.parent = f.ctx /\ k.id \in CtxWhere

Within ==
  \A r, b : roots = {r} /\ b = r.id =>
    /\ \A f \in Frames : InBounds(f, b)
    /\ \A c, d : Seen(DirLine(c, d)) => <<d, c>> \in Settings(Last, b)

(* Without exactly one root nothing is read. *)
Alone == Cardinality(roots) # 1 => lines = <<>> /\ stack = <<>>

Shut == stack = <<>> => OpenNow = {}

Whole == Owed /\ Within /\ Alone /\ Shut

(* The walk is over when the connection is closed. *)
Ended == pc \in {"close", "cleanup", "done"} => stack = <<>>

-----------------------------------------------------------------------------
(* The tables of an orderly read only grow. *)
LEMMA GrowingTables ==
  ASSUME TypeOK, Orderly, NEW c
  PROVE  /\ First \in Table /\ Last \in Table
         /\ DirsOf(First, c) \subseteq DirsOf(Now, c) /\ DirsOf(Now, c) \subseteq DirsOf(Last, c)
         /\ KidsOf(First, c) \subseteq KidsOf(Now, c)
         /\ Now.ctxs \subseteq Last.ctxs
<1>1. /\ Len(history) \in DOMAIN history /\ ver \in DOMAIN history /\ 1 \in DOMAIN history
      /\ 1 <= ver /\ ver <= Len(history)
      /\ \A v \in DOMAIN history : history[v] \in Table
  BY DEF TypeOK
<1>2. /\ First.ctxs \subseteq Now.ctxs /\ Now.ctxs \subseteq Last.ctxs
      /\ First.confs \subseteq Now.confs /\ Now.confs \subseteq Last.confs
      /\ First.maps \subseteq Now.maps /\ Now.maps \subseteq Last.maps
  BY <1>1 DEF Orderly, OnlyGrows, First, Now, Last
<1> QED
  BY <1>1, <1>2 DEF DirsOf, KidsOf, First, Last

(* Sub-contexts that the WHERE clause admits are inside, and so is the base. *)
LEMMA InsideBase ==
  ASSUME NEW t, NEW b \in Ids(t)
  PROVE  b \in Inside(t, b)
  BY DEF Inside

LEMMA InsideKid ==
  ASSUME NEW t, NEW b, NEW k \in t.ctxs, k.parent \in Inside(t, b), k.id \in CtxWhere
  PROVE  k.id \in Inside(t, b)
  BY DEF Inside, Ids

LEMMA InsideLeast ==
  ASSUME NEW t, NEW b, NEW S \in SUBSET Ids(t), b \in S,
         \A r \in t.ctxs : r.parent \in S /\ r.id \in CtxWhere => r.id \in S
  PROVE  Inside(t, b) \subseteq S
  BY DEF Inside

-----------------------------------------------------------------------------
(* What is done stays done. *)
LEMMA DoneStays ==
  ASSUME history' = history, \A x : Seen(x) => Seen(x)'
  PROVE  /\ \A c : (DirsDone(c) => DirsDone(c)') /\ (KidsDone(c) => KidsDone(c)')
         /\ \A c : Closed(c) => Closed(c)'
         /\ \A f, c : Paid(f, c) => Paid(f, c)'
<1>1. \A c : DirsOf(First, c)' = DirsOf(First, c) /\ KidsOf(First, c)' = KidsOf(First, c)
  BY DEF First, DirsOf, KidsOf
<1>2. \A c : Closed(c) => Closed(c)'
  BY DEF Closed
<1>3. \A c : (DirsDone(c) => DirsDone(c)') /\ (KidsDone(c) => KidsDone(c)')
  BY <1>1, <1>2 DEF DirsDone, KidsDone
<1> QED
  BY <1>1, <1>2, <1>3 DEF Paid

LEMMA BoundsStay ==
  ASSUME history' = history
  PROVE  /\ \A f, b : InBounds(f, b)' <=> InBounds(f, b)
         /\ \A b : Settings(Last, b)' = Settings(Last, b)
<1>1. Last' = Last
  BY DEF Last
<1>2. \A b : Inside(Last, b)' = Inside(Last, b)
  BY <1>1 DEF Inside, Ids
<1>3. \A c : DirsOf(Last, c)' = DirsOf(Last, c)
  BY <1>1 DEF DirsOf
<1> QED
  BY <1>1, <1>2, <1>3 DEF InBounds, Settings

(* The innermost frame moves on. *)
LEMMA OwedMoved ==
  ASSUME TypeOK, Owed, history' = history, stack # <<>>, NEW f \in Frame,
         stack' = WithTop(f), f.ctx = Top.ctx,
         \A x : Seen(x) => Seen(x)', \A c : Closed(c)' => Closed(c), Paid(f, NoCtx)'
  PROVE  Owed'
<1>1. PICK n, s : n = Len(stack) /\ n \in Nat \ {0} /\ s = stack'
  BY FrameTypes
<1>2. /\ s # <<>> /\ Len(s) = n /\ s[n] = f /\ \A i \in 1..(n - 1) : s[i] = stack[i]
  BY <1>1, MovedOn
<1>3. \A c : Closed(c)' => DirsDone(c)' /\ KidsDone(c)'
  BY DoneStays DEF Owed
<1>4. ASSUME NEW i \in 1..(n - 1), NEW g, NEW c, g = s[i], c = s[i + 1].ctx
      PROVE  Paid(g, c)'
  <2>1. g = stack[i] /\ (i + 1 = n \/ i + 1 \in 1..(n - 1))
    BY <1>1, <1>2, <1>4
  <2>2. c = stack[i + 1].ctx
    <3>1. stack[n].ctx = f.ctx
      BY <1>1 DEF Top
    <3> QED
      BY <1>2, <1>4, <2>1, <3>1
  <2>3. Paid(g, c)
    BY <1>1, <1>4, <2>1, <2>2 DEF Owed
  <2> QED
    BY <2>3, DoneStays
<1>5. ASSUME NEW g, g = s[n] PROVE Paid(g, NoCtx)'
  BY <1>2, <1>5
<1> QED
  BY <1>1, <1>2, <1>3, <1>4, <1>5 DEF Owed, Top

LEMMA WithinMoved ==
  ASSUME TypeOK, Within, Placed, history' = history, roots' = roots, stack # <<>>, NEW f \in Frame,
         stack' = WithTop(f), f.ctx = Top.ctx,
         \A r, b : roots = {r} /\ b = r.id =>
           /\ InBounds(f, b)
           /\ \A c, d : Seen(DirLine(c, d))' => Seen(DirLine(c, d)) \/ <<d, c>> \in Settings(Last, b)
  PROVE  Within'
<1>1. \A g \in Frames' : g = f \/ g \in Frames
  BY OthersLoop
<1> SUFFICES ASSUME NEW r, NEW b, roots = {r}, b = r.id
             PROVE  /\ \A g \in Frames' : InBounds(g, b)'
                    /\ \A c, d : Seen(DirLine(c, d))' => <<d, c>> \in Settings(Last, b)'
  BY DEF Within
<1>2. \A g \in Frames' : InBounds(g, b)
  BY <1>1 DEF Within
<1>3. \A c, d : Seen(DirLine(c, d))' => <<d, c>> \in Settings(Last, b)
  BY DEF Within
<1> QED
  BY <1>2, <1>3, BoundsStay

LEMMA WholeMoved ==
  ASSUME TypeOK, Placed, Whole, history' = history, roots' = roots, stack # <<>>, NEW f \in Frame,
         stack' = WithTop(f), f.ctx = Top.ctx,
         \A x : Seen(x) => Seen(x)', \A c : Closed(c)' => Closed(c), Paid(f, NoCtx)',
         \A r, b : roots = {r} /\ b = r.id =>
           /\ InBounds(f, b)
           /\ \A c, d : Seen(DirLine(c, d))' => Seen(DirLine(c, d)) \/ <<d, c>> \in Settings(Last, b)
  PROVE  Whole'
<1>1. Owed'
  BY OwedMoved DEF Whole
<1>2. Within'
  BY WithinMoved DEF Whole
<1>3. Alone'
  BY DEF Whole, Alone
<1>4. stack' # <<>>
  BY MovedOn
<1> QED
  BY <1>1, <1>2, <1>3, <1>4 DEF Whole, Shut

-----------------------------------------------------------------------------
(* The steps of the walk. *)

(* No line is added. *)
LEMMA WholeQuiet ==
  ASSUME TypeOK, Placed, Whole, history' = history, roots' = roots, lines' = lines, stack # <<>>,
         NEW f \in Frame, stack' = WithTop(f), f.ctx = Top.ctx, Paid(f, NoCtx),
         \A b : InBounds(Top, b) => InBounds(f, b)
  PROVE  Whole'
<1>1. \A x : Seen(x)' <=> Seen(x)
  BY SeenSame
<1>2. Paid(f, NoCtx)'
  BY <1>1, DoneStays
<1>3. \A c : Closed(c)' => Closed(c)
  BY <1>1 DEF Closed
<1>4. Top \in Frames
  BY FrameTypes DEF Top, Frames
<1>5. ASSUME NEW r, NEW b, roots = {r}, b = r.id
      PROVE  /\ InBounds(f, b)
             /\ \A c, d : Seen(DirLine(c, d))' => Seen(DirLine(c, d)) \/ <<d, c>> \in Settings(Last, b)
  BY <1>1, <1>4, <1>5 DEF Whole, Within
<1> QED
  BY <1>1, <1>2, <1>3, <1>5, WholeMoved

LEMMA WholeTagged ==
  ASSUME TypeOK, Placed, Whole, history' = history, roots' = roots, stack # <<>>,
         lines' = Append(lines, OpenTag(Top.ctx)),
         NEW f \in Frame, stack' = WithTop(f), f = [Top EXCEPT !.at = "conf", !.tagged = TRUE]
  PROVE  Whole'
<1>1. /\ Top \in Frame /\ Top \in Frames
      /\ f.ctx = Top.ctx /\ f.at = "conf" /\ f.kids = Top.kids /\ f.dirs = Top.dirs
  BY FrameTypes DEF Frame, Frames, Top
<1>2. PICK c : c = Top.ctx /\ OpenTag(c) \in Line
  BY <1>1, LineTypes DEF Frame
<1>3. \A x : Seen(x)' <=> Seen(x) \/ x = OpenTag(c)
  BY <1>2, SeenMore
<1>4. /\ \A y : Closed(y)' => Closed(y)
      /\ \A y, d : Seen(DirLine(y, d))' => Seen(DirLine(y, d))
  BY <1>3, DifferentTags DEF Closed
<1>5. Paid(f, NoCtx)'
  BY <1>1 DEF Paid
<1>6. ASSUME NEW r, NEW b, roots = {r}, b = r.id PROVE InBounds(f, b)
  BY <1>1, <1>6 DEF Whole, Within, InBounds
<1> QED
  BY <1>1, <1>3, <1>4, <1>5, <1>6, WholeMoved

LEMMA WholePushed ==
  ASSUME TypeOK, Placed, Whole, history' = history, roots' = roots, stack # <<>>,
         Top.at = "push", NEW e \in Top.dirs, lines' = Append(lines, DirLine(Top.ctx, e)),
         NEW f \in Frame, stack' = WithTop(f), f = [Top EXCEPT !.dirs = @ \ {e}]
  PROVE  Whole'
<1>1. PICK c : c = Top.ctx
  OBVIOUS
<1>2. /\ Top \in Frame /\ Top \in Frames /\ e \in Dir
      /\ f.ctx = c /\ f.at = "push" /\ f.kids = Top.kids /\ f.dirs = Top.dirs \ {e}
  BY <1>1, FrameTypes DEF Frame, Frames, Top
<1>3. DirLine(c, e) \in Line
  BY <1>1, <1>2, LineTypes DEF Frame
<1>4. \A x : Seen(x)' <=> Seen(x) \/ x = DirLine(c, e)
  BY <1>1, <1>3, SeenMore
<1>5. /\ \A y : Closed(y)' => Closed(y)
      /\ \A y, d : Seen(DirLine(y, d))' <=> Seen(DirLine(y, d)) \/ (y = c /\ d = e)
  BY <1>4, DifferentTags DEF Closed
<1>6. Paid(f, NoCtx)'
  <2>1. Paid(Top, NoCtx)
    BY DEF Whole, Owed
  <2>2. \A y : DirsOf(First, y)' = DirsOf(First, y)
    BY DEF DirsOf, First
  <2>3. \A d \in DirsOf(First, c) : Seen(DirLine(c, d)) \/ d \in Top.dirs
    BY <1>1, <2>1 DEF Paid
  <2>4. \A d \in DirsOf(First, c) : Seen(DirLine(c, d))' \/ d \in f.dirs
    BY <1>2, <1>5, <2>3
  <2> QED
    BY <1>2, <2>2, <2>4 DEF Paid
<1>7. ASSUME NEW r, NEW b, roots = {r}, b = r.id
      PROVE  InBounds(f, b) /\ <<e, c>> \in Settings(Last, b)
  <2>1. InBounds(Top, b)
    BY <1>2, <1>7 DEF Whole, Within
  <2>2. InBounds(f, b)
    BY <1>1, <1>2, <2>1 DEF InBounds
  <2>3. e \in DirsOf(Last, c) /\ c \in Inside(Last, b)
    BY <1>1, <2>1 DEF InBounds
  <2> QED
    BY <2>2, <2>3 DEF Settings, DirsOf
<1> QED
  BY <1>1, <1>2, <1>4, <1>5, <1>6, <1>7, WholeMoved

(* A sub-context is entered: the frame above is in it. *)
LEMMA WholeEntered ==
  ASSUME TypeOK, Whole, history' = history, roots' = roots, lines' = lines, stack # <<>>,
         Top.at = "loop", NEW k \in Top.kids,
         stack' = Append(WithTop([Top EXCEPT !.kids = @ \ {k}]), NewFrame(k.id))
  PROVE  Whole'
<1>1. PICK n : n = Len(stack) /\ n \in Nat \ {0}
  BY FrameTypes
<1>2. PICK f, new : f = [Top EXCEPT !.kids = @ \ {k}] /\ new = NewFrame(k.id)
  OBVIOUS
<1>3. Top \in Frame /\ Top \in Frames /\ Top = stack[n]
  BY <1>1, FrameTypes DEF Frames, Top
<1>4. /\ f \in Frame /\ f.ctx = Top.ctx /\ f.at = "loop" /\ f.dirs = Top.dirs
      /\ f.kids = Top.kids \ {k} /\ k \in Row
  BY <1>2, <1>3 DEF Frame
<1>5. new \in Frame /\ new.ctx = k.id /\ new.at = "row" /\ new.kids = {} /\ new.dirs = {}
  BY <1>2, <1>4, LineTypes DEF NewFrame, Row
<1>6. PICK s : /\ s = stack' /\ Len(s) = n + 1 /\ s[n + 1] = new /\ s[n] = f
               /\ \A i \in 1..(n - 1) : s[i] = stack[i]
  <2> DEFINE t == Append([stack EXCEPT ![Len(stack)] = f], new)
  <2>1. stack \in Seq(Frame)
    BY DEF TypeOK
  <2>2. /\ Len(t) = Len(stack) + 1 /\ t[Len(stack) + 1] = new
        /\ t[Len(stack)] = f
        /\ \A i \in 1..(Len(stack) - 1) : t[i] = stack[i]
    BY <1>4, <1>5, <2>1, LastReplacedAndAdded
  <2>3. stack' = t
    BY <1>2 DEF WithTop
  <2> HIDE DEF t
  <2> QED
    BY <1>1, <2>2, <2>3
<1>7. s # <<>>
  <2>1. n + 1 # 0
    BY <1>1
  <2> QED
    <3>1. \A q : q = <<>> => Len(q) = 0
      OBVIOUS
    <3> QED
      BY <1>6, <2>1, <3>1
<1>8. \A x : Seen(x)' <=> Seen(x)
  BY SeenSame
<1>9. Owed'
  <2>1. \A c : Closed(c)' => DirsDone(c)' /\ KidsDone(c)'
    BY <1>8, DoneStays DEF Whole, Owed, Closed
  <2>2. ASSUME NEW i \in 1..n, NEW g, NEW c, g = s[i], c = s[i + 1].ctx
        PROVE  Paid(g, c)'
    <3>1. CASE i = n
      <4>1. g = f /\ c = k.id
        BY <1>5, <1>6, <2>2, <3>1
      <4>2. Paid(Top, NoCtx)
        BY DEF Whole, Owed
      <4>3. \A j \in KidsOf(First, f.ctx) : j.id # NoCtx
        <5>1. First \in Table
          BY DEF TypeOK, First
        <5> QED
          BY <5>1, ReadDbAssumption DEF KidsOf, Table, Row
      <4>4. Paid(f, k.id)
        BY <1>4, <4>2, <4>3 DEF Paid
      <4> QED
        BY <1>8, <4>1, <4>4, DoneStays
    <3>2. CASE i # n
      <4>1. i \in 1..(n - 1) /\ g = stack[i] /\ (i + 1 = n \/ i + 1 \in 1..(n - 1))
        <5>1. i \in 1..(n - 1) /\ (i + 1 = n \/ i + 1 \in 1..(n - 1))
          BY <1>1, <2>2, <3>2
        <5> QED
          BY <1>6, <2>2, <5>1
      <4>2. c = stack[i + 1].ctx
        BY <1>3, <1>4, <1>6, <2>2, <4>1
      <4>3. Paid(g, c)
        BY <1>1, <4>1, <4>2 DEF Whole, Owed
      <4> QED
        BY <1>8, <4>3, DoneStays
    <3> QED
      BY <3>1, <3>2
  <2>3. ASSUME NEW g, g = s[n + 1] PROVE Paid(g, NoCtx)'
    BY <1>5, <1>6, <2>3 DEF Paid
  <2>4. Len(s) - 1 = n
    BY <1>1, <1>6
  <2>5. \A i \in 1..(Len(stack') - 1) : \A g, c : g = stack'[i] /\ c = stack'[i + 1].ctx => Paid(g, c)'
    BY <1>6, <2>2, <2>4
  <2>6. \A g : g = Top' => Paid(g, NoCtx)'
    BY <1>6, <2>3 DEF Top
  <2> QED
    BY <1>6, <1>7, <2>1, <2>5, <2>6 DEF Owed
<1>10. Within'
  <2> SUFFICES ASSUME NEW r, NEW b, roots = {r}, b = r.id
               PROVE  /\ \A g \in Frames' : InBounds(g, b)'
                      /\ \A c, d : Seen(DirLine(c, d))' => <<d, c>> \in Settings(Last, b)'
    BY DEF Within
  <2>1. InBounds(Top, b)
    BY <1>3 DEF Whole, Within
  <2>2. InBounds(f, b)
    BY <1>4, <2>1 DEF InBounds
  <2>3. InBounds(new, b)
    <3>1. k.id \in Inside(Last, b)
      BY <2>1, InsideKid DEF InBounds
    <3> QED
      BY <1>5, <3>1 DEF InBounds
  <2>4. \A g \in Frames' : g = f \/ g = new \/ g \in Frames
    <3>1. \A i \in 1..(n + 1) : i = n + 1 \/ i = n \/ (i \in 1..(n - 1) /\ i \in 1..n)
      BY <1>1
    <3>2. ASSUME NEW g \in Frames' PROVE \E i \in 1..(n + 1) : g = s[i]
      BY <1>6, <3>2 DEF Frames
    <3>3. \A i \in 1..n : stack[i] \in Frames
      BY <1>1 DEF Frames
    <3>4. ASSUME NEW g \in Frames' PROVE g = f \/ g = new \/ g \in Frames
      <4>1. PICK i \in 1..(n + 1) : g = s[i]
        BY <3>2, <3>4
      <4>2. i = n + 1 \/ i = n \/ (i \in 1..(n - 1) /\ i \in 1..n)
        BY <3>1
      <4> QED
        BY <1>6, <3>3, <4>1, <4>2
    <3> QED
      BY <3>4
  <2>5. \A g \in Frames' : InBounds(g, b)
    BY <2>2, <2>3, <2>4 DEF Whole, Within
  <2>6. \A c, d : Seen(DirLine(c, d))' => <<d, c>> \in Settings(Last, b)
    BY <1>8 DEF Whole, Within
  <2> QED
    BY <2>5, <2>6, BoundsStay
<1>11. Alone'
  BY DEF Whole, Alone
<1> QED
  BY <1>6, <1>7, <1>9, <1>10, <1>11 DEF Whole, Shut

(* The return from the innermost context, of which all is done. *)
LEMMA WholeLeft ==
  ASSUME TypeOK, Chain, Nesting, Whole, history' = history, roots' = roots,
         stack # <<>>, stack' = Pop, Top.at = "loop", Top.kids = {},
         lines' = IF Top.tagged THEN Append(lines, CloseTag(Top.ctx)) ELSE lines
  PROVE  Whole'
<1>1. PICK n : n = Len(stack) /\ n \in Nat \ {0}
  BY FrameTypes
<1>2. PICK c : c = Top.ctx /\ c = stack[n].ctx
  BY <1>1 DEF Top
<1>3. PICK s : /\ s = stack' /\ s \in Seq(Frame) /\ Len(s) = n - 1
               /\ \A j \in 1..(n - 1) : s[j] = stack[j]
  BY <1>1, LastDropped DEF Pop, TypeOK
<1>4. DirsDone(c) /\ KidsDone(c)
  <2>1. Paid(Top, NoCtx)
    BY DEF Whole, Owed
  <2>2. \A k \in KidsOf(First, c) : k.id # NoCtx
    <3>1. First \in Table
      BY DEF TypeOK, First
    <3> QED
      BY <3>1, ReadDbAssumption DEF KidsOf, Table, Row
  <2> QED
    BY <1>2, <2>1, <2>2 DEF Paid, KidsDone
<1>5. CASE n = 1
  <2>1. Bottom = c /\ ~Top.tagged /\ Aligned /\ Bottom \in {r.id : r \in roots}
    BY <1>1, <1>2, <1>5 DEF Nesting, Based, Top, Bottom
  <2>2. s = <<>> /\ lines' = lines
    BY <1>3, <1>5, <2>1
  <2>3. \A x : Seen(x)' <=> Seen(x)
    BY <2>2, SeenSame
  <2>4. Owed'
    <3>1. \A y : Closed(y)' => DirsDone(y)' /\ KidsDone(y)'
      BY <2>3, DoneStays DEF Whole, Owed, Closed
    <3>2. \A r : roots = {r} => r.id = c
      BY <2>1
    <3>3. DirsDone(c)' /\ KidsDone(c)'
      BY <1>4, <2>3, DoneStays
    <3>4. \A i \in 1..(Len(s) - 1) : FALSE
      BY <1>3, <1>5
    <3> QED
      BY <1>3, <2>2, <3>1, <3>2, <3>3, <3>4 DEF Owed
  <2>5. Within'
    <3> SUFFICES ASSUME NEW r, NEW b, roots = {r}, b = r.id
                 PROVE  /\ \A g \in Frames' : InBounds(g, b)'
                        /\ \A y, d : Seen(DirLine(y, d))' => <<d, y>> \in Settings(Last, b)'
      BY DEF Within
    <3>1. \A g \in Frames' : FALSE
      BY <1>3, <1>5 DEF Frames
    <3>2. \A y, d : Seen(DirLine(y, d))' => <<d, y>> \in Settings(Last, b)
      BY <2>3 DEF Whole, Within
    <3> QED
      BY <3>1, <3>2, BoundsStay
  <2>6. OpenNow' = {}
    <3>1. OpenNow' = OpenNow
      BY <2>2, NestedSame DEF Nesting
    <3>2. \A j \in 2..1 : FALSE
      OBVIOUS
    <3>3. OpenNow = {}
      BY <1>1, <1>5, <2>1, <3>2 DEF Aligned, AlignedIn
    <3> QED
      BY <3>1, <3>3
  <2> QED
    BY <2>4, <2>5, <2>6 DEF Whole, Alone, Shut
<1>6. CASE n # 1
  <2>1. n \in 2..n /\ n - 1 \in 1..(n - 1) /\ Top = stack[n]
    BY <1>1, <1>6 DEF Top
  <2>2. Top.tagged
    BY <1>1, <2>1 DEF Nesting, Aligned, AlignedIn
  <2>3. CloseTag(c) \in Line
    <3>1. c \in Ctx \union {ZeroId}
      BY <1>2, FrameTypes DEF Frame
    <3> QED
      BY <3>1, LineTypes
  <2>4. lines' = Append(lines, CloseTag(c))
    BY <1>2, <2>2
  <2>5. \A x : Seen(x)' <=> Seen(x) \/ x = CloseTag(c)
    BY <2>3, <2>4, SeenMore
  <2>6. /\ \A y : Closed(y)' <=> Closed(y) \/ y = c
        /\ \A y, d : Seen(DirLine(y, d))' => Seen(DirLine(y, d))
    BY <2>5, DifferentTags DEF Closed
  <2>7. s # <<>>
    <3>1. \A q : q = <<>> => Len(q) = 0
      OBVIOUS
    <3>2. n - 1 # 0
      BY <1>1, <1>6
    <3> QED
      BY <1>3, <3>1, <3>2
  <2>8. Owed'
    <3>1. \A y : Closed(y)' => DirsDone(y)' /\ KidsDone(y)'
      <4>1. \A y : Closed(y) \/ y = c => DirsDone(y) /\ KidsDone(y)
        BY <1>4 DEF Whole, Owed
      <4> QED
        BY <2>5, <2>6, <4>1, DoneStays
    <3>2. ASSUME NEW i \in 1..(n - 2), NEW g, NEW y, g = s[i], y = s[i + 1].ctx
          PROVE  Paid(g, y)'
      <4>1. i \in 1..(n - 1) /\ i + 1 \in 1..(n - 1)
        BY <1>1, <3>2
      <4>2. g = stack[i] /\ y = stack[i + 1].ctx
        BY <1>3, <3>2, <4>1
      <4>3. Paid(g, y)
        BY <1>1, <4>1, <4>2 DEF Whole, Owed
      <4> QED
        BY <2>5, <4>3, DoneStays
    <3>3. ASSUME NEW g, g = s[n - 1] PROVE Paid(g, NoCtx)'
      <4>1. g = stack[n - 1] /\ c = stack[n - 1 + 1].ctx
        BY <1>1, <1>2, <1>3, <2>1, <3>3
      <4>2. Paid(g, c)
        BY <1>1, <2>1, <4>1 DEF Whole, Owed
      <4>3. Paid(g, c)' /\ Closed(c)'
        BY <2>5, <2>6, <4>2, DoneStays
      <4> QED
        BY <4>3 DEF Paid
    <3>4. Len(s) - 1 = n - 2
      BY <1>1, <1>3
    <3>5. \A i \in 1..(Len(stack') - 1) : \A g, y : g = stack'[i] /\ y = stack'[i + 1].ctx => Paid(g, y)'
      BY <1>3, <3>2, <3>4
    <3>6. \A g : g = Top' => Paid(g, NoCtx)'
      BY <1>3, <3>3 DEF Top
    <3> QED
      BY <1>3, <2>7, <3>1, <3>5, <3>6 DEF Owed
  <2>9. Within'
    <3> SUFFICES ASSUME NEW r, NEW b, roots = {r}, b = r.id
                 PROVE  /\ \A g \in Frames' : InBounds(g, b)'
                        /\ \A y, d : Seen(DirLine(y, d))' => <<d, y>> \in Settings(Last, b)'
      BY DEF Within
    <3>1. \A g \in Frames' : g \in Frames
      <4>1. \A i \in 1..(n - 1) : i \in 1..n
        BY <1>1
      <4>2. ASSUME NEW g \in Frames' PROVE \E i \in 1..(n - 1) : g = s[i]
        BY <1>3, <4>2 DEF Frames
      <4>3. \A i \in 1..n : stack[i] \in Frames
        BY <1>1 DEF Frames
      <4>4. ASSUME NEW g \in Frames' PROVE g \in Frames
        <5>1. PICK i \in 1..(n - 1) : g = s[i]
          BY <4>2, <4>4
        <5> QED
          BY <1>3, <4>1, <4>3, <5>1
      <4> QED
        BY <4>4
    <3>2. \A g \in Frames' : InBounds(g, b)
      BY <3>1 DEF Whole, Within
    <3>3. \A y, d : Seen(DirLine(y, d))' => <<d, y>> \in Settings(Last, b)
      BY <2>6 DEF Whole, Within
    <3> QED
      BY <3>2, <3>3, BoundsStay
  <2> QED
    BY <1>3, <2>7, <2>8, <2>9 DEF Whole, Alone, Shut
<1> QED
  BY <1>5, <1>6

(* The walk begins at the one root, or there is none. *)
LEMMA WholeBegun ==
  ASSUME TypeOK, Orderly, lines = <<>>, lines' = lines, stack = <<>>, history' = history,
         roots' = RootRows, NEW id \in RootIds \union {ZeroId}, id = ZeroId <=> RootRows = {},
         \/ Cardinality(RootRows) = 1 /\ stack' = <<NewFrame(id)>>
         \/ Cardinality(RootRows) # 1 /\ stack' = stack
  PROVE  Whole'
<1>1. OpenNow' = {} /\ \A x : ~Seen(x)'
  BY DEF OpenNow, Unclosed, Seen
<1>2. CASE Cardinality(RootRows) = 1 /\ stack' = <<NewFrame(id)>>
  <2>1. PICK f : f = NewFrame(id)
    OBVIOUS
  <2>2. f.ctx = id /\ f.at = "row" /\ f.dirs = {} /\ f.kids = {}
    BY <2>1 DEF NewFrame
  <2>3. /\ Frames' = {f} /\ Top' = f /\ stack' # <<>>
        /\ \A i \in 1..(Len(stack') - 1) : FALSE
    BY <1>2, <2>1 DEF Frames, Top
  <2>4. Owed'
    <3>1. Paid(f, NoCtx)'
      BY <2>2 DEF Paid
    <3> QED
      BY <1>1, <2>3, <3>1 DEF Owed, Closed
  <2>5. ASSUME NEW r, NEW b, RootRows = {r}, b = r.id PROVE InBounds(f, b)'
    <3>1. id = b
      BY <2>5 DEF RootIds
    <3>2. b \in Ids(Last)
      <4>1. r \in Now.ctxs
        BY <2>5 DEF RootRows
      <4> QED
        BY <2>5, <4>1, OrderlyTables DEF Ids
    <3>3. InBounds(f, b)
      BY <2>2, <3>1, <3>2, InsideBase DEF InBounds
    <3> QED
      BY <3>3, BoundsStay
  <2>6. Within'
    BY <1>1, <2>3, <2>5 DEF Within
  <2>7. Alone'
    BY <1>2 DEF Alone
  <2> QED
    BY <2>3, <2>4, <2>6, <2>7 DEF Whole, Shut
<1>3. CASE Cardinality(RootRows) # 1 /\ stack' = stack
  <2>1. \A r : roots' # {r}
    BY <1>3, FS_Singleton
  <2>2. stack' = <<>> /\ \A i \in 1..(Len(stack') - 1) : FALSE
    BY <1>3
  <2> QED
    BY <1>1, <2>1, <2>2 DEF Whole, Owed, Within, Alone, Shut, Closed
<1> QED
  BY <1>2, <1>3

(* Nothing of the walk happens. *)
LEMMA WholeSame ==
  ASSUME Whole, history' = history, roots' = roots, stack' = stack, lines' = lines
  PROVE  Whole'
<1>1. \A x : Seen(x)' <=> Seen(x)
  BY SeenSame
<1>2. /\ \A c : Closed(c)' => DirsDone(c)' /\ KidsDone(c)'
      /\ \A c : DirsDone(c) /\ KidsDone(c) => DirsDone(c)' /\ KidsDone(c)'
      /\ \A f, c : Paid(f, c) => Paid(f, c)'
  BY <1>1, DoneStays DEF Whole, Owed, Closed
<1>3. Owed'
  BY <1>2 DEF Whole, Owed, Top
<1>4. Within'
  BY <1>1, BoundsStay DEF Whole, Within, Frames
<1>5. OpenNow' = OpenNow
  BY DEF OpenNow, Unclosed, IsOpen, Closes
<1> QED
  BY <1>3, <1>4, <1>5 DEF Whole, Alone, Shut

LEMMA WholeNext ==
  ASSUME TypeOK, Chain, Placed, Orderly, Nesting, Whole, [Next]_vars, Orderly',
         FreedReads = {"intact"}
  PROVE  Whole'
<1>1. history' = history /\ trouble' = {}
  BY OrderlyNext DEF Orderly
<1>2. CASE \/ CheckModule \/ LoadBackend \/ Prepare \/ DefineConn \/ OpenConn
           \/ CloseConn \/ CleanUp \/ Commit \/ NullValue \/ StackOverflow \/ UNCHANGED vars
  <2>1. stack' = stack /\ lines' = lines /\ roots' = roots
    BY <1>2 DEF CheckModule, LoadBackend, Prepare, DefineConn, OpenConn, Hook,
                CloseConn, CleanUp, Commit, NullValue, StackOverflow, Crash, Undisturbed, vars
  <2> QED
    BY <1>1, <2>1, WholeSame
<1>3. CASE SelectRoot
  <2>1. stack = <<>> /\ lines = <<>> /\ lines' = lines /\ roots' = RootRows
    BY <1>3 DEF SelectRoot, Placed
  <2>2. PICK id \in RootIds \union {ZeroId} :
          /\ id = ZeroId <=> RootRows = {}
          /\ \/ Cardinality(RootRows) = 1 /\ stack' = <<NewFrame(id)>>
             \/ Cardinality(RootRows) # 1 /\ stack' = stack
    BY <1>3 DEF SelectRoot
  <2> QED
    BY <1>1, <2>1, <2>2, WholeBegun
(* What goes wrong is noted. *)
<1>4. CASE ReadRowFailed \/ SelectFailed \/ RowVanished \/ RootFailed
  BY <1>1, <1>4 DEF ReadRowFailed, SelectFailed, RowVanished, RootFailed, Fails, Note
<1>5. ASSUME NEW at, In(at)
      PROVE  stack # <<>> /\ Top.at = at /\ Top \in Frame /\ Paid(Top, NoCtx)
  BY <1>5, FrameTypes DEF In, Whole, Owed
<1>6. CASE ReadRow
  <2>1. stack # <<>> /\ Top.at = "row" /\ Top \in Frame /\ roots' = roots
    BY <1>5, <1>6 DEF ReadRow, Undisturbed
  <2>2. PICK r \in RowsOf(Now, Top.ctx) :
          /\ lines' = IF IsTagged(r) THEN Append(lines, OpenTag(Top.ctx)) ELSE lines
          /\ SetTop([Top EXCEPT !.at = "conf", !.tagged = IsTagged(r)])
          /\ IsNamed(r)
    BY <1>1, <1>6 DEF ReadRow, Note
  <2>3. CASE Len(stack) # 1
    <3>1. PICK f : f = [Top EXCEPT !.at = "conf", !.tagged = TRUE]
      OBVIOUS
    <3>2. f \in Frame
      BY <2>1, <3>1 DEF Frame
    <3>3. IsTagged(r) = TRUE
      BY <2>2, <2>3 DEF IsTagged
    <3>4. lines' = Append(lines, OpenTag(Top.ctx)) /\ stack' = WithTop(f)
      BY <2>2, <3>1, <3>3 DEF SetTop
    <3> QED
      BY <1>1, <2>1, <3>1, <3>2, <3>4, WholeTagged
  <2>4. CASE Len(stack) = 1
    <3>1. PICK f : f = [Top EXCEPT !.at = "conf", !.tagged = FALSE]
      OBVIOUS
    <3>2. /\ f \in Frame /\ f.ctx = Top.ctx /\ f.at = "conf"
          /\ f.dirs = Top.dirs /\ f.kids = Top.kids
      BY <2>1, <3>1 DEF Frame
    <3>3. IsTagged(r) = FALSE
      BY <2>4 DEF IsTagged
    <3>4. lines' = lines /\ stack' = WithTop(f)
      BY <2>2, <3>1, <3>3 DEF SetTop
    <3>5. Paid(f, NoCtx) /\ \A b : InBounds(Top, b) => InBounds(f, b)
      BY <3>2 DEF Paid, InBounds
    <3> QED
      BY <1>1, <2>1, <3>2, <3>4, <3>5, WholeQuiet
  <2> QED
    BY <2>3, <2>4
<1>7. CASE SelectConf
  <2>1. PICK f : f = [Top EXCEPT !.at = "push", !.dirs = DirsOf(Now, Top.ctx)]
    OBVIOUS
  <2>2. stack # <<>> /\ Top.at = "conf" /\ Top \in Frame
    BY <1>5, <1>7 DEF SelectConf
  <2>3. /\ f \in Frame /\ f.ctx = Top.ctx /\ f.at = "push" /\ f.kids = Top.kids
        /\ f.dirs = DirsOf(Now, Top.ctx)
    BY <2>1, <2>2, TableTypes DEF Frame
  <2>4. stack' = WithTop(f) /\ lines' = lines /\ roots' = roots
    BY <1>7, <2>1 DEF SelectConf, SetTop, Undisturbed
  <2>5. /\ DirsOf(First, Top.ctx) \subseteq DirsOf(Now, Top.ctx)
        /\ DirsOf(Now, Top.ctx) \subseteq DirsOf(Last, Top.ctx)
    BY GrowingTables
  <2>6. Paid(f, NoCtx) /\ \A b : InBounds(Top, b) => InBounds(f, b)
    BY <2>3, <2>5 DEF Paid, InBounds
  <2> QED
    BY <1>1, <2>2, <2>3, <2>4, <2>6, WholeQuiet
<1>8. CASE PushDirective
  <2>1. stack # <<>> /\ Top.at = "push" /\ Top \in Frame
    BY <1>5, <1>8 DEF PushDirective
  <2>2. PICK e \in Top.dirs : /\ lines' = Append(lines, DirLine(Top.ctx, e))
                             /\ stack' = WithTop([Top EXCEPT !.dirs = @ \ {e}])
    BY <1>8 DEF PushDirective, SetTop
  <2>3. PICK f : f = [Top EXCEPT !.dirs = @ \ {e}]
    OBVIOUS
  <2>4. f \in Frame
    BY <2>1, <2>3 DEF Frame
  <2>5. roots' = roots /\ stack' = WithTop(f)
    BY <1>8, <2>2, <2>3 DEF PushDirective, Undisturbed
  <2> QED
    BY <1>1, <2>1, <2>2, <2>3, <2>4, <2>5, WholePushed
<1>9. CASE DirectivesDone
  <2>1. PICK f : f = [Top EXCEPT !.at = "ctxs"]
    OBVIOUS
  <2>2. stack # <<>> /\ Top.at = "push" /\ Top.dirs = {} /\ Top \in Frame /\ Paid(Top, NoCtx)
    BY <1>5, <1>9 DEF DirectivesDone
  <2>3. /\ f \in Frame /\ f.ctx = Top.ctx /\ f.at = "ctxs"
        /\ f.dirs = Top.dirs /\ f.kids = Top.kids
    BY <2>1, <2>2 DEF Frame
  <2>4. stack' = WithTop(f) /\ lines' = lines /\ roots' = roots
    BY <1>9, <2>1 DEF DirectivesDone, SetTop, Undisturbed
  <2>5. Paid(f, NoCtx) /\ \A b : InBounds(Top, b) => InBounds(f, b)
    BY <2>2, <2>3 DEF Paid, InBounds, DirsDone
  <2> QED
    BY <1>1, <2>2, <2>3, <2>4, <2>5, WholeQuiet
<1>10. CASE SelectCtxs
  <2>1. PICK f : f = [Top EXCEPT !.at = "loop", !.kids = KidsOf(Now, Top.ctx)]
    OBVIOUS
  <2>2. stack # <<>> /\ Top.at = "ctxs" /\ Top \in Frame /\ Paid(Top, NoCtx)
    BY <1>5, <1>10 DEF SelectCtxs
  <2>3. /\ f \in Frame /\ f.ctx = Top.ctx /\ f.at = "loop" /\ f.dirs = Top.dirs
        /\ f.kids = KidsOf(Now, Top.ctx)
    BY <2>1, <2>2, TableTypes DEF Frame
  <2>4. stack' = WithTop(f) /\ lines' = lines /\ roots' = roots
    BY <1>10, <2>1 DEF SelectCtxs, SetTop, Undisturbed
  <2>5. KidsOf(First, Top.ctx) \subseteq KidsOf(Now, Top.ctx) /\ Now.ctxs \subseteq Last.ctxs
    BY GrowingTables
  <2>6. Paid(f, NoCtx)
    BY <2>2, <2>3, <2>5 DEF Paid
  <2>7. \A b : InBounds(Top, b) => InBounds(f, b)
    BY <2>3, <2>5 DEF InBounds, KidsOf
  <2> QED
    BY <1>1, <2>2, <2>3, <2>4, <2>6, <2>7, WholeQuiet
<1>11. CASE EnterCtx
  <2>1. stack # <<>> /\ Top.at = "loop" /\ lines' = lines /\ roots' = roots
    BY <1>5, <1>11 DEF EnterCtx, Undisturbed
  <2>2. PICK k \in Top.kids :
          stack' = Append(WithTop([Top EXCEPT !.kids = @ \ {k}]), NewFrame(k.id))
    BY <1>11 DEF EnterCtx
  <2> QED
    BY <1>1, <2>1, <2>2, WholeEntered
<1>12. CASE LeaveCtx
  BY <1>1, <1>5, <1>12, WholeLeft DEF LeaveCtx, Undisturbed
<1> QED
  BY <1>2, <1>3, <1>4, <1>6, <1>7, <1>8, <1>9, <1>10, <1>11, <1>12 DEF Next, Step, Walk

LEMMA EndedNext ==
  ASSUME Ended, Placed, [Next]_vars
  PROVE  Ended'
<1>1. CASE CheckModule \/ LoadBackend \/ Prepare \/ DefineConn \/ OpenConn
  BY <1>1 DEF CheckModule, LoadBackend, Prepare, DefineConn, OpenConn, Hook, Placed, Ended
<1>2. CASE RootFailed \/ SelectRoot
  BY <1>2 DEF RootFailed, SelectRoot, Placed, Ended
<1>3. CASE CloseConn \/ CleanUp
  BY <1>3 DEF CloseConn, CleanUp, Ended
<1>4. CASE Walk
  <2>1. pc' \in {"walk", "crashed"}
    BY <1>4 DEF Walk, ReadRow, ReadRowFailed, NullValue, RowVanished, SelectConf,
                PushDirective, DirectivesDone, SelectCtxs, EnterCtx, StackOverflow,
                SelectFailed, LeaveCtx, In, Abandon, Crash
  <2> QED
    BY <2>1 DEF Ended
<1>5. CASE Commit \/ UNCHANGED vars
  BY <1>5 DEF Commit, vars, Ended
<1> QED
  BY <1>1, <1>2, <1>3, <1>4, <1>5 DEF Next, Step

-----------------------------------------------------------------------------
(* When the walk is over, all that the base owes is delivered. *)
LEMMA AllDelivered ==
  ASSUME TypeOK, Whole, stack = <<>>, NEW r \in roots, roots = {r}, r \in First.ctxs
  PROVE  Settings(First, r.id) \subseteq Delivered
<1>1. PICK b : b = r.id
  OBVIOUS
<1> DEFINE S == {x \in Ids(First) : x = b \/ Closed(x)}
<1>2. \A x \in S : DirsDone(x) /\ KidsDone(x)
  BY <1>1 DEF Whole, Owed
<1>3. b \in S
  BY <1>1 DEF Ids
<1>4. \A k \in First.ctxs : k.parent \in S /\ k.id \in CtxWhere => k.id \in S
  BY <1>2 DEF KidsDone, KidsOf, Ids
<1>5. Inside(First, b) \subseteq S
  <2>1. S \in SUBSET Ids(First)
    OBVIOUS
  <2> HIDE DEF S
  <2> QED
    BY <1>3, <1>4, <2>1, InsideLeast DEF Ids
<1>6. First \in Table
  BY DEF TypeOK, First
<1> HIDE DEF S
<1>7. ASSUME NEW m \in Settings(First, b) PROVE m \in Delivered
  <2>1. PICK d, c : m = <<d, c>>
    BY <1>6, <1>7 DEF Settings, Table
  <2>2. c \in S /\ d \in DirsOf(First, c)
    BY <1>5, <1>7, <2>1 DEF Settings, DirsOf
  <2>3. Seen(DirLine(c, d))
    BY <1>2, <2>2 DEF DirsDone
  <2>4. PICK i \in DOMAIN lines : lines[i] = DirLine(c, d)
    BY <2>3 DEF Seen
  <2>5. lines[i].kind = "dir" /\ lines[i].dir = d /\ lines[i].ctx = c
    BY <2>4 DEF DirLine
  <2> QED
    BY <2>1, <2>5 DEF Delivered, IsDir
<1> QED
  BY <1>1, <1>7

LEMMA NothingElse ==
  ASSUME TypeOK, Whole, NEW r, roots = {r}
  PROVE  Delivered \subseteq Settings(Last, r.id)
<1>1. ASSUME NEW m \in Delivered PROVE m \in Settings(Last, r.id)
  <2>1. PICK i \in DOMAIN lines : lines[i].kind = "dir" /\ m = <<lines[i].dir, lines[i].ctx>>
    BY <1>1 DEF Delivered, IsDir
  <2>2. PICK c, d : c = lines[i].ctx /\ d = lines[i].dir
    OBVIOUS
  <2>3. lines[i] = DirLine(c, d)
    <3>1. lines[i] \in Line
      BY DEF TypeOK
    <3> QED
      BY <2>1, <2>2, <3>1 DEF Line, DirLine
  <2>4. Seen(DirLine(c, d))
    BY <2>3 DEF Seen
  <2> QED
    BY <2>1, <2>2, <2>4 DEF Whole, Within
<1> QED
  BY <1>1

(* A read that nothing disturbs delivers what was there before its first     *)
(* query, and only what is there after its last, and leaves no tag open, for *)
(* every database and whatever other clients add, where the freed result of  *)
(* the root query still reads as it was.                                     *)
THEOREM AlwaysComplete == FreedReads = {"intact"} => (Spec => []Complete)
<1> DEFINE Inv == /\ TypeOK /\ Placed /\ Ended
                  /\ Treelike => Chain
                  /\ Orderly => Once /\ Nesting /\ Whole
<1> SUFFICES ASSUME FreedReads = {"intact"} PROVE Spec => []Complete
  OBVIOUS
<1>1. Init => Inv
  <2> SUFFICES ASSUME Init PROVE Inv
    OBVIOUS
  <2>1. TypeOK
    BY TypeInit
  <2>2. stack = <<>> /\ lines = <<>> /\ roots = {}
    BY DEF Init
  <2>3. Placed /\ Ended
    BY <2>2 DEF Placed, DirsInScope, Ended
  <2>4. Chain /\ Once /\ Nesting
    BY <2>2 DEF Chain, Once, Distinct, Nesting
  <2>5. OpenNow = {} /\ \A x : ~Seen(x)
    BY <2>2 DEF OpenNow, Unclosed, Seen
  <2>6. Whole
    <3>1. \A i \in 1..(Len(stack) - 1) : FALSE
      BY <2>2
    <3>2. \A r : roots # {r}
      BY <2>2
    <3> QED
      BY <2>2, <2>5, <3>1, <3>2 DEF Whole, Owed, Within, Alone, Shut, Closed
  <2> QED
    BY <2>1, <2>3, <2>4, <2>6
<1>2. Inv /\ [Next]_vars => Inv'
  <2> SUFFICES ASSUME Inv, [Next]_vars PROVE Inv'
    OBVIOUS
  <2>1. TypeOK' /\ Placed' /\ Ended'
    BY TypeNext, PlacedNext, EndedNext
  <2>2. (Treelike => Chain)'
    BY ChainNext, TreelikeNext
  <2>3. ASSUME Orderly' PROVE Once' /\ Nesting' /\ Whole'
    <3>1. Orderly /\ Treelike
      BY <2>3, OrderlyNext, OrderlyTables
    <3> QED
      BY <2>3, <3>1, OnceNext, NestingNext, WholeNext
  <2> QED
    BY <2>1, <2>2, <2>3
<1>3. Inv => Complete
  <2> SUFFICES ASSUME Inv, Orderly, pc = "done"
               PROVE  /\ Unclosed(Len(lines) + 1) = {}
                      /\ \A r \in roots : roots = {r} =>
                           /\ r \in history[1].ctxs => Settings(history[1], r.id) \subseteq Delivered
                           /\ Delivered \subseteq Settings(Last, r.id)
                      /\ Cardinality(roots) # 1 => lines = <<>>
    BY DEF Complete
  <2>1. Whole /\ stack = <<>>
    BY DEF Ended
  <2>2. Unclosed(Len(lines) + 1) = {} /\ (Cardinality(roots) # 1 => lines = <<>>)
    BY <2>1 DEF Whole, Shut, Alone, OpenNow
  <2>3. ASSUME NEW r \in roots, roots = {r}
        PROVE  /\ r \in history[1].ctxs => Settings(history[1], r.id) \subseteq Delivered
               /\ Delivered \subseteq Settings(Last, r.id)
    BY <2>1, <2>3, AllDelivered, NothingElse DEF First
  <2> QED
    BY <2>2, <2>3
<1> QED
  BY <1>1, <1>2, <1>3, PTL DEF Spec
=============================================================================
