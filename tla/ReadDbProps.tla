----------------------------- MODULE ReadDbProps -----------------------------
(***************************************************************************)
(* What sqlconf_read_db promises about the lines it builds, the connection *)
(* it uses and the result it returns.                                      *)
(***************************************************************************)
EXTENDS ReadDb

Last == history[Len(history)]

Ids(t) == {r.id : r \in t.ctxs}

-----------------------------------------------------------------------------
(* What the database and its other clients may do, for a property to hold.  *)

(* A row is never given another parent, and no two rows with the same id    *)
(* disagree on it.                                                          *)
FixedParents ==
  \A i, j \in DOMAIN history : \A r \in history[i].ctxs, s \in history[j].ctxs :
    r.id = s.id => r.parent = s.parent

(* Other clients only add rows, as conf2sql.pl --add-conf does. *)
OnlyGrows ==
  \A i, j \in DOMAIN history : i <= j =>
    /\ history[i].ctxs \subseteq history[j].ctxs
    /\ history[i].confs \subseteq history[j].confs
    /\ history[i].maps \subseteq history[j].maps

(* The id is a primary key. *)
UniqueIds == \A r, s \in Last.ctxs : r.id = s.id => r = s

(* An undisturbed read that starts from a row without a parent. *)
FromNull == base = NoCtx
Orderly == OnlyGrows /\ UniqueIds /\ FromNull /\ trouble = {}

-----------------------------------------------------------------------------
(* How a reader of the lines sees them. *)

IsOpen(i) == lines[i].kind = "open"
IsDir(i) == lines[i].kind = "dir"
Closes(j, i) == lines[j].kind = "close" /\ lines[j].ctx = lines[i].ctx

(* The opening tags before line k that no line before k closes. *)
Unclosed(k) ==
  {i \in 1..(k - 1) : IsOpen(i) /\ ~\E j \in (i + 1)..(k - 1) : Closes(j, i)}

(* Line k lies directly inside the context c; the base has no tag. *)
Directly(k, c) ==
  \/ Unclosed(k) = {} /\ c \in {r.id : r \in roots}
  \/ \E i \in Unclosed(k) : lines[i].ctx = c /\ \A j \in Unclosed(k) : j <= i

ParentOf(c) == (CHOOSE r \in Last.ctxs : r.id = c).parent

(* The contexts of a table that lie in c. *)
Inside(t, c) ==
  {x \in Ids(t) : \A S \in SUBSET Ids(t) :
     /\ c \in S
     /\ \A r \in t.ctxs : r.parent \in S /\ r.id \in CtxWhere => r.id \in S
     => x \in S}

(* The directives of a table, each with its context, that apply below c. *)
Settings(t, c) ==
  {m \in t.maps : m[1] \in t.confs \intersect ConfWhere /\ m[2] \in Inside(t, c)}

Delivered == {<<lines[i].dir, lines[i].ctx>> : i \in {j \in DOMAIN lines : IsDir(j)}}

-----------------------------------------------------------------------------
(* Every variable holds what the code may put there. *)
TypeOK ==
  /\ history \in Seq(Table)
  /\ ver \in DOMAIN history
  /\ base \in Ctx \union {NoCtx}
  /\ pc \in (Calls \ {"rootdata", "row", "conf", "ctxs"})
             \union {"walk", "done", "crashed"}
  /\ res \in {"none", "ok", "err"}
  /\ sql \in {"none", "loaded", "prepared", "defined", "open", "closed", "clean"}
  /\ trouble \subseteq Calls \union Quiet \union {"unique"}
  /\ roots \subseteq Row
  /\ stack \in Seq(Frame)
  /\ lines \in Seq(Line)

(* The result is -1 exactly when the connection, the root query or the      *)
(* closing went wrong: an error path of sqlconf_read_db or sqlconf_close_db *)
(* neither forgets an error nor invents one.  What goes wrong inside        *)
(* sqlconf_read_ctx is not in the result, as no caller looks at it.         *)
FailuresReported ==
  pc = "done" => res = (IF trouble \subseteq Quiet THEN "ok" ELSE "err")

(* No directive is ever put in the scope of a context it is not mapped to:  *)
(* the line before it is the opening tag of its context or another          *)
(* directive of it, or it belongs to the base and all lines before it do.   *)
(* This holds whatever fails and whatever other clients commit, provided no *)
(* context went without its tag.                                            *)
OwnScope ==
  trouble \intersect {"vanished", "unnamed"} = {} =>
    \A k \in DOMAIN lines : IsDir(k) =>
      \/ /\ k > 1
         /\ lines[k - 1].kind \in {"open", "dir"}
         /\ lines[k - 1].ctx = lines[k].ctx
      \/ \A j \in 1..k : IsDir(j) /\ lines[j].ctx = lines[k].ctx

(* The recursion never enters a context it is still reading, so that its    *)
(* depth is bounded by the number of contexts, when it starts from a row    *)
(* without a parent and no client moves a context under another.            *)
NoReentry ==
  FixedParents /\ FromNull =>
    \A i, j \in DOMAIN stack : stack[i].ctx = stack[j].ctx => i = j

(* Each context is opened once, and each of its directives pushed once. *)
OnlyOnce ==
  Orderly =>
    \A i, j \in DOMAIN lines : lines[i] = lines[j] => i = j

(* Every tag and every directive is directly inside the context it belongs  *)
(* to, and every closing tag closes the innermost open one.                 *)
Nested ==
  Orderly =>
    \A k \in DOMAIN lines :
      Directly(k, IF IsOpen(k) THEN ParentOf(lines[k].ctx) ELSE lines[k].ctx)

(* A read during which other clients only add rows delivers every directive *)
(* that was there before the first query, and none that is not there after  *)
(* the last one; with no other client, exactly the content of the tables.   *)
(* Every context it opened is closed.                                       *)
Complete ==
  Orderly /\ pc = "done" =>
    /\ Unclosed(Len(lines) + 1) = {}
    /\ \A r \in roots : roots = {r} =>
         /\ r \in history[1].ctxs => Settings(history[1], r.id) \subseteq Delivered
         /\ Delivered \subseteq Settings(Last, r.id)
    /\ Cardinality(roots) # 1 => lines = <<>>

(* The session with mod_sql is the one SqlSession promises: the hooks are   *)
(* called in their order, and the routine never returns with a connection   *)
(* it did not try to close, whichever call fails.                           *)
Session == INSTANCE SqlSession WITH
  session <- sql,
  stuck <- "close" \in trouble,
  outcome <- IF pc = "crashed" THEN "crashed"
             ELSE IF pc = "done" THEN res ELSE "none"

SessionKept == Session!Spec

(* The comment above the test of the root rows: "We only want _one_ unique  *)
(* base context.  Any more than that is a configuration error in the        *)
(* database."                                                               *)
OneBase == pc = "done" /\ res = "ok" => Cardinality(roots) <= 1

(* sqlconf_read_db returns, or the process is gone. *)
Returns == <>Returned
=============================================================================
