--------------------------- MODULE Conf2SqlProps ---------------------------
(***************************************************************************)
(* What conf2sql.pl promises about the tables, when it ends and when it    *)
(* dies on the way, also for the readers that look at them meanwhile.      *)
(***************************************************************************)
EXTENDS Conf2Sql

Values(f) == {f[x] : x \in DOMAIN f}

RootsOf(rows) == {r \in rows : r.parent = Null}

(* What the rows of the directive table with this id hold. *)
DirsWith(conf) == {c.dir : c \in {d \in confTab : d.id = conf}}

(* The rows that map directives to the context with this id map the first k  *)
(* of these, one row each, in the order in which the rows were inserted.     *)
Gives(id, dirs, k) ==
  \E at \in [1..k -> DOMAIN mapTab] :
    /\ \A i, j \in 1..k : i < j => at[i] < at[j]
    /\ Values(at) = {m \in DOMAIN mapTab : mapTab[m].ctx = id}
    /\ \A i \in 1..k : DirsWith(mapTab[at[i]].conf) = {dirs[i]}

HasDirs(id, dirs) == Gives(id, dirs, Len(dirs))

(* The context of the file that contains context n. *)
Up(n) == CHOOSE m \in DOMAIN nodes : n \in Values(nodes[m].subs)

(* No two sub-contexts of one context have the same tag. *)
Apart == \A n \in DOMAIN nodes : \A i, j \in DOMAIN nodes[n].subs :
           nodes[nodes[n].subs[i]].label = nodes[nodes[n].subs[j]].label => i = j

(* The walk starts at the innermost section that is still open; the contexts *)
(* read after it began are all inside it.                                    *)
Walked == {n \in DOMAIN nodes : n >= Current}

(* The row with this id and all that are below it. *)
Below(rows, id) ==
  {x \in {r.id : r \in rows} : \A S \in SUBSET {r.id : r \in rows} :
     /\ id \in S
     /\ \A r \in rows : r.parent \in S => r.id \in S
     => x \in S}

-----------------------------------------------------------------------------
(* Every variable holds what the script may put there. *)
TypeOK ==
  /\ file \in Seq(FileLine) /\ newline \in BOOLEAN /\ addConf \in BOOLEAN
  /\ pos \in 0..Len(file)
  /\ nodes \in Seq(Node) /\ nodes # <<>>
  /\ ctxs \in Seq(1..Len(nodes)) /\ ctxs # <<>>
  /\ pc \in {"parse", "delctx", "delconf", "delmap", "root", "findroot",
             "process", "done", "dead"}
  /\ calls \in Seq(Call)
  /\ ctxTab \subseteq CtxRow /\ confTab \subseteq ConfRow /\ mapTab \in Seq(MapRow)
  /\ lastCtx \in Nat /\ lastConf \in Nat /\ runs \in Nat
  /\ DOMAIN placed \subseteq DOMAIN nodes /\ Values(placed) \subseteq Nat
  /\ old.ctxs \subseteq CtxRow /\ old.confs \subseteq ConfRow
  /\ old.maps \in Seq(MapRow)

(* An import that deletes what was there leaves in the tables exactly the    *)
(* section it walks, whatever earlier runs left behind, finished or not: one *)
(* row per context, under the row of the context that contains it, with its  *)
(* own directives in their order; provided no two siblings have the same     *)
(* tag.  For a file with all sections closed and its last line terminated    *)
(* that is the whole file; an unterminated last line is lost, and if it is   *)
(* a closing tag, so is everything outside of its section, whose directives  *)
(* become those of the server config.                                        *)
Imported ==
  pc = "done" /\ ~addConf /\ Apart =>
    /\ DOMAIN placed = Walked
    /\ \A m, n \in Walked : placed[m] = placed[n] => m = n
    /\ ctxTab = {[id |-> placed[n],
                  parent |-> IF n = Current THEN Null ELSE placed[Up(n)],
                  label |-> IF n = Current THEN Default ELSE nodes[n].label] : n \in Walked}
    /\ \A n \in Walked : HasDirs(placed[n], nodes[n].dirs)
    /\ \A m \in Values(mapTab) : m.ctx \in Values(placed)

(* At every moment the context rows form trees: a parent has a row, older    *)
(* than those of its sub-contexts.  So a reader that comes between two       *)
(* statements, or after the script died, meets no cycle and no row without a *)
(* root.                                                                     *)
Connected ==
  \A r \in ctxTab : r.parent # Null => \E s \in ctxTab : s.id = r.parent /\ s.id < r.id

(* An import that deletes what was there never shows a reader two roots. *)
OneRoot ==
  ~addConf /\ Cardinality(RootsOf(old.ctxs)) <= 1 => Cardinality(RootsOf(ctxTab)) <= 1

(* If all contexts of the file are closed, a mapping this run made ties a    *)
(* directive to a context of the file that contains it, and both have their  *)
(* rows: a reader never gets a directive in a context of another tag.        *)
MapsRight ==
  ctxs = <<1>> =>
    \A m \in Values(mapTab) \ Values(old.maps) :
      \E n \in DOMAIN placed : \E r \in ctxTab, c \in confTab :
        /\ r.id = m.ctx /\ r.label = nodes[n].label
        /\ c.id = m.conf /\ c.dir \in Values(nodes[n].dirs)

(* With --add-conf, no row disappears and none changes. *)
Grows ==
  [][addConf => /\ ctxTab \subseteq ctxTab'
                /\ confTab \subseteq confTab'
                /\ mapTab = SubSeq(mapTab', 1, Len(mapTab))]_vars

(* The script ends. *)
Finishes == pc = "parse" ~> Over

-----------------------------------------------------------------------------
(* mod_conf_sql.html:133: "The ftpmap table maps the configuration directive *)
(* to its appropriate context by IDs."  At the end, the row of each context  *)
(* of the file has the directives of that context.                           *)
OwnDirectives ==
  pc = "done" => \A n \in DOMAIN placed : HasDirs(placed[n], nodes[n].dirs)
=============================================================================
