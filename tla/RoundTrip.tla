------------------------------ MODULE RoundTrip ------------------------------
(***************************************************************************)
(* The three programs around the tables: conf2sql.pl fills them, while     *)
(* either sql2conf.pl or the server reads them, at any moment of one or    *)
(* several imports.  The importer is the module this one extends, the      *)
(* readers are instances that share its three tables; the tables are all   *)
(* that the programs have in common.                                       *)
(***************************************************************************)
EXTENDS Conf2SqlProps

CONSTANTS
  Reader,   \* the programs that may read: "server", "export"
  Blank,    \* the tag of a row that is gone
  Shown,    \* how sql2conf.pl prints the tag of each label
  ZeroId,   \* the id the server starts from without a root
  NullAs,   \* what the server gets for a NULL: "empty" or "null"
  EmptyRow, \* what the server reads of a row that is gone: "untagged" or "crash"
  MaxDepth  \* bound: the depth of the server's recursion

(* How many of the lines i..j of a file are of this kind. *)
Count(f, kind, i, j) == Cardinality({k \in i..j : f[k].kind = kind})

(* No stretch of a file opens as many contexts more than it closes as the    *)
(* server has frames for, the one of the base apart.                         *)
Shallow(f) ==
  \A i, j \in DOMAIN f : Count(f, "open", i, j) < Count(f, "close", i, j) + MaxDepth

ASSUME RoundTripAssumption ==
  /\ Reader \subseteq {"server", "export"}
  /\ ZeroId \notin Nat
  /\ NullAs \in {"empty", "null"}
  /\ EmptyRow \subseteq {"untagged", "crash"}
  /\ MaxDepth \in Nat \ {0}
  /\ \A f \in Files : Shallow(f)

VARIABLES
  reader,                             \* the program that reads
  step, walk, text, output,           \* sql2conf.pl
  pcS, res, sql, trouble, roots, stack, lines, \* sqlconf_read_db
  quiet, \* history: the tables are as they were at the reader's first query
  made   \* history: the directives ever mapped, each with the tag of its context

exportVars == <<step, walk, text, output>>
serverVars == <<pcS, res, sql, trouble, roots, stack, lines>>
readVars == <<reader, exportVars, serverVars>>
allVars == <<vars, readVars, quiet, made>>

-----------------------------------------------------------------------------
Export == INSTANCE Sql2Conf WITH NoConf <- Null

(* The tables as the server's queries see them; ftpctx.value is NULL in the *)
(* row of the server config.  A mapping stands for the directive it maps: a  *)
(* join has one row for each mapping, even of the same two rows.             *)
AsTable ==
  [ctxs |-> {[id |-> r.id, parent |-> r.parent, key |-> "named",
              val |-> IF r.label = Default THEN "null" ELSE "text"] : r \in ctxTab},
   confs |-> {i \in DOMAIN mapTab : \E c \in confTab : c.id = mapTab[i].conf},
   maps |-> {<<i, mapTab[i].ctx>> : i \in DOMAIN mapTab}]

(* The ids that AUTO_INCREMENT gives.  There is no WHERE clause.  The read of *)
(* the freed result of the root query is taken to return what was there, and *)
(* no query fails: what the server does otherwise is ReadDb's own subject.    *)
Ids == Nat \ {0}

Server == INSTANCE ReadDb WITH
  Ctx <- Ids, Dir <- Ids, NoCtx <- Null,
  Histories <- {<<[ctxs |-> {}, confs |-> {}, maps |-> {}]>>}, Bases <- {Null},
  CtxWhere <- Ids, ConfWhere <- Ids, Faults <- {},
  FreedReads <- {"intact"}, MaxFrames <- MaxDepth,
  history <- <<AsTable>>, ver <- 1, base <- 0, pc <- pcS

-----------------------------------------------------------------------------
(* The last line of each file is terminated here. *)
RoundTripInit ==
  /\ Init /\ newline
  /\ reader \in Reader
  /\ Export!Init /\ Server!Init
  /\ quiet = TRUE /\ made = {}

(* The reader has asked its first query. *)
Reading == step # "start" \/ pcS \in {"walk", "close", "cleanup", "done", "crashed"}

(* What an insertion into the mapping table ties together. *)
MadeBy(m) ==
  {<<r.label, c.dir>> : r \in {s \in ctxTab : s.id = m.ctx}, c \in {d \in confTab : d.id = m.conf}}

ImporterStep ==
  /\ Step \/ Die \/ (Rerun /\ newline')
  /\ quiet' = (quiet /\ (Reading => UNCHANGED <<ctxTab, confTab, mapTab>>))
  /\ made' = IF Len(mapTab') > Len(mapTab) THEN made \union MadeBy(mapTab'[Len(mapTab')]) ELSE made
  /\ UNCHANGED readVars

ExportStep ==
  /\ reader = "export"
  /\ UNCHANGED <<vars, reader, serverVars, quiet, made>>
  /\ Export!Next

ServerStep ==
  /\ reader = "server"
  /\ UNCHANGED <<vars, reader, exportVars, quiet, made>>
  /\ Server!Step

Ended == Over /\ runs = MaxRuns /\ (step \in {"end", "dead"} \/ pcS \in {"done", "crashed"})

RoundTripNext == ImporterStep \/ ExportStep \/ ServerStep \/ (Ended /\ UNCHANGED allVars)

RoundTripSpec == RoundTripInit /\ [][RoundTripNext]_allVars
=============================================================================
