--------------------------- MODULE RoundTripProps ---------------------------
(***************************************************************************)
(* What comes out of the tables, for what went into them.                  *)
(***************************************************************************)
EXTENDS RoundTrip, SequencesExt

(* The tags that are open behind each line of a configuration. *)
OpenTags(ls) ==
  LET path[i \in 0..Len(ls)] ==
        IF i = 0 THEN <<>>
        ELSE IF ls[i].kind = "open" THEN Append(path[i - 1], ls[i].what)
        ELSE IF ls[i].kind = "close" /\ path[i - 1] # <<>> THEN Front(path[i - 1])
        ELSE path[i - 1]
  IN  path

(* A configuration is the bag of its tags and directives, each with the tags *)
(* around it: the order of siblings is not kept by any table.                *)
Meaning(ls) ==
  LET tags == OpenTags(ls)
      lineNos == {i \in DOMAIN ls : ls[i].kind # "close"}
      entry(i) == <<tags[i - 1], ls[i].kind, ls[i].what>>
  IN  [e \in {entry(i) : i \in lineNos} |-> Cardinality({i \in lineNos : entry(i) = e})]

(* The lines of the server, as the rows of the tables spell them. *)
LabelOf(id) == (CHOOSE r \in ctxTab : r.id = id).label

DirOf(id) == (CHOOSE c \in confTab : c.id = id).dir

ConfOf(line) == IF line.kind = "dir" THEN mapTab[line.dir].conf ELSE Null

ServerText ==
  [i \in DOMAIN lines |->
     [kind |-> lines[i].kind, ctx |-> lines[i].ctx, conf |-> ConfOf(lines[i]),
      what |-> IF lines[i].kind = "dir" THEN DirOf(ConfOf(lines[i])) ELSE LabelOf(lines[i].ctx)]]

Delivered == IF reader = "export" THEN output ELSE ServerText

(* The reader has delivered, and nobody wrote since its first query. *)
Served == (step = "end" \/ pcS = "done") /\ quiet

(* Directive rows, each with the context row it applies to. *)
RowsOf(ls) == {<<ls[i].ctx, ls[i].conf>> : i \in {j \in DOMAIN ls : ls[j].kind = "dir"}}

RowsBelow(root) ==
  {<<m.ctx, m.conf>> : m \in {n \in Values(mapTab) : /\ n.ctx \in Below(ctxTab, root.id)
                                                     /\ \E c \in confTab : c.id = n.conf}}

-----------------------------------------------------------------------------
(* What is imported comes back: a reader that reads after an import which    *)
(* deleted what was there delivers the tags and directives of the file, each *)
(* as often and within the same tags, whatever earlier imports did and       *)
(* wherever they died, and however the reader began before; provided all     *)
(* sections are closed, no two siblings have the same tag, and sql2conf.pl   *)
(* prints each tag as it is (it drops the value "0").                        *)
EndToEnd ==
  Served /\ pc = "done" /\ ~addConf /\ ctxs = <<1>> /\ Apart
  /\ (reader = "export" => \A n \in DOMAIN nodes : Shown[nodes[n].label] = nodes[n].label)
  => Meaning(Delivered) = Meaning(SubSeq(file, 1, pos))

(* On tables in any state an import leaves them in, dead or with --add-conf, *)
(* the server loads exactly what is below the only row without a parent, and *)
(* nothing if there are several; sql2conf.pl shows exactly what is below one *)
(* of them, so that the two agree if and only if there is one.               *)
OneConfiguration ==
  Served =>
    IF RootsOf(ctxTab) = {} \/ (reader = "server" /\ Cardinality(RootsOf(ctxTab)) # 1)
    THEN Delivered = <<>>
    ELSE \E r \in RootsOf(ctxTab) : RowsOf(Delivered) = RowsBelow(r)

(* While rows are deleted and inserted under its hands, sql2conf.pl never    *)
(* puts a directive within a tag it was not imported with: the ids it holds  *)
(* from an earlier query name the same row or none.                          *)
NoMixture ==
  \A i \in DOMAIN text : text[i].kind = "dir" =>
    LET tags == OpenTags(text)[i] IN
      \/ tags # <<>> /\ Last(tags) = Blank
      \/ \E m \in made : /\ m[2] = text[i].what
                         /\ IF tags = <<>> THEN m[1] = Default ELSE Shown[m[1]] = Last(tags)

(* However the imports interfere, the recursion of a reader stays within the *)
(* depth of a file: sql2conf.pl never goes deeper, and the server never      *)
(* stands before a sub-context for which its stack holds no frame.           *)
Bounded ==
  /\ Len(walk) <= MaxDepth
  /\ stack # <<>> /\ Last(stack).kids # {} => Len(stack) < MaxDepth
=============================================================================
