-------------------------- MODULE UriParamsProps --------------------------
(***************************************************************************)
(* What the URI of mod_conf_sql means, by its documented form, and what    *)
(* the parsing of it promises.                                             *)
(***************************************************************************)
EXTENDS UriParams

CONSTANT
  Forms  \* what may be said in a URI; those of Uris that are well-formed say it

IsOption(o, S) == o = None \/ \E x \in o : o = {x} /\ x \in S

Name == Seq(Word)

(* The server by its name, its address or the path of its socket, and the    *)
(* rest of the connection.  An address is written in brackets.               *)
IsLocation(l) ==
  /\ \/ l.host \in Name \ {<<>>}
     \/ l.host \in Seq(Word \union {":"}) /\ Has(l.host, ":")
     \/ /\ l.host \in Seq(Word \union {"/"}) \ {<<>>} /\ l.host[1] = "/"
        /\ l.port = None /\ l.path = None
  /\ IsOption(l.port, {n \in DOMAIN PortOf : PortOf[n] \in Ports})
  /\ IsOption(l.user, Seq(Token \ {":", "?", NUL}))
  /\ IsOption(l.password, Seq(Token \ {"?", NUL}))
  /\ l.user = None <=> l.password = None
  /\ IsOption(l.path, Seq(Word \union {"/"}))

(* A table, all of its columns, and a clause for its queries.                *)
IsTable(kind, t) ==
  /\ t.table \in Word
  /\ IsOption(t.cols, {c \in Seq(Name) : Len(c) = Width(kind)})
  /\ IsOption(t.where, Seq(Token \ (Escapes \union {NUL})))

IsForm(f) ==
  /\ IsLocation(f.loc)
  /\ IsOption(f.database, Name) /\ IsOption(f.base, Name)
  /\ \A kind \in Kind : f[kind] = None \/ \E t \in f[kind] : f[kind] = {t} /\ IsTable(kind, t)

ASSUME FormsAssumption == \A f \in Forms : IsForm(f)

-----------------------------------------------------------------------------
(* The value of a table parameter, and a whole URI.                          *)
AndColumn(cols, n) == IF n > Len(cols) THEN <<>> ELSE <<",">> \o cols[n]

Listed(cols) == cols[1] \o (AndColumn(cols, 2) \o (AndColumn(cols, 3) \o AndColumn(cols, 4)))

ListedCols(t) == IF t.cols = None THEN <<>> ELSE Listed(Or(t.cols, <<>>))

Escaped(s) == [i \in DOMAIN s |-> IF s[i] = "&" THEN "%26" ELSE s[i]]

AndClause(t) ==
  IF t.where = None THEN <<>> ELSE <<":">> \o (<<"where", "=">> \o Escaped(Or(t.where, <<>>)))

Written(t) ==
  <<t.table>> \o (IF t.cols = None /\ t.where = None THEN <<>>
                  ELSE <<":">> \o (ListedCols(t) \o AndClause(t)))

Item(f, key) ==
  IF key = "database" THEN f.database ELSE IF key = "base_id" THEN f.base
  ELSE {Written(t) : t \in f[key]}

AndParam(f, key) ==
  IF Item(f, key) = None THEN <<>> ELSE <<"&">> \o (<<key, "=">> \o Or(Item(f, key), <<>>))

Params(f) ==
  AndParam(f, "database") \o (AndParam(f, "ctx") \o (AndParam(f, "conf")
    \o (AndParam(f, "map") \o AndParam(f, "base_id"))))

HostText(h) == IF Has(h, ":") THEN <<"[">> \o (h \o <<"]">>) ELSE h

UserText(l) ==
  IF l.user = None THEN <<>> ELSE Or(l.user, <<>>) \o (<<":">> \o (Or(l.password, <<>>) \o <<"@">>))

PortText(l) == IF l.port = None THEN <<>> ELSE <<":", Or(l.port, "")>>

PathText(l) == IF l.path = None THEN <<>> ELSE <<"/">> \o Or(l.path, <<>>)

LocationText(l) == UserText(l) \o (HostText(l.host) \o (PortText(l) \o PathText(l)))

Render(f) ==
  <<"sql://">> \o (LocationText(f.loc)
                   \o (IF Params(f) = <<>> THEN <<>> ELSE <<"?">> \o Tail(Params(f))))

(* The well-formed URIs, with what they say. *)
Meaning == {<<Render(f), f>> : f \in Forms}

Said == {m[2] : m \in {n \in Meaning : n[1] = uri}}

(* The parameters, in the order in which a form is written. *)
KeyNo == <<"database", "ctx", "conf", "map", "base_id">>

(* The j-th one is the last, and not the only one: the code reads its value  *)
(* with a length that goes on behind the NUL (uri.c:338).                    *)
LastOfSeveral(f, j) ==
  /\ Item(f, KeyNo[j]) # None
  /\ \A k \in (j + 1)..5 : Item(f, KeyNo[k]) = None
  /\ \E k \in 1..(j - 1) : Item(f, KeyNo[k]) # None

RunsOn(f, kind) == \E j \in 1..5 : KeyNo[j] = kind /\ LastOfSeveral(f, j)

(* A name that stands alone, with its own length: one of a single character  *)
(* counts as empty, and that of the mappings loses its last (AsGiven).       *)
NamedTable(f, kind, t) ==
  IF t.cols # None \/ t.where # None \/ RunsOn(f, kind) THEN <<t.table>>
  ELSE IF t.table \in OneChar THEN Defaults[kind].table
  ELSE IF kind = "map" THEN <<Clipped[t.table]>> ELSE <<t.table>>

(* What the code makes of what a form says of a table: the clause keeps its  *)
(* "where=" (AsGiven again).                                                 *)
Says(f, kind) ==
  IF f[kind] = None THEN Defaults[kind]
  ELSE LET t == Or(f[kind], <<>>)
       IN  [table |-> NamedTable(f, kind, t),
            cols |-> IF t.cols = None THEN Defaults[kind].cols ELSE Or(t.cols, <<>>),
            where |-> {<<"where", "=">> \o w : w \in t.where}]

(* The parameter of this kind runs on into other memory and no clause ends   *)
(* it, and a colon there makes the memory a part of it (DefaultColumns).     *)
Overread(f, kind) ==
  /\ RunsOn(f, kind) /\ \A t \in f[kind] : t.where = None
  /\ \E v \in Value(kind) : Has(After(v, NUL), ":")

-----------------------------------------------------------------------------
(* What the documentation excludes.  The query begins behind the first "?".  *)
FirstIn(u, i, j, marks) == u[j] \in marks /\ \A k \in i..(j - 1) : u[k] \notin marks

(* There is a parameter at i..j, and what it ends with can be seen: "&", or  *)
(* the NUL when it is the only one.                                          *)
PartAt(u, i, j) ==
  \E q \in DOMAIN u :
    /\ FirstIn(u, 1, q, {"?"}) /\ q < i
    /\ i = q + 1 \/ u[i - 1] = "&"
    /\ \A k \in i..j : u[k] # "&"
    /\ IF j = Len(u) THEN i = q + 1 ELSE u[j + 1] = "&"

(* Some of the columns, but not all. *)
SomeColumns(kind, v) ==
  \E c \in DOMAIN v, e \in 1..(Len(v) + 1) :
    /\ FirstIn(v, 1, c, {":"})
    /\ c + 1 < e /\ \A k \in (c + 1)..(e - 1) : v[k] # ":"
    /\ e = Len(v) + 1 \/ v[e] = ":"
    /\ Cardinality({k \in (c + 1)..(e - 1) : v[k] = ","}) < Width(kind) - 1

(* A third part that is no clause. *)
NoClause(v) ==
  \E c, d \in DOMAIN v :
    /\ FirstIn(v, 1, c, {":"}) /\ c < d /\ FirstIn(v, c + 1, d, {":"})
    /\ ~(d + 2 <= Len(v) /\ v[d + 1] \in Where /\ v[d + 2] = "=")

(* No "=", or a table described badly and by no later parameter. *)
BadPart(u, i, j) ==
  \/ \A k \in i..j : u[k] # "="
  \/ /\ i < j /\ u[i] \in Kind /\ u[i + 1] = "="
     /\ \A k \in (j + 2)..Len(u) : u[k - 1] = "&" => u[k] # u[i]
     /\ LET v == SubSeq(u, i + 2, j) IN SomeColumns(u[i], v) \/ NoClause(v)

(* The location is at a..z: an address without an end, or another port than  *)
(* 1 to 65535 behind the first colon that is not the address's.              *)
BadServer(u) ==
  \E a, z \in DOMAIN u :
    /\ 1 < a /\ a <= z
    /\ \A k \in 1..z : u[k] # "?"
    /\ z = Len(u) \/ u[z + 1] = "?"
    /\ a = 2 \/ u[a - 1] = "@"
    /\ \A k \in a..z : u[k] # "@"
    /\ \/ u[a] = "[" /\ \A k \in a..z : u[k] # "]"
       \/ \E h, c \in a..z :
            /\ IF u[a] = "[" THEN FirstIn(u, a, h, {"]"}) ELSE h = a
            /\ h < c /\ FirstIn(u, h + 1, c, {":"})
            /\ ~(/\ c < z /\ u[c + 1] \in DOMAIN PortOf /\ PortOf[u[c + 1]] \in Ports
                 /\ c + 1 = z \/ u[c + 2] = "/")

Malformed(u) ==
  \/ ~HasScheme(u)
  \/ BadServer(u)
  \/ \E i \in 1..(Len(u) + 1), j \in 1..Len(u) : i <= j + 1 /\ PartAt(u, i, j) /\ BadPart(u, i, j)

-----------------------------------------------------------------------------
(* Every variable holds what the code may put there. *)
TypeOK ==
  /\ uri \in Text /\ rest \in Text
  /\ DOMAIN params \subseteq Text /\ \A k \in DOMAIN params : params[k] \in Text
  /\ pc \in {"query", "connect", "ctx", "conf", "map", "base", "ok", "bad"}
  /\ db.host \in Text /\ db.port \in {0} \union Ports
  /\ \A o \in {db.user, db.password, db.database, base, driver} : IsOption(o, Text)
  /\ \A kind \in Kind :
       /\ tabs[kind].table \in Text
       /\ tabs[kind].cols \in Seq(Text) /\ Len(tabs[kind].cols) = Width(kind)
       /\ \A w \in tabs[kind].where : w \in Text
  /\ parses \in 1..MaxParses

(* An accepted URI of the documented form has set what it says and the       *)
(* defaults for what it leaves out, whatever was parsed before it.  Its last *)
(* parameter may be that of a table, which is read on into the memory behind *)
(* it: that changes nothing, unless there is a colon and no clause before it.*)
Settled ==
  pc = "ok" => \A f \in Said :
    /\ \A kind \in Kind : Overread(f, kind) \/ tabs[kind] = Says(f, kind)
    /\ f.base # None => base = f.base
    /\ f.database # None => db.database = f.database

(* A URI of the documented form is never refused for its parameters, its     *)
(* location, or what an earlier URI left in the settings; only for a colon   *)
(* in the memory behind it, when it ends with the names of a table.          *)
Accepted == pc = "bad" => \A f \in Said : \E kind \in Kind : Overread(f, kind)

(* mod_conf_sql.html:185: "if column names are specified, all of the columns *)
(* in the table must be provided"; neither a URI that names some of them nor *)
(* one with another part than "where=" or without a usable port is accepted, *)
(* whatever an earlier URI left in the settings.                             *)
AllColumns == pc = "ok" => ~Malformed(uri)

(* The server, its port and the user come out of the location whatever they  *)
(* are written with: brackets, an "@" in the password, a path; they may be   *)
(* what the freed memory reads as, but never a different part of the URI.    *)
Located ==
  pc \in {"ctx", "conf", "map", "base", "ok"} => \A f \in Said :
    /\ db.host \in {f.loc.host} \union Freed
    /\ db.port = IF f.loc.port = None THEN 0 ELSE PortOf[Or(f.loc.port, "")]
    /\ db.user \in {f.loc.user} \union {Some(x) : x \in Freed}
    /\ db.password \in {f.loc.password} \union {Some(x) : x \in Freed}
    /\ f.database = None /\ f.loc.path # None => db.database = f.loc.path

-----------------------------------------------------------------------------
(* param.c:305: "map=<table>[:conf_id,ctx_id][:where=<clause>]", and the     *)
(* same for the others.  An accepted URI that names a table, and a clause    *)
(* for its queries, has given the table that name and that clause.           *)
AsGiven ==
  pc = "ok" => \A f \in Said, kind \in Kind : \A t \in f[kind] :
    tabs[kind].table = <<t.table>> /\ tabs[kind].where = t.where

(* mod_conf_sql.html:196: "The following example shows a "path" where the    *)
(* table names are specified, but the column names in those tables are left  *)
(* to the default values".  A URI that names all of its tables so is         *)
(* accepted, with the default columns and without a clause.                  *)
DefaultColumns ==
  Over => \A f \in Said :
    (\A kind \in Kind : \E t \in f[kind] : t.cols = None /\ t.where = None) =>
      /\ pc = "ok"
      /\ \A kind \in Kind : tabs[kind].cols = Defaults[kind].cols /\ tabs[kind].where = None
=============================================================================
