---------------------------- MODULE MCUriParams ----------------------------
(***************************************************************************)
(* Instances of UriParams for TLC: the URIs of the documentation and the   *)
(* tests and their variations, one part at a time.                         *)
(***************************************************************************)
EXTENDS UriTests

Names == {"tab", "ta", "t", "c1", "c2", "c3", "c4", "db", "7", "host", "usr", "pw",
          "80", "0", "70000"}

TestWords ==
  {"castaglia.org", "127.0.0.1", "localhost", "server", "1", "3567", "1234", "12345", "foo", "foobarbaz",
   "bar", "baz", "barbaz", "quxx", "key", "val", "user", "pass", "path", "to", "some", "file", "resource",
   "sqlite.db", "dbname", "Users", "tj", "git", "proftpd-mod_conf_sql", "proftpd.db", "proftpd",
   "vhostctx", "vhostconf", "vhostmap", "table", "my_table", "my_id_col", "my_name_col", "my_val_col",
   "my_parentid_col", "my_type_col", "my_conf_id", "my_ctx_id", "AND", "param.c"}

MCWord == Known \union Where \union Escapes \union Unescaped \union Names \union TestWords
MCOneChar == {"t", "7", "0", "1", "+", "'", " "}
MCClipped == [w \in MCWord \ MCOneChar |-> IF w = "tab" THEN "ta" ELSE "t"]
MCPortOf == ("80" :> 80) @@ ("0" :> 0) @@ ("70000" :> 70000) @@ ("7" :> 7) @@ ("1" :> 1)
            @@ ("3567" :> 3567) @@ ("1234" :> 1234) @@ ("12345" :> 12345)
MCTails == {<<",", "c1">>, <<":", "c1">>, <<"=", "tab", ":", ":", "where", "=", NUL>>}
MCFreed == {<<"pw">>}

Cols == [ctx |-> <<<<"c1">>, <<"c2">>, <<"c3">>, <<"c4">>>>,
         conf |-> <<<<"c1">>, <<"c2">>, <<"c3">>>>,
         map |-> <<<<"c2">>, <<"c1">>>>]

Clause == <<"name", "=", "7", "&", "c1", ":", "c2">>

(* The ways to name a table. *)
Tables(kind) ==
  {[table |-> "tab", cols |-> c, where |-> w] :
     c \in {None, Some(Cols[kind])}, w \in {None, Some(Clause)}}
  \union {[table |-> "t", cols |-> None, where |-> None]}

At(host) == [host |-> <<host>>, port |-> None, user |-> None, password |-> None, path |-> None]

Plain == [loc |-> At("host"), database |-> None, ctx |-> None, conf |-> None, map |-> None,
          base |-> Some(<<"7">>)]

Tabled ==
  UNION {{[Plain EXCEPT ![kind] = Some(t)] :
            t \in {u \in Tables(kind) : u.cols = None <=> u.where = None}} : kind \in Kind}

Whole3 == [Plain EXCEPT !.database = Some(<<"db">>),
                        !.ctx = Some([table |-> "tab", cols |-> Some(Cols.ctx), where |-> None]),
                        !.conf = Some([table |-> "tab", cols |-> None, where |-> Some(Clause)]),
                        !.map = Some([table |-> "tab", cols |-> None, where |-> None])]

(* Without base_id the table's parameter is the last one, of several or alone. *)
Last3 ==
  {[Whole3 EXCEPT !.base = None]}
  \union UNION {{[Plain EXCEPT !.base = None, !.database = Some(<<"db">>), ![kind] = Some(t)] :
                   t \in Tables(kind)} : kind \in Kind}
  \union {[Plain EXCEPT !.base = None, !.map = Some(t)] :
            t \in {u \in Tables("map") : u.where = None}}

(* The examples of mod_conf_sql.html:200, 210 and 216; the first has its user, *)
(* the others are without.  The one of line 234 is among those of the tests.  *)
Alone(name) == Some([table |-> name, cols |-> None, where |-> None])

Spelt(name, cols) == Some([table |-> name, cols |-> Some(cols), where |-> None])

Named3 == [loc |-> At("localhost"), database |-> Some(<<"proftpd">>),
           ctx |-> Alone("ftpctx"), conf |-> Alone("ftpconf"), map |-> Alone("ftpmap"),
           base |-> Some(<<"7">>)]

Example200 == [Named3 EXCEPT !.loc.user = Some(<<"foo">>), !.loc.password = Some(<<"bar">>),
                             !.base = None]

Example210 ==
  [Named3 EXCEPT !.ctx = Spelt("ftpctx", <<<<"id">>, <<"parent_id">>, <<"key">>, <<"value">>>>),
                 !.conf = Spelt("ftpconf", <<<<"id">>, <<"key">>, <<"value">>>>),
                 !.map = Spelt("ftpmap", <<<<"conf_id">>, <<"ctx_id">>>>),
                 !.base = None]

Examples == {Named3, Example200, Example210}

Locations ==
  {At("host"),
   [At("host") EXCEPT !.port = Some("80"), !.path = Some(<<"db">>)],
   [At("host") EXCEPT !.user = Some(<<"usr">>), !.password = Some(<<"pw", "@", "7">>)],
   [At("host") EXCEPT !.user = Some(<<"usr">>), !.password = Some(<<>>), !.port = Some("80")],
   [At("host") EXCEPT !.host = <<":", ":", "1">>, !.path = Some(<<"db">>)],
   [At("host") EXCEPT !.host = <<":", ":", "1">>, !.port = Some("80")],
   [At("host") EXCEPT !.host = <<"/", "name", "/", "db">>]}

MCForms == Tabled \union Last3 \union Examples \union {Whole3}
           \union {[Plain EXCEPT !.loc = l, !.base = None] : l \in Locations}

Base7 == <<"&", "base_id", "=", "7">>

(* Too few columns, also when the key comes twice, another part than "where=", *)
(* no "=".                                                                     *)
MCBroken ==
  {<<"sql://", "host", "?">> \o b \o Base7 :
     b \in {<<"ctx", "=", "tab", ":", "c1", ",", "c2", ",", "c3">>,
            <<"conf", "=", "tab", ":", "c1", ",", "c2">>,
            <<"map", "=", "tab", ":", "c1">>,
            <<"map", "=", "tab", ":", "c1", ",", "c2", ":", "name", "=", "c1">>,
            <<"conf", "=", "tab", ":", ":", "name">>,
            <<"ctx", "=", "tab", "&", "ctx", "=", "tab", ":", "c1">>,
            <<"ctx">>}}
  \union {<<"sql://", "host", ":", "0">>, <<"sql://", "host", ":", "70000", "/", "db">>,
          <<"sql://", "[", "host">>, <<"host">>, <<"sql://">>}

(* They are excluded by what the properties say, and what the forms say is not. *)
ASSUME /\ \A u \in MCBroken : Malformed(u)
       /\ \A f \in MCForms : ~Malformed(Render(f))

(* A key twice, a parameter that is cut short, an empty one. *)
Odd == {<<"sql://", "host", "?", "ctx", "=", "tab", "&", "driver", "=", "db", "&", "ctx", "=", "t">>,
        <<"sql://", "host", "?", "conf", "=", "tab", "&">>,
        <<"sql://", "host", "?", "conf", "=", "&", "map">>,
        <<"sql://", "host", "?", "ctx">>}

MCUris == {Render(f) : f \in MCForms} \union MCBroken \union Odd \union TestUris
DocUris == {Render(Whole3)}
ExampleUris == {Render(Example200)}
=============================================================================
