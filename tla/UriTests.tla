------------------------------ MODULE UriTests ------------------------------
(***************************************************************************)
(* The cases of the unit tests, t/api/uri.c and t/api/param.c, with what   *)
(* they assert: the model is held to them in every state it reaches.       *)
(* Those that pass null pointers are left out, as mod_conf_sql.c never     *)
(* does, and so is "sql://castaglia.org?foo=&" (t/api/uri.c:403): whether  *)
(* it is rejected depends on the memory behind it.                         *)
(***************************************************************************)
EXTENDS UriParamsProps

(* What sqlconf_uri_parse gives its caller. *)
Given ==
  [host |-> Host, port |-> IF HasPort THEN PortNo ELSE 0, path |-> Path,
   user |-> User, password |-> Password, params |-> Cardinality(DOMAIN params)]

(* A URI with those of the results that are asserted, or one that fails. *)
Gives(u, results) == [uri |-> <<"sql://">> \o u, fails |-> FALSE, results |-> results]
Fails(u) == [uri |-> u, fails |-> TRUE, results |-> <<>>]

Slashed(names) == FlattenSeq([i \in DOMAIN names |-> <<"/", names[i]>>])

Site == <<"castaglia.org">>

SchemeTest == {Fails(<<"foo">>), Fails(<<"foobarbaz">>), Fails(<<"sql://">>)}

HostTest ==
  {Gives(Site, [host |-> Site]),
   Gives(<<"127.0.0.1">>, [host |-> <<"127.0.0.1">>]),
   Gives(<<"[", ":", ":", "1", "]">>, [host |-> <<":", ":", "1">>]),
   Fails(<<"sql://", "[", ":", ":", "1">>),
   LET file == Slashed(<<"path", "to", "some", "file">>) IN Gives(file, [host |-> file])}

PortTest ==
  {Gives(Site, [port |-> 0]), Gives(Site \o <<":", "3567">>, [port |-> 3567])}
  \union {Fails(<<"sql://">> \o Site \o <<":", n>>) : n \in {"foo", "0", "70000"}}

UserInfoTest ==
  LET nobody == [user |-> None, password |-> None]
      user(password) == [user |-> Some(<<"user">>), password |-> Some(password)]
  IN  {Gives(Site, nobody),
       Gives(<<"user", "@">> \o Site, nobody),
       Gives(<<"user", ":", "pass", "@">> \o Site, user(<<"pass">>)),
       Gives(<<"user", ":", "@">> \o Site, user(<<>>)),
       Gives(<<"@">> \o Site, nobody)}

PathTest ==
  LET resource == Slashed(<<"path", "to", "resource">>)
      there == Site \o <<":", "1234">> \o resource
  IN  {Gives(Site, [path |-> None]),
       Gives(Site \o <<"/", "path">>, [path |-> Some(<<"/", "path">>)]),
       Gives(there, [path |-> Some(resource)]),
       Gives(there \o <<"?", "key", "=", "val">>, [path |-> Some(resource)])}

ParamsTest ==
  {Fails(<<"sql://">> \o Site \o <<"?", "foo">>),
   Gives(Site \o <<"?", "foo", "=">>, [params |-> 1]),
   Gives(Site \o <<"?", "foo", "=", "bar", "&", "foo", "=", "baz">>, [params |-> 1]),
   Gives(Site \o <<"?", "foo", "=", "bar", "&", "baz", "=", "quxx", "&", "foo", "=", "baz">>,
         [params |-> 2])}

(* The path of an SQLite database is the host, and takes the rest with it. *)
RealUrisTest ==
  LET sqlite == Slashed(<<"path", "to", "sqlite.db">>)
      users == Slashed(<<"Users", "tj", "git", "proftpd-mod_conf_sql", "proftpd.db">>)
      file(host, n) == [host |-> host, path |-> None, user |-> None, password |-> None,
                        port |-> 0, params |-> n]
  IN  {Gives(<<"user", ":", "pass", "@", "server", ":", "12345", "/", "dbname">>,
             [host |-> <<"server">>, path |-> Some(<<"/", "dbname">>), user |-> Some(<<"user">>),
              password |-> Some(<<"pass">>), port |-> 12345, params |-> 0]),
       Gives(sqlite \o <<"?", "database", "=", "dbname">>, file(sqlite, 1)),
       Gives(sqlite \o <<"/", "dbname">>, file(sqlite \o <<"/", "dbname">>, 0)),
       Gives(<<"foo", ":", "bar", "@", "localhost", "?", "database", "=", "proftpd", "&", "ctx", "=",
               "vhostctx", "&", "conf", "=", "vhostconf", "&", "map", "=", "vhostmap", "&",
               "base_id", "=", "7">>,
             [file(<<"localhost">>, 5) EXCEPT !.user = Some(<<"foo">>), !.password = Some(<<"bar">>)]),
       Gives(users \o <<"?", "ctx", "=", "ftpctx", ":", "id", ",", "parent_id", ",", "name", ",",
                        "type", ",", "value", "&", "conf", "=", "ftpconf", ":", "id", ",", "type",
                        ",", "value">>,
             file(users, 2))}

UriCases ==
  SchemeTest \union HostTest \union PortTest \union UserInfoTest \union PathTest
  \union ParamsTest \union RealUrisTest

TestUris == {c.uri : c \in UriCases}

UrlDecodeTest ==
  {[src |-> <<>>, dst |-> <<>>],
   [src |-> <<"foo", "+", "bar", "%20", "baz">>, dst |-> <<"foo", " ", "bar", " ", "baz">>]}

-----------------------------------------------------------------------------
(* A parameter that pr_table_add has put into the table: with its NUL, or of *)
(* one character, its NUL, which counts as empty like a text without any.    *)
Added(kind, v) == (<<kind>> :> IF v = <<>> THEN <<>> ELSE Append(v, NUL))

Makes(kind, ps, table, cols, where) ==
  [kind |-> kind, params |-> ps, fails |-> FALSE,
   parsed |-> [table |-> table, cols |-> cols, where |-> where]]

Breaks(kind, v) ==
  [kind |-> kind, params |-> Added(kind, v), fails |-> TRUE,
   parsed |-> [table |-> None, cols |-> None, where |-> None]]

(* A parameter of a table, its columns and its clause, which may be escaped. *)
Makes3(kind, table, cols, raw, where) ==
  Makes(kind,
        Added(kind, <<table>>
                    \o (IF cols = <<>> /\ raw = <<>> THEN <<>> ELSE <<":">>)
                    \o (IF cols = <<>> THEN <<>> ELSE Listed([i \in DOMAIN cols |-> <<cols[i]>>]))
                    \o (IF raw = <<>> THEN <<>> ELSE <<":", "WHERE", "=">> \o raw)),
        Some(<<table>>),
        IF cols = <<>> THEN None ELSE Some([i \in DOMAIN cols |-> <<cols[i]>>]),
        IF where = <<>> THEN None ELSE Some(<<"WHERE", "=">> \o where))

(* "foo = 1 AND bar = 'baz'", and its escaped form with the blanks given. *)
Complex == <<"foo", " ", "=", " ", "1", " ", "AND", " ", "bar", " ", "=", " ", "'", "baz", "'">>

Raw(blanks) ==
  <<"foo", blanks[1], "%3D", blanks[2], "1", blanks[3], "AND", blanks[4], "bar", blanks[5], "%3D",
    blanks[6], "%27", "baz", "%27">>

Unset(kind) ==
  {Makes(kind, <<>>, None, None, None), Makes(kind, Added(kind, <<>>), None, None, None)}

ConfTest ==
  LET cols == <<"my_id_col", "my_name_col", "my_val_col">>
  IN  Unset("conf") \union
      {Makes3("conf", "table", <<>>, <<>>, <<>>),
       Makes3("conf", "table", <<>>, <<"bar">>, <<"bar">>),
       Makes3("conf", "my_table", cols, <<>>, <<>>),
       Makes3("conf", "my_table", cols, <<"barbaz">>, <<"barbaz">>),
       Makes3("conf", "my_table", cols, Raw([i \in 1..6 |-> "%20"]), Complex)}

ConfTestMalformed ==
  {Breaks("conf", <<"foo", ":", "bar">>), Breaks("conf", <<"foo", ":", ":", "bar">>)}

CtxTest ==
  LET cols == <<"my_id_col", "my_parentid_col", "my_type_col", "my_val_col">>
  IN  Unset("ctx") \union
      {Makes3("ctx", "table", <<>>, <<>>, <<>>),
       Makes3("ctx", "table", <<>>, <<"bar">>, <<"bar">>),
       Makes3("ctx", "my_table", cols, <<>>, <<>>),
       Makes3("ctx", "my_table", cols, <<"barbaz">>, <<"barbaz">>),
       Makes3("ctx", "my_table", cols, Raw([i \in 1..6 |-> "+"]), Complex)}

CtxTestMalformed ==
  {Breaks("ctx", <<"foo", ":", "bar">>), Breaks("ctx", <<"foo", ":", ":", "bar">>)}

MapTest ==
  LET cols == <<"my_conf_id", "my_ctx_id">>
  IN  Unset("map") \union
      {Makes3("map", "table", <<>>, <<>>, <<>>),
       Makes3("map", "table", <<>>, <<"foo">>, <<"foo">>),
       Makes3("map", "table", cols, <<>>, <<>>),
       Makes3("map", "table", cols, <<"foo">>, <<"foo">>),
       Makes3("map", "table", cols, Raw(<<"+", "+", "%20", "%20", "%20", "+">>), Complex)}

MapTestMalformed ==
  {Breaks("map", <<"foo", ":", "bar">>), Breaks("map", <<"foo", ":", ":", "bar">>)}

ParamCases ==
  ConfTest \union ConfTestMalformed \union CtxTest \union CtxTestMalformed
  \union MapTest \union MapTestMalformed

(* The tests of param.c have a table of parameters, and no URI. *)
NoUri == <<"sql://", "param.c">>

TestInit ==
  /\ \E c \in ParamCases : params = c.params /\ pc = c.kind
  /\ uri = NoUri /\ rest = <<>>
  /\ InitSettings
  /\ parses = 1

TestedSpec == (Init \/ TestInit) /\ [][Next]_vars

-----------------------------------------------------------------------------
(* A URI of the tests is accepted or rejected as they assert, and gives the  *)
(* host, port, path, user and number of parameters that they assert; here,   *)
(* whatever was parsed before and whatever lies behind the URI.              *)
UrisAsTested ==
  \A c \in UriCases : c.uri = uri =>
    /\ pc = "bad" /\ DOMAIN params \intersect {<<kind>> : kind \in Kind} = {} => c.fails
    /\ pc = "connect" => BadLocation \/ ~c.fails
    /\ pc = "connect" /\ ~c.fails =>
         ~BadLocation /\ \A r \in DOMAIN c.results : Given[r] = c.results[r]

(* A parameter of the tests is parsed to what they assert, or rejected; what *)
(* they assert to be null is the default in the end.                         *)
ParamsAsTested ==
  /\ \A c \in UrlDecodeTest : Decoded(c.src) = c.dst
  /\ uri = NoUri => \A c \in ParamCases : params = c.params /\ pc # c.kind =>
       IF c.fails THEN pc = "bad" ELSE pc # "bad" /\ tabs[c.kind] = Named(c.kind, c.parsed)
=============================================================================
