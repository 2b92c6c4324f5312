----------------------------- MODULE UriParams -----------------------------
(***************************************************************************)
(* sqlconf_parse_uri with uri.c and param.c: how a "sql://" URI becomes    *)
(* the settings that sqlconf_read_db uses.                                 *)
(*                                                                         *)
(* A text is a sequence of words and marks.  What the code finds with      *)
(* memchr depends on the lengths it carries along with its pointers, and   *)
(* the last parameter of a URI is parsed with a length that is too large:  *)
(* the value is followed by its NUL and by whatever the memory behind it   *)
(* holds.  The settings are globals and outlive the URI.                   *)
(***************************************************************************)
EXTENDS Naturals, Sequences, FiniteSets, SequencesExt

CONSTANTS
  Word,      \* the words of a text: names, keys, numbers
  OneChar,   \* the words of a single character
  Clipped,   \* each longer word without its last character
  PortOf,    \* the value of each word that consists of digits
  Uris,      \* the URIs to parse
  Tails,     \* what the memory behind a text may hold
  Freed,     \* what a string in freed memory may read as, other than itself
  MaxParses  \* bound: the URIs parsed one after the other

NUL == "NUL"

Mark == {"?", "&", "=", ":", ",", "@", "/", "[", "]", NUL}

Token == Word \union Mark

Text == Seq(Token)

Kind == {"ctx", "conf", "map"}

(* A pointer that may be NULL: the empty set, or the set of the one value. *)
None == {}
Some(x) == {x}
Option(S) == {None} \union {Some(x) : x \in S}
Or(option, default) == IF option = None THEN default ELSE CHOOSE x \in option : TRUE

(* The words the code knows: the scheme, keys, and the names used by default. *)
Known == {"sql://", "ctx", "conf", "map", "database", "base_id", "driver",
          "ftpctx", "ftpconf", "ftpmap", "id", "parent_id", "type", "value", "name",
          "conf_id", "ctx_id"}

(* "where" in either case: strncasecmp. *)
Where == {"where", "WHERE"}

(* The escapes, and the characters they stand for. *)
Escapes == {"%26", "%3D", "%27", "%20", "+"}
Unescaped == {"'", " "}

CharOf(t) ==
  CASE t = "%26" -> "&" [] t = "%3D" -> "=" [] t = "%27" -> "'" [] t \in {"%20", "+"} -> " "
    [] OTHER -> t

HasScheme(u) == Len(u) > 1 /\ u[1] = "sql://"

ASSUME UriParamsAssumption ==
  /\ Known \union Where \union Escapes \union Unescaped \subseteq Word
  /\ Word \intersect Mark = {}
  /\ OneChar \subseteq Word
  /\ Clipped \in [Word \ OneChar -> Word]
  /\ DOMAIN PortOf \subseteq Word
  /\ \A n \in DOMAIN PortOf : PortOf[n] \in Nat
  /\ Uris \subseteq Text
  /\ \A u \in Uris : HasScheme(u) => \* there is a host
       LET a == IF \E i \in DOMAIN u : u[i] = "?"
                THEN SelectInSeq(u, LAMBDA t : t = "?") - 1 ELSE Len(u)
       IN  a > 1 /\ u[a] # "@"
  /\ Tails \subseteq Text
  /\ Freed \subseteq Text
  /\ MaxParses \in Nat \ {0}

(* The names of the tables and of their columns without a parameter. *)
Defaults ==
  [ctx  |-> [table |-> <<"ftpctx">>, where |-> None,
             cols |-> <<<<"id">>, <<"parent_id">>, <<"type">>, <<"value">>>>],
   conf |-> [table |-> <<"ftpconf">>, where |-> None,
             cols |-> <<<<"id">>, <<"name">>, <<"value">>>>],
   map  |-> [table |-> <<"ftpmap">>, where |-> None,
             cols |-> <<<<"conf_id">>, <<"ctx_id">>>>]]

Width(kind) == Len(Defaults[kind].cols)

VARIABLES
  uri,     \* the URI
  rest,    \* query_string: what is left of its parameters
  params,  \* the values of the parameters, by key
  pc,      \* where sqlconf_parse_uri is
  db,      \* sqlconf_db
  tabs,    \* sqlconf_ctxs, sqlconf_confs, sqlconf_maps
  base,    \* sqlconf_ctxs.base_id
  driver,  \* the driver it returns
  parses   \* the number of URIs so far

vars == <<uri, rest, params, pc, db, tabs, base, driver, parses>>

settings == <<db, tabs, base, driver>>

-----------------------------------------------------------------------------
(* memchr and strchr, and the two parts they cut a text into. *)
Find(s, mark) == SelectInSeq(s, LAMBDA t : t = mark)

FindLast(s, mark) == SelectLastInSeq(s, LAMBDA t : t = mark)

Has(s, mark) == Find(s, mark) # 0

Before(s, mark) == IF Has(s, mark) THEN SubSeq(s, 1, Find(s, mark) - 1) ELSE s

After(s, mark) == SubSeq(s, Find(s, mark) + 1, Len(s))

(* The C string at the beginning of a piece of memory, as pstrndup copies it. *)
CStr(memory) == Before(memory, NUL)

Query(u) == IF Has(u, "?") THEN Some(After(u, "?")) ELSE None

(* uri_store_kv: a later value replaces an earlier one. *)
Stored(key, value) ==
  [k \in DOMAIN params \union {key} |-> IF k = key THEN value ELSE params[k]]

(* What pr_table_get returns for a key. *)
Value(key) == IF <<key>> \in DOMAIN params THEN Some(params[<<key>>]) ELSE None

String(key) == {CStr(v) : v \in Value(key)}

-----------------------------------------------------------------------------
(* One of the three parameters of param.c, from its value and length.        *)
(* vsz < 2: the value counts as empty.  uri_store_kv gives a length without  *)
(* the NUL; a value with a NUL has at least one more character behind it.    *)
IsShort(v) == v = <<>> \/ (Len(v) = 1 /\ v[1] \in OneChar \union (Mark \ {NUL}))

(* The memory without its last character. *)
LessOne(v) ==
  IF Last(v) \in OneChar \union Mark THEN Front(v) ELSE Append(Front(v), Clipped[Last(v)])

(* Only the map's length is reduced by one when there is a name only. *)
TableName(kind, v) ==
  CStr(IF Has(v, ":") THEN Before(v, ":") ELSE IF kind = "map" THEN LessOne(v) ELSE v)

(* What lies between the first and the second colon, or behind the first. *)
ColPart(v) == IF Has(v, ":") THEN Before(After(v, ":"), ":") ELSE <<>>

HasWhere(v) == Has(v, ":") /\ Has(After(v, ":"), ":")

WherePart(v) == CStr(After(After(v, ":"), ":"))

Commas(s, i) == Cardinality({j \in 1..i : s[j] = ","})

(* Where the n-th comma is; the last column goes on to the end. *)
Cut(s, n, width) ==
  IF n = 0 THEN 0 ELSE IF n = width THEN Len(s) + 1
  ELSE CHOOSE i \in DOMAIN s : s[i] = "," /\ Commas(s, i) = n

Columns(kind, s) ==
  LET n == Width(kind)
  IN  [i \in 1..n |-> CStr(SubSeq(s, Cut(s, i - 1, n) + 1, Cut(s, i, n) - 1))]

(* Mutation: a "+" is left as it is. *)
NoPlus(s) == [i \in DOMAIN s |-> IF s[i] = "+" THEN "+" ELSE CharOf(s[i])]

(* sqlconf_uri_urldecode. *)
Decoded(s) == [i \in DOMAIN s |-> CharOf(s[i])]

(* Mutation: any third part is taken for a clause. *)
AnyClause(kind, v) == ColPart(v) # <<>> /\ Commas(ColPart(v), Len(ColPart(v))) < Width(kind) - 1

BadFormat(kind, v) ==
  \/ ColPart(v) # <<>> /\ Commas(ColPart(v), Len(ColPart(v))) < Width(kind) - 1
  \/ HasWhere(v) /\ \A w \in Where : ~IsPrefix(<<w, "=">>, WherePart(v))

Parsed(kind, v) ==
  IF IsShort(v)
  THEN [table |-> None, cols |-> None, where |-> None]
  ELSE [table |-> Some(TableName(kind, v)),
        cols |-> IF ColPart(v) = <<>> THEN None ELSE Some(Columns(kind, ColPart(v))),
        where |-> IF HasWhere(v) THEN Some(Decoded(WherePart(v))) ELSE None]

-----------------------------------------------------------------------------
(* The connection part of the URI, behind the scheme and up to the "?". *)
Authority == Tail(Before(uri, "?"))

(* uri_parse_userinfo: up to the last "@"; no colon, no user. *)
UserInfo == SubSeq(Authority, 1, FindLast(Authority, "@") - 1)
User == IF Has(UserInfo, ":") THEN Some(Before(UserInfo, ":")) ELSE None

(* Mutation: an empty password is taken for none. *)
NotEmpty == IF Has(UserInfo, ":") /\ After(UserInfo, ":") # <<>> THEN Some(After(UserInfo, ":")) ELSE None

Password == IF Has(UserInfo, ":") THEN Some(After(UserInfo, ":")) ELSE None

(* Mutation: the location begins behind the first "@". *)
FirstAt == After(Authority, "@")

Location == SubSeq(Authority, FindLast(Authority, "@") + 1, Len(Authority))

(* uri_parse_host: [host], or up to a colon that is not the first character, *)
(* or all of an absolute path, or up to a slash.                             *)
Bracketed == Location[1] = "["

HostEnd ==
  LET colon == Find(Tail(Location), ":")
  IN  IF Bracketed THEN Find(Location, "]")
      ELSE IF colon # 0 THEN colon + 1
      ELSE IF Location[1] = "/" \/ ~Has(Location, "/") THEN Len(Location) + 1
      ELSE Find(Location, "/")

Host == SubSeq(Location, IF Bracketed THEN 2 ELSE 1, HostEnd - 1)

AfterHost ==
  IF HostEnd > Len(Location) THEN None
  ELSE Some(SubSeq(Location, IF Bracketed THEN HostEnd + 1 ELSE HostEnd, Len(Location)))

Ports == {n \in Nat : 1 <= n /\ n <= 65535}

(* uri_parse_port: between the colon and a slash. *)
HasPort == \E r \in AfterHost : Has(r, ":")

(* Mutation: a path is not cut off. *)
PortAndPath == After(Or(AfterHost, <<>>), ":")

PortSpec == Before(After(Or(AfterHost, <<>>), ":"), "/")

PortNo == IF Len(PortSpec) = 1 /\ PortSpec[1] \in DOMAIN PortOf THEN PortOf[PortSpec[1]] ELSE 0

Path ==
  IF ~HasPort THEN AfterHost
  ELSE LET behind == After(Or(AfterHost, <<>>), ":")
       IN  IF Has(behind, "/") THEN Some(SubSeq(behind, Find(behind, "/"), Len(behind)))
           ELSE None

(* Mutation: the range of the port is not looked at. *)
AnyPort == Bracketed /\ ~Has(Location, "]")

BadLocation ==
  \/ Bracketed /\ ~Has(Location, "]")
  \/ HasPort /\ PortNo \notin Ports

(* The name is one character behind the beginning of the path; behind an     *)
(* empty path there is other memory.                                         *)
PathName == UNION {IF p = <<>> THEN {CStr(t) : t \in Tails} ELSE Some(Tail(p)) : p \in Path}

(* The host, the user and the password are strings of a pool that is gone    *)
(* when they are copied.                                                     *)
Copies(s) == {s} \union Freed

CopiesOf(option) == IF option = None THEN {None} ELSE {Some(x) : x \in option \union Freed}

-----------------------------------------------------------------------------
FirstStep(u) == IF ~HasScheme(u) THEN "bad" ELSE IF Query(u) = None THEN "connect" ELSE "query"

Begin(u) ==
  /\ uri' = u
  /\ rest' = Or(Query(u), <<>>)
  /\ params' = <<>>
  /\ pc' = FirstStep(u)
  /\ parses' = parses + 1

InitSettings ==
  /\ db = [host |-> <<>>, port |-> 0, user |-> None, password |-> None, database |-> None]
  /\ tabs = Defaults
  /\ base = None
  /\ driver = None

Init ==
  /\ uri \in Uris
  /\ rest = Or(Query(uri), <<>>)
  /\ params = <<>>
  /\ pc = FirstStep(uri)
  /\ InitSettings
  /\ parses = 1

(* uri_parse_params: the loop, ... *)
TakeParam ==
  /\ pc = "query" /\ Has(rest, "&")
  /\ Has(Before(rest, "&"), "=")
  /\ LET kv == Before(rest, "&") IN params' = Stored(Before(kv, "="), After(kv, "="))
  /\ rest' = After(rest, "&")
  /\ UNCHANGED <<uri, pc, settings, parses>>

BadParam ==
  /\ pc = "query" /\ Has(rest, "&")
  /\ ~Has(Before(rest, "&"), "=")
  /\ pc' = "bad"
  /\ UNCHANGED <<uri, rest, params, settings, parses>>

(* ... and the last parameter, with the length of the whole query.           *)
Whole == Query(uri) = Some(rest)

LastParam ==
  /\ pc = "query" /\ ~Has(rest, "&")
  /\ Has(rest, "=")
  /\ \E t \in Tails :
       params' = Stored(Before(rest, "="),
                        IF Whole THEN After(rest, "=") ELSE After(rest, "=") \o <<NUL>> \o t)
  /\ pc' = "connect"
  /\ UNCHANGED <<uri, rest, settings, parses>>

(* Without "=" it is found malformed, if the memory behind it has none. *)
BadLastParam ==
  /\ pc = "query" /\ ~Has(rest, "&")
  /\ ~Has(rest, "=")
  /\ pc' = "bad"
  /\ UNCHANGED <<uri, rest, params, settings, parses>>

StrayParam ==
  /\ pc = "query" /\ ~Has(rest, "&")
  /\ ~Has(rest, "=") /\ ~Whole
  /\ \E t \in Tails : params' = Stored(rest, t)
  /\ pc' = "connect"
  /\ UNCHANGED <<uri, rest, settings, parses>>

BadConnect ==
  /\ pc = "connect"
  /\ BadLocation
  /\ pc' = "bad"
  /\ UNCHANGED <<uri, rest, params, settings, parses>>

(* The parameter "tracing", which is looked up next, is in ConfFs. *)
Connect ==
  /\ pc = "connect"
  /\ ~BadLocation
  /\ \E h \in Copies(Host), u \in CopiesOf(User), w \in CopiesOf(Password) :
     \E n \in IF PathName = {} THEN {db.database} ELSE {Some(x) : x \in PathName} :
       db' = [host |-> h, port |-> IF HasPort THEN PortNo ELSE 0, user |-> u, password |-> w,
              database |-> IF String("database") = None THEN n ELSE String("database")]
  /\ pc' = "ctx"
  /\ UNCHANGED <<uri, rest, params, tabs, base, driver, parses>>

(* Mutation: what the URI does not name stays as it was. *)
Kept(kind) == tabs[kind]

(* sqlconf_parse_ctx_param, sqlconf_parse_conf_param, sqlconf_parse_map_param: *)
(* first the defaults, then what the parameter names.                          *)
Reset(kind) == Defaults[kind]

Named(kind, p) ==
  [table |-> Or(p.table, Reset(kind).table),
   cols |-> Or(p.cols, Reset(kind).cols),
   where |-> IF p.where = None THEN Reset(kind).where ELSE p.where]

TableParam(kind, next) ==
  /\ pc = kind
  /\ LET v == Or(Value(kind), <<>>) IN
       IF ~IsShort(v) /\ BadFormat(kind, v)
       THEN tabs' = [tabs EXCEPT ![kind] = Reset(kind)] /\ pc' = "bad"
       ELSE tabs' = [tabs EXCEPT ![kind] = Named(kind, Parsed(kind, v))] /\ pc' = next
  /\ UNCHANGED <<uri, rest, params, db, base, driver, parses>>

CtxParam == TableParam("ctx", "conf")
ConfParam == TableParam("conf", "map")
MapParam == TableParam("map", "base")

BaseParam ==
  /\ pc = "base"
  /\ base' = IF Value("base_id") = None THEN base ELSE String("base_id")
  /\ driver' = String("driver")
  /\ pc' = "ok"
  /\ UNCHANGED <<uri, rest, params, db, tabs, parses>>

Over == pc \in {"ok", "bad"}

(* The next URI is opened; only the settings are left of this one. *)
Again ==
  /\ Over
  /\ parses < MaxParses
  /\ \E u \in Uris : Begin(u)
  /\ driver' = None
  /\ UNCHANGED <<db, tabs, base>>

Step == \/ TakeParam \/ BadParam \/ LastParam \/ BadLastParam \/ StrayParam
        \/ BadConnect \/ Connect \/ CtxParam \/ ConfParam \/ MapParam \/ BaseParam

Next == Step \/ Again \/ (Over /\ UNCHANGED vars)

Spec == Init /\ [][Next]_vars
=============================================================================
