------------------------------- MODULE ConfFs -------------------------------
(***************************************************************************)
(* The file system callbacks and event handlers of mod_conf_sql: how the   *)
(* lines that sqlconf_read_db builds reach ProFTPD's configuration parser, *)
(* from the registration of "sql://" to the end of the parse, and again    *)
(* after every restart of the daemon.                                      *)
(*                                                                         *)
(* sqlconf_read_db is abstract here (module ReadDb has its steps): it      *)
(* fails before or after it has set sqlconf_conf, or it delivers the       *)
(* present content below the base context that sqlconf_ctxs.base_id names. *)
(* The parser is external: it opens a URI, reads until the end of file,    *)
(* and closes it, opening the URIs of Include directives on the way.       *)
(***************************************************************************)
EXTENDS Naturals, Sequences

CONSTANTS
  Base,      \* the context ids a URI may name in base_id
  NoBase,    \* no base_id: a NULL pointer
  Junk,      \* what a freed base_id may read as
  Uris,      \* the URIs the parser opens
  Size,      \* the number of lines below a base context
  Results,   \* how sqlconf_read_db may end
  MaxPools,  \* bound: the calls of sqlconf_fsio_open
  MaxVer     \* bound: the changes of the database

(* A URI as sqlconf_parse_uri sees it; "connect" and "tables" are the URIs   *)
(* it rejects in its first half and after its first half.                    *)
Uri == [base : Base \union {NoBase}, tracing : BOOLEAN,
        parse : {"ok", "connect", "tables"}]

NoPool == 0

(* A line is named by its base context, the version of the database it was   *)
(* read from, and its number.                                                *)
LineOf == [base : Base \union {NoBase, Junk}, ver : Nat, no : Nat]

ASSUME ConfFsAssumption ==
  /\ NoBase \notin Base \union {Junk}
  /\ Junk \notin Base
  /\ Uris \subseteq Uri
  /\ Size \in [Base \union {NoBase, Junk} -> Nat]
  /\ Results \subseteq {"ok", "early", "late"}
  /\ MaxPools \in Nat
  /\ MaxVer \in Nat

VARIABLES
  phase,      \* of the daemon: "parsing" its configuration or "serving"
  registered, \* "sql://" is registered with the FSIO layer
  pools,      \* the sub-pools of conf_sql_pool made so far
  alive,      \* those not destroyed
  confPool,   \* sqlconf_conf_pool
  built,      \* sqlconf_conf is not NULL
  conf,       \* its lines
  confi,      \* sqlconf_confi
  baseId,     \* sqlconf_ctxs.base_id, with the pool the string is in
  tracing,    \* use_tracing
  traceOn,    \* the trace levels are set and go to stderr
  files,      \* the parser's open handles, the innermost last
  ver,        \* the version of the database content
  since,      \* history: the version when this parse began
  given,      \* history: the lines delivered in this parse
  source      \* history: the URI of the open that built sqlconf_conf

vars == <<phase, registered, pools, alive, confPool, built, conf, confi, baseId,
          tracing, traceOn, files, ver, since, given, source>>

parser == <<phase, registered, ver, since>>
lineVars == <<built, conf, confi, given, source>>

-----------------------------------------------------------------------------
(* The lines that sqlconf_read_db collects below base b at version v. *)
Content(b, v) == [i \in 1..Size[b] |-> [base |-> b, ver |-> v, no |-> i]]

(* What the read of the base_id pointer may yield while the pools live. *)
BaseSeen(id, live) == IF id.pool \in live \union {NoPool} THEN {id.val} ELSE {id.val, Junk}

(* sqlconf_parse_uri sets base_id when the URI has one, in the new pool. *)
ParsedBase(uri, pool) ==
  IF uri.parse = "ok" /\ uri.base # NoBase THEN [val |-> uri.base, pool |-> pool] ELSE baseId

Traces(uri) == uri.parse # "connect" /\ uri.tracing

Init ==
  /\ phase = "parsing"
  /\ registered \in BOOLEAN
  /\ pools = 0 /\ alive = {} /\ confPool = NoPool
  /\ built = FALSE /\ conf = <<>> /\ confi = 0
  /\ baseId = [val |-> NoBase, pool |-> NoPool]
  /\ tracing = FALSE /\ traceOn = FALSE
  /\ files = <<>>
  /\ ver = 1 /\ since = 1
  /\ given = <<>>
  /\ source = [base |-> NoBase, tracing |-> FALSE, parse |-> "ok"]

-----------------------------------------------------------------------------
(* The parser opens its first files, and then the URI of an Include          *)
(* directive it has just read.                                               *)
Top == files[Len(files)]

MayOpen == files # <<>> => Top.got # <<>> /\ ~Top.eof

(* sqlconf_fsio_open: a new pool replaces the previous one, which stays      *)
(* alive; the URI is parsed into it, into the globals of the module.         *)

StartOpen(uri) ==
  /\ phase = "parsing" /\ registered
  /\ MayOpen
  /\ pools < MaxPools
  /\ pools' = pools + 1
  /\ alive' = alive \union {pools + 1}
  /\ confPool' = pools + 1
  /\ baseId' = ParsedBase(uri, pools + 1)
  /\ tracing' = (tracing \/ Traces(uri))
  /\ traceOn' = (traceOn \/ Traces(uri))

Handle(uri) == [uri |-> uri, got |-> <<>>, eof |-> FALSE]

(* The URI is malformed. *)
RejectUri(uri) ==
  /\ StartOpen(uri)
  /\ uri.parse # "ok"
  /\ UNCHANGED <<parser, lineVars, files>>

(* Lines are there already: nothing is read. *)
OpenAgain(uri) ==
  /\ StartOpen(uri)
  /\ uri.parse = "ok"
  /\ built
  /\ files' = Append(files, Handle(uri))
  /\ UNCHANGED <<parser, lineVars>>

(* The database is read; sqlconf_confi is left as it is. *)
OpenFirst(uri) ==
  /\ StartOpen(uri)
  /\ uri.parse = "ok"
  /\ ~built
  /\ \E result \in Results :
       /\ files' = IF result = "ok" THEN Append(files, Handle(uri)) ELSE files
       /\ IF result = "early"
          THEN UNCHANGED <<built, conf, source>>
          ELSE /\ built' = TRUE
               /\ source' = uri
               /\ \E b \in BaseSeen(baseId', alive') : conf' = Content(b, ver)
  /\ UNCHANGED <<parser, confi, given>>

(* sqlconf_fsio_read on the parser's innermost handle. *)

ReadLine ==
  /\ files # <<>> /\ ~Top.eof
  /\ confi < Len(conf)
  /\ confi' = confi + 1
  /\ given' = Append(given, conf[confi + 1])
  /\ files' = [files EXCEPT ![Len(files)].got = Append(@, conf[confi + 1])]
  /\ UNCHANGED <<parser, pools, alive, confPool, built, conf, source, baseId, tracing, traceOn>>

(* Mutation: a handle ends at the end of its own lines. *)
EndsAlone ==
  /\ files # <<>> /\ ~Top.eof
  /\ confi >= Len(conf) \/ Len(Top.got) >= Size[Top.uri.base]
  /\ files' = [files EXCEPT ![Len(files)].eof = TRUE]
  /\ UNCHANGED <<parser, pools, alive, confPool, lineVars, baseId, tracing, traceOn>>

ReadEof ==
  /\ files # <<>> /\ ~Top.eof
  /\ confi >= Len(conf)
  /\ files' = [files EXCEPT ![Len(files)].eof = TRUE]
  /\ UNCHANGED <<parser, pools, alive, confPool, lineVars, baseId, tracing, traceOn>>

(* The parser closes a handle at its end; sqlconf_fsio_close has no effect. *)
Close ==
  /\ files # <<>> /\ Top.eof
  /\ files' = SubSeq(files, 1, Len(files) - 1)
  /\ UNCHANGED <<parser, pools, alive, confPool, lineVars, baseId, tracing, traceOn>>

(* sqlconf_postparse_ev: unregister, end the tracing, forget the lines.  An  *)
(* error of either call on the FSIO layer is logged and left at that.        *)

(* Mutation: the levels stay set. *)
FlagReset == tracing' = FALSE /\ UNCHANGED traceOn

TraceReset ==
  IF tracing THEN tracing' = FALSE /\ traceOn' = FALSE ELSE UNCHANGED <<tracing, traceOn>>

(* Mutations: the lines survive the end of the parse; the cursor does; the   *)
(* pointer to the destroyed pool does.                                       *)
KeepLines == UNCHANGED <<alive, confPool, built, conf, confi>>

ForgetAllButCursor ==
  /\ alive' = alive \ {confPool} /\ confPool' = NoPool
  /\ built' = FALSE /\ conf' = <<>> /\ UNCHANGED confi

ForgetAllButPool ==
  /\ alive' = alive \ {confPool} /\ UNCHANGED confPool
  /\ built' = FALSE /\ conf' = <<>> /\ confi' = 0

Forget ==
  IF confPool = NoPool
  THEN UNCHANGED <<alive, confPool, built, conf, confi>>
  ELSE /\ alive' = alive \ {confPool}
       /\ confPool' = NoPool
       /\ built' = FALSE /\ conf' = <<>> /\ confi' = 0

Postparse ==
  /\ phase = "parsing" /\ files = <<>>
  /\ phase' = "serving"
  /\ registered' \in {FALSE, registered}
  /\ TraceReset
  /\ Forget
  /\ given' = <<>>
  /\ UNCHANGED <<pools, source, baseId, files, ver, since>>

(* sqlconf_restart_ev, and the parse that follows it. *)
Restart ==
  /\ phase = "serving"
  /\ phase' = "parsing"
  /\ registered' \in {TRUE, registered}
  /\ since' = ver
  /\ UNCHANGED <<pools, alive, confPool, lineVars, baseId, tracing, traceOn, files, ver>>

(* Someone edits the configuration in the database. *)
Edit ==
  /\ ver < MaxVer
  /\ ver' = ver + 1
  /\ UNCHANGED <<phase, registered, pools, alive, confPool, lineVars, baseId,
                 tracing, traceOn, files, since>>

Open == \E uri \in Uris : RejectUri(uri) \/ OpenAgain(uri) \/ OpenFirst(uri)

Next == Open \/ ReadLine \/ ReadEof \/ Close \/ Postparse \/ Restart \/ Edit

Spec == Init /\ [][Next]_vars

-----------------------------------------------------------------------------
FileType == [uri : Uri, got : Seq(LineOf), eof : BOOLEAN]

(* Every variable holds what the code may put there. *)
TypeOK ==
  /\ phase \in {"parsing", "serving"}
  /\ registered \in BOOLEAN
  /\ pools \in Nat
  /\ alive \subseteq 1..pools
  /\ confPool \in alive \union {NoPool}
  /\ built \in BOOLEAN
  /\ conf \in Seq(LineOf)
  /\ confi \in Nat
  /\ baseId \in [val : Base \union {NoBase}, pool : 0..pools]
  /\ tracing \in BOOLEAN /\ traceOn \in BOOLEAN
  /\ files \in Seq(FileType)
  /\ ver \in Nat /\ since \in Nat
  /\ given \in Seq(LineOf)
  /\ source \in Uri

(* The parser is given the lines of one read of the database, from the      *)
(* first and without a gap or a repetition, however many handles share the  *)
(* cursor, and no handle ends before the last of them is delivered.         *)
InOrder ==
  /\ confi <= Len(conf)
  /\ given = SubSeq(conf, 1, confi)
  /\ \A i \in DOMAIN files : files[i].eof => given = conf

(* A reload sees the database as it is at or after the restart: no line of  *)
(* an earlier parse survives it.                                            *)
Reloaded == \A i \in DOMAIN conf : phase = "parsing" /\ since <= conf[i].ver

(* While a handle is open there are lines to read from, so sqlconf_fsio_read *)
(* never answers ENOENT; when the daemon serves, there are none.             *)
LinesThere == (files # <<>> => built) /\ (built => phase = "parsing" /\ confPool \in alive)

(* Tracing that a URI asked for, valid or not, is off when the parse ends. *)
TracingOff == phase = "serving" => ~tracing /\ ~traceOn

(* However many URIs, handles and pools a parse uses, and whatever fails or  *)
(* is edited meanwhile, the parser gets one file per parse.                  *)
ReadableAt(v) == {Content(b, v) : b \in Base \union {NoBase, Junk}}

Promised == INSTANCE ConfigFile WITH
  Readable <- ReadableAt,
  serving <- phase = "serving",
  taken <- built,
  file <- conf,
  atEnd <- \E i \in DOMAIN files : files[i].eof

OneFile == Promised!Spec

-----------------------------------------------------------------------------
(* mod_conf_sql.c:767: "If we've been given a base context, look for the ID *)
(* of the context with that name, otherwise, look for the context whose ID  *)
(* is NULL."  The lines are those of the base context of the URI that was   *)
(* opened.                                                                  *)
OwnBase == \A i \in DOMAIN conf : conf[i].base = source.base

(* mod_conf_sql.html:237-239, of an Include with base_id=7: "This tells     *)
(* mod_conf_sql to look for a row in the ftpctx table whose ID is 7, and    *)
(* then to recurse through the contents".  What a handle delivered when it  *)
(* has ended are the lines of its own base context.                         *)
Included ==
  \A i \in DOMAIN files : files[i].eof =>
    /\ Len(files[i].got) = Size[files[i].uri.base]
    /\ \A j \in DOMAIN files[i].got : files[i].got[j].base = files[i].uri.base
=============================================================================
