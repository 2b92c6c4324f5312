# mod_conf_sql: verification

`mod_conf_sql` lets ProFTPD read its configuration from three SQL tables
instead of a file. The daemon is started with a `sql://` URI for a file name;
the module registers that prefix with ProFTPD's file system layer (FSIO), reads
the tables when the "file" is opened, rebuilds the text of a configuration file
from them in memory, and hands it to the configuration parser line by line. Two
Perl scripts go with it: `conf2sql.pl` imports a configuration file into the
tables and `sql2conf.pl` prints the tables as a configuration file.

This directory holds TLA+ models of the parts with state and order in them, TLC
configurations that check them, and TLAPS proofs.

## 1. Inventory

| part | source | state | operations |
|---|---|---|---|
| database reader | `mod_conf_sql.c` 385-839 | the lines built so far; the connection kept by mod_sql; the C stack of the recursion | `sqlconf_read_db`, `sqlconf_read_ctx`, `sqlconf_read_ctx_ctxs`, `sqlconf_read_conf`, `sqlconf_close_db`, `sqlconf_dispatch` |
| FSIO callbacks, event handlers | `mod_conf_sql.c` 841-1035 | `sqlconf_conf`, `sqlconf_confi`, `sqlconf_conf_pool`, `use_tracing`, the parsed URI in four global structures | `sqlconf_fsio_open/read/close`, the stat callbacks, `sqlconf_postparse_ev`, `sqlconf_restart_ev`, `sqlconf_init` |
| URI | `mod_conf_sql.c` 102-380, `uri.c`, `param.c` | the settings `sqlconf_db`, `sqlconf_ctxs`, `sqlconf_confs`, `sqlconf_maps`, globals that outlive the URI | `sqlconf_uri_parse`, `sqlconf_param_parse_ctx/conf/map`, `sqlconf_uri_urldecode` |
| importer | `conf2sql.pl` | the tree of contexts in memory; the three tables | the loop over the lines, the statements, `process_ctx` |
| exporter | `sql2conf.pl` | the tree of contexts in memory | `get_ctx`, `get_ctx_directives`, `get_ctx_ctxs`, `show_conf` |
| schemas | `*-conf.sql` | the three tables `ftpctx`, `ftpconf`, `ftpmap` | |
| unit tests | `t/api/uri.c`, `t/api/param.c` | | what they assert of the URI parser |
| build files | `configure*`, `Makefile.in`, `t/` otherwise | | |

How they interact. The parser of ProFTPD (external) calls the FSIO callbacks;
`open` parses the URI and calls the reader; the reader calls the hooks of
`mod_sql` (external), each of which may fail; the hooks query a SQL server that
the scripts, and anyone else, write at the same time. The events
`core.postparse` and `core.restart` end a parse and begin the next one. The
importer, the exporter and the reader never talk to each other: they share the
tables only.

What is hard in each part:

* **reader**: the tables change between the queries of one read (no
  transaction); the result of the nested calls is ignored; errors before, on and
  after the open connection have different ways out; the recursion follows data;
  rows vanish between the query that named them and the query that reads them.
* **callbacks**: one array, one cursor and one set of globals behind any number
  of handles, with lifetimes tied to pools that are destroyed at the end of a
  parse while the globals live on into the next one.
* **importer**: auto-committed statements, so that dying leaves a part; look-up of
  the id of what was just inserted by its values; running again over remains.
* **URI**: lengths with and without the terminating NUL, and one that is too
  large; strings of a pool that is gone; settings of an earlier URI; optional parts.
* **exporter**: a choice among several roots that the reader does not make; ids
  held from one query to the next while an import replaces the rows.

What makes each correct: the *reader* delivers the configuration and no line in
a wrong scope, reports what goes wrong, and leaves no connection; the
*callbacks* deliver the lines of one read in order and forget them afterwards;
the *importer* leaves the file in the tables, and at every moment something the
reader can walk; the *URI parser* accepts the documented grammar and cuts each
part where it ends; the *exporter* prints what the reader would load; and all
together: what was imported is what is loaded and exported.

## 2. Modules

| module | models | |
|---|---|---|
| `ReadDb` | the database reader | one action per hook call, query, row of a loop, and return |
| `SqlSession` | what a user of mod_sql's hooks promises | the abstract specification of the reader's session |
| `ReadDbProps` | the properties of the reader | and the mapping of `ReadDb` to `SqlSession` |
| `ConfFs` | the callbacks and event handlers, with their properties | one action per callback call or event, and the mapping to `ConfigFile` |
| `ConfigFile` | what the parser of ProFTPD is promised | the abstract specification of the callbacks: one file per parse |
| `Conf2Sql` | the importer | one action per line of the file, per SQL statement, and per return |
| `Conf2SqlProps` | the properties of the importer | |
| `Sql2Conf` | the exporter | one action per query and per return, and the printing |
| `RoundTrip` | importer, exporter and reader over the same three tables | composes `Conf2Sql`, `Sql2Conf` and `ReadDb` |
| `RoundTripProps` | what comes out of the tables, for what went in | |
| `UriParams` | `sqlconf_parse_uri` with `uri.c` and `param.c` | one action per query parameter, for the location, and per table |
| `UriParamsProps` | its properties | and what a URI says, by its documented form |
| `UriTests` | the cases of the unit tests | with what they assert |
| `MCReadDb`, `MCConfFs`, `MCConf2Sql`, `MCRoundTrip`, `MCUriParams` | the instances for TLC | databases, URIs and files |
| `LastLemmas` | | lemmas on the last element of a sequence |
| `ReadDbProofs`, `ReadDbDelivered` | | theorems on the reader, the second on top of the first |
| `ConfFsProofs` | | theorems on the callbacks |
| `Conf2SqlProofs` | | theorems on the importer |
| `RoundTripProofs` | | theorems on the readers while imports go on, on top of those on the importer |
| `RoundTripDelivered` | | that what is imported comes back, on top of both |
| `UriParamsProofs` | | theorems on the URI parser and the table parameters |

Some operators carry the comment "Mutation". They are not the code: each is a
plausible mistake in the definition that follows, and a property is only kept
if it fails when that definition is replaced by its mutation.

### ReadDb

`pc` says which call `sqlconf_read_db` is at. The C recursion is the explicit
sequence `stack` of frames; `at` in a frame says which part of
`sqlconf_read_ctx` comes next, `dirs` and `kids` are what is left of the
results of its two loops, in no order as the queries have no ORDER BY. `lines`
is `sqlconf_conf`. `sql` is how far the hooks took mod_sql.

The tables are a sequence `history` of committed contents with an index `ver`;
`Commit` advances it at any moment, so a query sees the content of its own
moment and two queries of one read may see different ones. `Faults` are the
calls that may fail. Three constants stand for what the C code leaves open:
`EmptyRow`, what `data[0]` and `data[1]` of a result without rows read as;
`FreedReads`, what `sd->rnum` reads as after its pool was destroyed; `NullAs`,
whether the backend hands over a NULL column as an empty string or as a null
pointer. `MaxFrames` is the C stack. `trouble` is a history variable for the
properties: what has gone wrong so far.

Abstracted: the text of tags and directives, the names of tables and columns
(a WHERE clause is the set of rows it admits), logging, errno.

### ConfFs and ConfigFile

`files` is the parser's stack of open handles; a handle of this module has no
state in the code (`CONF_SQL_FILENO` is one constant), what is kept in it is
for the properties. `pools`, `alive` and `confPool` model the pools: each open
makes one, the end of a parse destroys only the last. `baseId` is
`sqlconf_ctxs.base_id` together with the pool its string lives in, so that a
read through it after that pool is gone may yield `Junk`. `sqlconf_read_db`
is abstract here: it fails before or after it set `sqlconf_conf`, or delivers
the present content below the base. A line is its base, the version of the
database it was read from, and its number. The parser is external and modelled
from the way the callbacks are used: it opens a file or, after an Include it has
just read, a further one; it reads to the end; it closes.

`ConfigFile` knows nothing of handles, pools and cursors: a parse takes one file,
whose lines are those of one read made during that parse, gets them one by one,
is told the end after the last of them, and the next parse takes a new one. The
mapping (`OneFile`) takes `sqlconf_conf` for the file and the lines before the
cursor for what was given; a failed read and a second open are stutters.

Abstracted: the bytes of a line (the copy of `buflen` bytes in
`sqlconf_fsio_read`), the parts of the URI other than `base_id` and `tracing`,
the stat callbacks, which have no state.

### Conf2Sql

First the loop over the lines, one action per line, into the tree `nodes` with
the stack `ctxs` of open sections. Then the statements, with `calls` for the
recursion of `process_ctx`. `Die` ends the script before any statement; `Rerun`
starts it again, on any file, with or without `--add-conf`. `newline` says
whether the last line of the file is terminated.

Abstracted: a tag is one value for its type and value, a directive one for its
name and value; comments, blank and continued lines; the dry run and the
options that name tables; the lengths of columns.

### Sql2Conf and RoundTrip

`Sql2Conf` is `get_ctx` with its two helpers as a stack `walk` of calls, each
with the query that is next; the tree it builds is kept as the lines it will be
printed as (`text`), which `Show` prints. The first row without a parent is
taken, in the order of the server, which is any; a row that is gone gives `undef`
(`Blank`), and a comparison with it finds nothing. `Shown` is how the tag of a
section is printed: the value "0" is false for Perl and left out. The lines carry
the ids that the options `--show-tags` would print.

`RoundTrip` extends `Conf2Sql` and takes `Sql2Conf` and `ReadDb` as instances over
its three tables: `AsTable` are the tables as the queries of the reader see them. A
mapping stands there for the directive it maps, as a join has one row for each
mapping, so that a directive which a section has twice is delivered twice.
One reader, the server or the exporter, runs beside the imports, every step of
the one between any two statements of the other. `quiet` and `made` are history
variables: nobody wrote since the reader's first query; the directives ever
mapped, with the tags of their sections.

`NullAs` and `EmptyRow` are constants of `RoundTrip` as well. In the run the backend
hands over NULL as an empty string, without which no server could read the row of
the server config (`strlen`, `mod_conf_sql.c:585`), and a row that an import deletes
between two queries (line 580) leaves an untagged context or crashes the server. The
instance of `ReadDb` fixes two other things: the read of a freed result (line 829)
returns what was there, and no query fails. What happens otherwise is asked of
`ReadDb` alone, in `ReadShared`.

Abstracted: the layout of the printed file.

### UriParams and UriTests

A text is a sequence of words and marks, so that `memchr` and `strchr` are
searches for a mark. `rest` is `query_string`; `params` maps keys to values as
the table of parameters does; `db`, `tabs` and `base` are the four globals, and
`Again` opens another URI on top of what the last one, accepted or not, left in
them. A value may have a `NUL` in it: the last of several parameters is taken with
the length of the whole query (`uri.c:338`), so its value is followed by its NUL
and by what the memory behind holds, one of `Tails`. A parameter that is the only
one has its own length. `Copies` stands for the strings
that are copied from a destroyed pool: they are themselves or one of `Freed`.
`PathName` may read past an empty path. A word of one character (`OneChar`) and
a word without its last character (`Clipped`) are as much of the spelling as
`param.c` depends on. `Decoded` is `sqlconf_uri_urldecode` on the escapes in
`Escapes`; "where=" is accepted in lower and upper case.

The constant `Forms` are the forms to consider (`FormsAssumption`: each is one);
in the run they are written out and are among `Uris`, with others that no form
says. Among them are the examples of the documentation (`mod_conf_sql.html:200`,
210 and 216; that of line 234 is a case of the unit tests). The one at line 221 has `ctxt=`, a key that the code ignores, so
it says nothing of that table.

`UriTests` has the cases of `t/api/uri.c` and `t/api/param.c` with what they
assert. The cases of `param.c` begin with a table of parameters and no URI, so
they are initial states of their own (`TestInit`). Two kinds are left out: those
that pass null pointers, which `mod_conf_sql.c` never does, and
"sql://castaglia.org?foo=&" (`t/api/uri.c:403`), which is accepted or rejected by
what lies behind it in memory.

Abstracted: other escapes, the parameter `tracing` (it is in `ConfFs`), errno and
logging. Memory that has an "=" before any NUL behind a last parameter is one of
two outcomes (`BadLastParam`, `StrayParam`).

## 3. Runs

| run | expected | what it asks |
|---|---|---|
| `ReadOrderly` | pass | other clients only add rows: is the configuration delivered? |
| `ReadShared` | pass | others move, delete and duplicate rows, and any call fails: is a directive ever in a wrong scope, does the recursion end, is the failure reported, is the connection closed? |
| `ReadTwoBases` | violation | "only one unique base context" |
| `FsParses` | pass | nested Includes, bad URIs, failing reads, edits, restarts: does each parse get one file? |
| `FsStaleBase` | violation | the base context is that of the URI |
| `FsInclude` | violation | an included URI delivers its own base context |
| `Import` | pass | dying anywhere, running again, with and without `--add-conf`: what do the tables hold? |
| `ImportTwins` | violation | each directive is mapped to its own section |
| `RoundTrip` | pass | does what is imported come back, from the server and from the exporter, while imports run, die and run again? |
| `UriMeant` | pass | does an accepted URI set what it says, whatever was parsed before it, and do the cases of the unit tests come out as they assert? |
| `UriAsGiven` | violation | a table has the name and the clause the URI gives it |
| `UriOverread` | violation | tables that are only named have the default columns |

### Properties

Reader: `OnlyOnce`, `Nested` and `Complete` say together that the text is the
configuration: nothing twice, everything directly inside the section it belongs
to, all that was there when the read began and nothing that is not there when it
ends. They assume an orderly database (ids unique, others only add rows, a read
from a row without a parent, no failed query), and that is what it takes: with
`--add-conf` running meanwhile they hold. `OwnScope` needs none of this: a
directive never lands in a section it is not mapped to, whatever fails and
whatever is moved or deleted, except when a section lost its tag (its row
vanished, or its key is a null pointer), and the property says so. This is
what the ignored results of the nested calls could have broken, as they leave
opening tags without closing ones. `NoReentry` bounds the recursion.
`FailuresReported` and `SessionKept` are about the ways out. `Returns` is the
liveness property.

Callbacks: `InOrder` (no gap, no repetition, no early end over all handles that
share the cursor), `Reloaded` (no line survives a restart), `LinesThere` (a
read never meets a missing array; a serving daemon holds none), `TracingOff`, and
`OneFile`, the implementation of `ConfigFile`.

Importer: `Imported` (an import that is not `--add-conf` leaves exactly the
section it walks, which is the whole file if that has all its sections closed and
its last line terminated, whatever was there before), `Connected` (the rows form
trees at every moment, so the reader's recursion is safe from it), `OneRoot` (a
reader never meets two roots), `MapsRight` (nor a directive in a section of
another tag, if all sections of the file are closed), `Grows` (`--add-conf`
changes no row), `Finishes`. `Imported` excludes files with two equal tags side
by side (`Apart`; the run `ImportTwins` shows that they are confused).

All three programs: `EndToEnd` (a server or an exporter that reads after an
import delivers the tags and directives of the file, each as often and within
the same tags, whatever earlier imports did and wherever they died; the order of
siblings is kept by no table, so a configuration is a bag), `OneConfiguration`
(from tables in any state, the server loads what is below the only root and
nothing if there are several, the exporter shows what is below one of them: they
agree exactly when there is one), `NoMixture` (while an import deletes and
inserts rows, no directive is printed within a tag it was never imported with:
ids are not given twice), `Bounded` (the recursion of both readers stays within
the depth of a file whatever the imports do meanwhile, so that the server never
gets to the end of its C stack). `Bounded` is about the depth and nothing else: a
server that reads a row which an import has just deleted may crash in these runs
(`EmptyRow`), and then has delivered nothing, which the other properties allow.

URI: `Settled` (every name, column and clause is the one the URI gives, or the
default, and nothing of an earlier URI gets in), `Accepted` (a URI of the
documented form is refused for nothing that is in it), `AllColumns` (a text without
the scheme, with some of the columns, with another third part than a clause, with a parameter that has no "=" or without a usable
server is not accepted), `Located` (host, port, user, password and path, with an
"@" in the password, addresses in brackets and absolute paths). `Settled`,
`Accepted` and `Located` compare the code with forms: a form is what someone
wants to say (`IsForm`), `Render` writes it down by the documented grammar, and
the code must read it back. `AllColumns` is about any text: `Malformed` says by
its places what is wrong with it, without a word of the parser's. A parameter
counts there only if its end can be seen, by an "&" or because it is the only
one.

`Settled` and `Accepted` make one exception each, the same (`Overread`): the last of
several parameters is that of a table, no clause ends it, and there is a colon in
the memory behind it. Two of the documentation's examples end so, and
`DefaultColumns` in section 4 shows what becomes of the first of them. In any other
memory, and for a parameter with a clause, the properties say that the memory
changes nothing. What the code makes of a name that stands alone is in `Says` and
`NamedTable`, with the character that a mapping loses; that it is not the name as
given is `AsGiven`, in section 4 too.

`UrisAsTested` and `ParamsAsTested` hold the model to what the unit tests of the
repository assert, after any other URI and with any memory behind.

### Bounds, and why they are enough

* Reader: four contexts and two directives in the orderly run, so that there are
  chains of four, siblings, siblings with sub-contexts, several roots and
  unreachable cycles, each with every placement of the directives (three
  contexts: every set of mappings); the WHERE clause excludes the fourth context.
  Two commits between three contents. In the shared run three contexts: moved
  under each other, made a cycle, deleted, doubled, with NULL keys and values,
  with any of the calls failing at any time. `MaxFrames` is 4, more than the
  depth an unmoved tree of three can reach, so an overflow comes only from
  re-entry.
* Callbacks: four opens (`MaxPools`) and three versions of the database
  (`MaxVer`), which is two nested opens in each of two parses, or three parses;
  base contexts with one and two lines.
* URI: 82 URIs, 39 of them those of forms, with the examples of the documentation,
  every kind of table parameter (a name, with columns, with a clause, with both) in
  the last place and before it, every kind of location and of malformed part at
  least once and all those of the unit tests, and all their pairs (`MaxParses`
  2), since the settings are all that one leaves to the next; the 24 parameter
  tables of the unit tests; three tails: a comma and a word, a colon and a word, and
  one with an "=", a clause and a further NUL.
* Importer: all files of up to two lines, and three longer ones (nested, nested
  with equal tags, side by side); two runs (`MaxRuns`), so every remainder of a
  first run is met by every second one.
* Round trip: two files, one with the same directive twice and a section whose
  value is "0", and one with nested sections, two imports
  (`MaxRuns`), so each import meets what the other or itself left, and a reader meets both. `MaxDepth` 3 is the depth of the deeper
  file: a reader that went further would show. A row that is gone reads as an untagged
  context or crashes the server.

### Deadlock and fairness

Deadlock is checked in every run; the models that end stutter in their final
states explicitly. `ReadDb` and `Conf2Sql` are sequential programs, so
`WF_vars(Step)` says only that the program goes on running: every step is a
statement that returns. It excludes the environment's actions: nobody is obliged
to commit, and nothing is obliged to fail. `ConfFs` has no liveness property
and no fairness: the parser is not obliged to do anything. `UriParams` has none
either: each step takes a part of a finite URI, and deadlock is checked. In
`RoundTrip` nobody is obliged to go on, as its question is what may come out;
that no walk descends for ever is `Bounded`.

## 4. Disagreements between the code and what is said of it

* `OneBase` (`mod_conf_sql.c:803`): two root rows are not an error, as the test
  says `&&` where it needs `||`; the result is an empty configuration.
* `OwnBase` (`mod_conf_sql.c:364`): `base_id` is never reset, and outlives the
  memory it is in.
* `Included` (`mod_conf_sql.c:899`): a second URI in one parse is not read.
* `OwnDirectives` (`conf2sql.pl:300`): equal sections are confused.
* `AsGiven` (`param.c:341`, `param.c:297`): the name of a mapping table without
  columns loses its last character unless the parameter is the last of several, and
  a clause is put into the queries with its "where=".
* `DefaultColumns` (`uri.c:338`): a URI that names its tables only, and ends with
  one of the names, as the first example of the documentation
  (`mod_conf_sql.html:200`), is read on into the memory behind it. A colon there is
  taken for the one before the columns: TLC prints a run in which the example is
  refused with "missing column names" (`param.c:372`), and there are others in which
  it is accepted with a clause it does not have.

Without a run of their own:

* `--add-conf` still inserts a default row without a parent (`conf2sql.pl:188`),
  after which the module loads nothing, though the help (`conf2sql.pl:338`) says "to
  retain existing information when importing additional configurations". The rows
  are retained (`Grows`); what a server makes of two roots, `OneConfiguration` says.
* `conf2sql.pl:88` ends its loop at a last line that has no newline (`chomp` returns
  0). `More` models it, and `Imported` says what is in the tables then: for a file
  that ends in the closing tag of a section, that section alone.
* `sql2conf.pl:204` drops the value "0" of a section (`Shown` in `Sql2Conf`), so that
  such a section does not come back as it was.
* The comment at `conf2sql.pl:135` calls a closing tag in the default context a syntax
  error; the code dies only if the tag has another type, and passes over
  `</default>` (line 148), as `Closed` does.

## 5. Proofs

The runs above check small instances; the theorems hold for every value of the
constants that satisfies the modules' assumptions (`ReadDbAssumption`: which
sets the ids, rows and faults are from; `ConfFsAssumption` and
`Conf2SqlAssumption` likewise).

The reader (`ReadDbProofs`, then `ReadDbDelivered`):

* `TypeCorrect`: `TypeOK` is inductive as it stands.
* `ResultReported`: `FailuresReported` is not inductive: it says nothing until
  the routine has returned. `Reporting` says what `res` and `trouble` are at each
  place of `pc`.
* `SessionImplemented`: every step is a step of `SqlSession` or leaves its
  variables unchanged, given `InStep`, which ties `pc` to the state of the
  session. It is the safety part of `SessionKept`; the fairness part is with TLC.
* `NeverReentered`: the invariant is a chain: each frame's context, while the
  rows keep their parents, has the context of the frame below for a parent, and
  the first frame has none; two equal contexts would give a row of the first
  frame a parent. `DepthBounded` draws the consequence for any finite set of
  contexts by cardinality.
* `AlwaysInScope`: `OwnScope` looks only at lines and is not inductive. `Placed`
  adds where the last line stands: while a frame is pushing directives, the last
  line is its own opening tag or a directive of it, or the frame is the
  outermost and nothing but its directives has been pushed.
* `NeverTwice`: the code keeps no record of where it was, so `OnlyOnce` rests on
  the rows alone. `Once` says that what the frames still have to do was not done
  yet (`Fresh`), and that every tag and directive seen came from a visited
  context below the base (`Grown`): a context entered twice would have two
  parents, or a parent that is below it.
* `AlwaysNested`: `Nesting` adds that the tags no line has closed yet are, from
  the outermost to the innermost, those of the frames that have read their row
  (`Aligned`); then what is pushed is directly inside the innermost of them.
* `AlwaysComplete`: `Owed` says that where a context is closed everything below
  it that was in the tables before the first query is delivered, and that what a
  frame lacks is in the results it holds or is being done by the frame above it;
  `Within` that all frames and directives are below the root in the last tables.
  That what is delivered is everything follows as the delivered contexts are
  closed under "sub-context of". The theorem assumes that the freed result of the
  root query still reads as it was (`FreedReads`); the walk of line 829 is chosen
  by that value, and nothing could be said otherwise.

The callbacks (`ConfFsProofs`): one invariant `IInv` (`TypeOK`, the four
properties and what ties pools, handles and cursor together) gives
`TypeCorrect`, `DeliveredInOrder`, `NothingStale`, `AlwaysLines` and
`TracingEnds`. `LinesThere` needs that the pool of the last open is alive
whenever there are lines, which is why the postparse handler, which looks at the
pool only, can be relied on to forget them. `Implements` is the refinement of
`ConfigFile`: the initial states map to its initial state, and under `IInv` every
step maps to a step of it or to a stutter, for any number of URIs, handles,
failed reads, restarts and edits.

The importer (`Conf2SqlProofs`), for all files and any number of runs that die
anywhere:

* `ScriptTypeCorrect` needs `Typed`: the numbers in the tree and on the stack
  are those of contexts, and a call that waits for an id still has the directive
  or the section the id is for.
* `AlwaysConnected` (`Trees`): each row has an id of its own, and the context
  that a call processes has its row, which therefore is older than the rows of
  its sub-contexts.
* `AlwaysOneRoot` (`Rooted`): what the roots are at each stage of a run: those
  of before until the first DELETE, then none, then one.
* `AlwaysGrows`, a property of steps.
* `AlwaysMapsRight` (`Mapped`, with `Deletes`): each call works on the row of a
  section with the tag of its own, though the look-up by values may have found
  the row of another, and ids are never given twice.

`AlwaysImported` is about a run that deletes what was there
and ends. Two invariants carry it. `Tree`: the contexts of the file are a tree
that lists each of them once; all that were read after the innermost open one can
be reached from it, which is said with sets that are closed under "sub-context
of" and so needs no induction. `Walk`: the contexts that have an id
(`Places`), the rows that are in the table (`Rows`, with one more while a call
waits for the id of the row it inserted), what each call has still to do as the
rest of its context's lists (`Calls`), and that a context whose call has returned
is complete with all below it (`Completed`). When the last call returns, the set
of complete contexts is closed and holds the first, so it is all of them.

The readers among the imports (`RoundTripProofs`): `ReadersBounded`, for all files,
any number of imports that die anywhere, and every order of their statements and
the queries of a reader. That a context is entered once is not enough here, as the
rows a reader walks are deleted and inserted while it walks them. What bounds it
is a depth `d` of every id ever given (`Deep`): a row is one deeper than its parent
(`RowDepths`), and each of the three recursions, `calls` of the importer, `walk` of
the exporter and `stack` of the server, is as deep as the row it is at, with what
it will enter one deeper (`CallDepths`, `WalkDepths`, `FrameDepths`). An id is
given once, so that this stays true of an id whose row is gone. An insertion
extends `d` and stays within `MaxDepth` because a call of `process_ctx` is never
deeper than the section of the file it works on (`CallHeights`), and a section is
never deeper than the lines of the file allow (`Depth`). What the server has still
to enter is an id with a depth, so there is a frame for it (`FrameRoom`), also if its
row has gone; what becomes of the server then the theorem leaves open, as `EmptyRow`
and `NullAs` do. `RoundTripAssumption` says
what `MaxDepth` is: no stretch of a file opens as many sections more than it closes
(`Shallow`), which is a file whose own depth the server's C stack has room for.
It says so of all stretches, not only of those from the beginning, since the
default context stays open at a closing tag of its own type (`Closed`).

`NeverMixed`, under the same freedom of the imports. An id keeps what it names:
`Remembered` has a label for every context id ever given and a directive for every
directive id, and whatever rows there are agree with them, so that an id that a
call of `get_ctx` holds names the same row or none (`WalkNamed`). The lines alone do
not say which call they are from, so `Printed` ties the two together: the tags open
behind the text are those of the calls that have read their row, in their order
(`Around`). Then a directive that a call prints is the last of those tags' or stands
in a blank one, and `AllFit` is inductive. `OpenTags` is a recursive function over the
lines; the proofs use only that it goes on from the line before (`OpenTagsIs`), and
that a continued text keeps the tags of its lines (`OpenTagsMore`).

`LoadsOne` is about a reader whose tables stand still from its first query on
(`quiet`), whatever they hold. `Owes` is one invariant for the two recursions, which
are both seen as calls with a place and a set of sub-contexts still to enter (`View`
for the frames of the server): every context that was left is paid, which is that
each directive row of it is delivered, and its sub-contexts were left as well
(`Finished`); each call that is past its directives is paid, and each of its
sub-contexts was left, or is in its set, or is that of the next call (`CallOwes`);
nothing is delivered that is not below the root. When the outermost call has
returned, the contexts left are closed under "sub-context of" and hold the root, so
that all that is below it is delivered (`NothingOwed`); no induction over the tree is
needed. The server differs in that it pushes the directives of a frame one by
one (`Pushing`), and in what it does without a single root (`Fetched`); the exporter in
that it takes any of several roots, and asks for the context `undef` if there is none
(`Collected`).

`ComesBack` (`RoundTripDelivered`) is `EndToEnd`, the one theorem about all three
programs: for all files, any number of imports and either reader. It equates the
bags that two texts mean, and neither text is a function of the other, since the
order of siblings is lost in between. So both are compared with a third thing, the
tale of the tables (`AllTold`): a unit for each row below the root and for each
mapping to one, with the tag or the directive and the tags that lead to it
(`Paths`). `Spells` says that the lines of a text, closing tags apart, are matched
one for one with the units and say the same; two texts that spell one tale have one
meaning (`SameMeaning`). Three invariants carry the proof:

* `ExportTold` and `ServerTold`, while the tables stand still: the text so far spells
  the tale of the units whose queries were answered, and the tags open behind it are
  those of the place where the walk stands (`Tells`). That each unit is told once
  rests on `Visit`: what a call has still to enter was not met before, neither among
  the contexts that were left nor among the open calls, and a context is only met
  after its parent asked for what is below it (`Ordered`); a row has one parent, so
  no second call finds it. The server pushes the mappings of a context one by one, so its
  tale has those it has `Pushed`.
* `FileParsed`: the lines the importer has read spell the tree in its memory, each
  context with the tags around it (`FilePaths`), which for the open ones are the tags
  open behind the last line (`OpenPath`).
* `Walk` of the importer, as at the end of a run it gives `FromFile`: the rows are
  one for one with the contexts of the tree, with the same parents and tags, and the
  mappings of a row with the directives of its context. The bijection carries the
  tale of the tree to the tale of the tables (`FileMatches`, `SameTold`).

That all of the tables is below the root is again a closed set (`FileBelow`), and
that the readers get all of it is the end of `Visit` (`VisitEnded`).

The URI parser (`UriParamsProofs`), for all words, all URIs one after the other,
all memory behind them and in the place of a string that is gone:

* `UriTypeCorrect` (`Typed`: who did not find a URI bad has seen its scheme).
* `AlwaysLocated`, `AlwaysSettled`, `AlwaysAccepted`. The grammar is turned into
  lemmas: a form is written as parts grouped to the right, and each part is free
  of the mark that ends the part before it (`CutAtFirst`, `CutAtLast`), so every
  search of the code ends where the form has that mark. `FormInv` follows the
  reading: the parameters before the one at hand are taken (`Reading`), or all of
  them are, the last one perhaps with what is behind it (`Taken`), and once
  connected the server is that of the form (`Server`). `SettledInv` adds that a
  form is not refused, and that each table the code is past is what the form says of
  it, `Overread` excepted. A parameter in the last place is read as what was written
  with a rest behind it (`ValueOf`, `IsRest`: nothing, or a NUL and any text), so the
  lemmas on tables are about a written table and such a rest: the name (`NameTaken`),
  the clause (`ClauseRead`) and the columns end where they did without it, or hold it
  behind their NUL. Columns are a chain of pieces between commas (`Chain`); a rest
  with commas makes the chain longer and leaves its first pieces as they were
  (`LongerChain`), which is by the number of commas before each place.
* `AlwaysAllColumns` is about texts that no form says. A piece of a text is known
  by its places in it (`Window`), and the pieces that a search cuts it into are
  known by the place it finds (`WindowCut`). `ColumnsInv`: every parameter whose
  end can be seen and that was read has its value in the table of parameters
  unless a later one has its key (`Placed`); past the location it is a good one,
  past a table its value is a good one. `ServerRefused`, `SomeColumnsBad` and
  `NoClauseBad` say that what `Malformed` excludes is none.

They assume `UriParamsAssumption` (the words the code knows are words and no marks;
behind a scheme there is a host) and `FormsAssumption`. The run `UriMeant` also
starts from the unit tests' tables of parameters (`TestedSpec`); the theorems are
about `Spec`, which starts from URIs.

Only model-checked: `UrisAsTested` and `ParamsAsTested`, which are finite lists of
examples, and the liveness properties `Returns` and `Finishes` with the fairness part of `SessionKept`
(liveness and ENABLED are outside the prover).

## 6. Not modelled

* The stat callbacks (no state); `sqlconf_cmd_alloc` other than as part of a call.
* The bytes of a line: `sqlconf_fsio_read` copies `buflen` bytes whatever the
  length of the line, and cuts a longer one. What the parser makes of the buffer
  is not in this repository.
* Null pointers for the arguments of `uri.c` and `param.c`, which only the unit
  tests pass; `stubs.c` and `tests.c`, which set up the suite; the integration
  tests, which run a whole daemon.
* The options of the scripts that name a server, tables or a layout, and the dry
  run.
* `pr_str_is_boolean`, `pr_trace_*`, the SQL backends: external.
* Two imports at the same time; the order the server returns rows in is any
  order, so nothing is said of it.

## 7. Plan

Done: the reader, its session, and proofs of all its safety properties; the
callbacks with the abstract file they implement, proved; the importer, proved;
the exporter, and the round trip through the tables, proved; the URI parser, held to the documentation and to the unit tests,
proved for all texts.

Left: `ConfSql`, which is `ConfFs` with the steps of `ReadDb` for its abstract read,
so that edits come between the queries of an open. `ConfigFile` would stay the
specification, with `Complete` for what its `Readable` may deliver.
