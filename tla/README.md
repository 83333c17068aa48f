# TLA+ verification of dbtalk

`dbtalk` is a Python command-line tool that moves data between SQLite, MySQL
and PostgreSQL (JSONL export and import), wraps the native MySQL and
PostgreSQL dump and restore clients, manages accounts, roles, grants and
schemas, and ships scripts for batch backups, installation and versioning.
This directory holds TLA+ models of its stateful parts, TLC configurations
that check them on small instances, and proofs that TLAPS checks.

Source paths below are relative to the repository's `src/dbtalk/` unless they
begin with `scripts/` or `docs/`.

- [Inventory](#inventory): the parts of the program
- [Modules](#modules): how each model corresponds to the code
- [Runs](#runs): what TLC checks, on what instances, and why these suffice
- [Proofs](#proofs): what TLAPS proves, along which argument
- [Observations](#observations): what the models show of the code and its documentation
- [Not modelled](#not-modelled), and the [plan](#plan)

## Inventory

| Component | State it keeps | Operations | What is hard | What makes it correct |
| --- | --- | --- | --- | --- |
| Table selection and order (`database/schema.py`) | none; a work list during one call | include/exclude selection, foreign-key closure, parent-before-child order | import demands the very order it would compute itself | parents first; a cycle reported exactly when there is one; closed subsets keep their order |
| JSONL import (`database/sqlalchemy_transfer.py`, `format.py`, `schema.py`, `transfer.py`) | target tables, one transaction per table, position in the file | preflight scan, replay, insert, upsert, verification | the file is read twice; errors after earlier tables are committed; retry; other sessions | whole tables only, in order; retry converges; foreign keys never broken by the order |
| JSONL export (`sqlalchemy_transfer.py`, `format.py`) | temporary file, published file, source snapshot | prepare, write tables, publish, clean up | fixed temporary name, shared by overlapping runs, crash, no snapshot outside MySQL | a published file is one complete export; a failed export leaves the old file; overlapping exports do no harm beyond each other |
| JSONL values (`format.py`, `database/mysql.py`) | none | encode, validate, decode, type families | conversions at three places must agree; servers round digits and shift zones | what export writes, the import preflight accepts, and nothing changes its meaning |
| DB client (`connection.py`, `operations.py`) | session settings, transaction, deadline | query, exec | restoring session settings on every path, timeout races | sessions left as found; no write in read-only mode, as long as the text leaves the transaction |
| MySQL dump (`mysql/dump.py`) | temporary and published artifacts | dump, compress, publish | same-second runs, failure between link and unlink | an automatic name never overwrites an artifact; success names a complete artifact |
| MySQL restore (`mysql/restore.py`) | rebased temporary copy, lexical state | unpack, scan SQL lifecycle statements, rebase USE, restore | lexical state across chunks and lines | text inside strings and comments is never taken for a statement (a `USE` line there is rewritten: the pattern knows no strings); a dump that creates or drops a database is rejected |
| MySQL client (`mysql/client.py`) | child process, three pipes, feeder and reader threads | run with streamed input, run with progress | pipes are bounded; the child may exit early; errors in threads | no deadlock; success means the whole input was fed |
| PostgreSQL dump and restore (`postgres/dump.py`, `restore.py`, `client.py`) | temporary archive, container copies, pgpass file | dump, list, restore | container copies and credentials must be cleaned on all paths | no residue after a run that was not killed |
| MySQL accounts and grants (`mysql/user.py`, `permissions.py`) | accounts and privileges on the server | create, enable, disable, rotate, drop, grant, revoke | every statement commits by itself; profiles overlap | what a profile promises after grant and revoke |
| PostgreSQL roles and grants (`postgres/role.py`, `permissions.py`) | roles and privileges | the same | the same | the same |
| Schema lifecycle (`mysql/database.py`, `postgres/database.py`) | databases on the server | create, drop, list | drop guards | PostgreSQL: the connected database is never dropped; MySQL: no such guard |
| Batch backup (`scripts/backup_db.py`) | batch directory, artifacts, manifest | fresh run, resume | two runs in one second, name collisions, resume after failure | every manifest entry names a backup of its own target |
| Version tool (`scripts/version_calc.py`) | three project files | calculate, apply with rollback | failure or kill between writes | all three files agree, before or after |
| Installer (`scripts/install.py`) | plugin state of three clients, skill directories | plan, execute, verify, replace with rollback | plan is stale when executed; kill between renames | a failed replace leaves the old skill |
| CLI, settings, DSN, logging | none that outlives a call | parse, validate, dispatch | little | rejected before any connection |

Within one process the components interact by calls. With each other's runs
they share

- the file system: an export publishes the file an import reads twice, a dump
  publishes the file a restore reads and a batch reuses, and two runs of one
  command may choose the same name;
- the database servers: other sessions commit between the statements of an
  import or of an export, and a lost connection rolls a transaction back or
  hides the answer to a commit;
- child processes behind pipes: the native clients, and the `dbtalk` processes
  a batch starts.

The list of what can go wrong, each item at its source line with the
properties that would catch it, is `hazards` in `PROJECT.json`.

## Modules

| Module | Models | Used by |
| --- | --- | --- |
| `ForeignKeyOrder` | the operators of `database/schema.py` on names and foreign keys | `TableOrder`, `JsonlImport` |
| `TableOrder` | the ready loop of `order_table_names` | |
| `TableContents` | a keyed table and rows written over it | `WholeTableImport`, `JsonlImport` |
| `WholeTableImport` | abstract: an import writes whole tables, in order | refined by `JsonlImport` |
| `JsonlImport` | `import_sqlalchemy` and both readers of the format | |
| `ConcurrentUpsert` | the statements of one upserted block beside other sessions | |
| `JsonlValues` | one value through export, file, import and an export of the target | |
| `AtomicArtifacts` | abstract: names under which whole artifacts appear at once | refined by `JsonlExport`, `DumpPublish`, `PostgresArchive` |
| `JsonlExport` | `export_sqlalchemy` and the writer of the format | |
| `DumpPublish` | `dump_database` of MySQL: names, temporary files, publication | |
| `MySqlLexer` | external: how MySQL reads the text of a dump | `SqlLifecycleScanner` |
| `SqlLifecycleScanner` | the scanner of `mysql/restore.py`, symbol by symbol | `LifecycleScan` |
| `LifecycleScan` | a text as the scanner and MySQL read it side by side | `MysqlRestore` |
| `StreamedInput` | the threads and pipes of a native client that is fed a file | `MysqlRestore` |
| `MysqlRestore` | `restore_database` of MySQL, from the gzip file to the clean-up | |
| `PostgresArchive` | `dump` and `restore` of PostgreSQL over the same files | |
| `Sessions` | the sessions of one `DatabaseClient` on its pool | |
| `MysqlAccounts`, `PostgresRoles` | the statements each command sends, and what its profile promises | `Administration` |
| `Administration` | administrators' commands at one server | |
| `BackupBatch` | `run_backups`: batch directories, resumption, manifests | |
| `InstallRun` | what every run of `scripts/install.py` has | `PluginSync`, `SkillPublish` |
| `PluginSync`, `SkillPublish` | `manage_plugin` and `manage_skill` | `Installer` |
| `Installer` | overlapping runs of `main` | |

`MC<module>` gives a module's constants values for TLC; `<module>_proofs`
holds its theorems and those about the modules it is proved together with (see
[Proofs](#proofs)). Such modules are extended together, so that `TableOrder`,
`ConcurrentUpsert`, `JsonlValues` and `Installer` give their specifications names of their
own (`OrderSpec`, `UpsertSpec`, `WaySpec`, `InstallSpec`). `Scripts_proofs` is about batch
backup and the installer. A definition whose comment begins with "Mutant:" is a plausible
bug in the definition after it; no specification uses it. It is there to show that the
property it is paired with in `PROJECT.json` is one the code could violate.

### TableOrder

A table name is a number, its rank among the sorted names, so that Python's
`sorted` is `<=`. `remaining`, `ready` and `ordered` are the local variables of
`order_table_names`; `ready` is a set since the code keeps the list sorted and
takes its first element (`Least`). `RejectExternal` is
`validate_selected_foreign_keys`, `PlaceNext` one turn of the loop with
`_release_children`, `Finish` the length test that tells an order from a cycle.
`IsCanonicalOrder` says without a loop which sequence is returned: at every
position stands the least name whose parents all come earlier.

### JsonlImport, TableContents, WholeTableImport

`stage` is where the importer is: *scan* (`scan_document`, the selection, the
schema checks and the order), *open* (the second `open` of the file), *replay*
(between blocks), *table* (inside `with connection.begin()`) and *verify*. The
locals of `import_sqlalchemy` are `plan` (`ordered_names`), `expected`
(`expected_index`), `block` and `row` (the position of the stream) and
`pending` (the open table as its transaction sees it). Every early return is
an action `Reject...`, named for the check; `RefuseRow` is the database
refusing a row (NULL key, duplicate key, foreign key), `DatabaseFails` any
statement failing or the process dying, and `LoseCommitAnswer` a commit that
took effect although the run reports a failure. `ReplaceFile` is another
process renaming a new document to the input path: a reader that has the old
one open keeps it, which is why `scanned` and `replay` are variables of their
own.

A document is a sequence of blocks. The `header` of a block *fits* the target's
table, declares the *other* columns as primary key, or has an *unknown column*;
`whole` says that every record can be read and the end record counts them. A
block that fits may leave columns out (`Omitted`; the database then gives a new
row the `Default` and an existing one what it has). Two values cannot be written:
`NullKey` (a NULL in a key column, which the scan refuses for upsert only) and
`BadValue` (well formed, but refused by the decoder of the target column). A row's
value doubles as its foreign key: it must be a key in every parent table.
`base` and `origin` are history.

The headers are compared with the target in the first pass only. If the file is
replaced in between, the second pass writes a block by its own header: `Found` are
the rows that the lookup by *its* primary key finds, and `WriteRow` updates those,
which may move a row to another key, unless the row is referred to (`Uprooting`).
`DoneIsComplete` and the refinement therefore promise the rows of a block that fits;
whether it did is decided for an unreplaced file by the preflight.

`WholeTableImport` is what an import promises to other sessions: an agenda of
tables, each written as a whole or not at all, in order. The refinement maps
`agenda` to the tables of the plan that are not committed yet, with their
rows in the replayed document and whether their block `fits`; of one that does
not, only its own table may change.

### ConcurrentUpsert

`JsonlImport` has an importer alone. `ConcurrentUpsert` opens one upserted
block up into its statements, a SELECT and then an INSERT or UPDATE per row,
with commits of other sessions in between. What a statement sees depends on the
dialect's default isolation: PostgreSQL what is committed when it starts, MySQL
a snapshot for SELECT and the current state for writes, SQLite the current
state until its own first write locks the database. Rows the transaction wrote
are locked; a waiting session commits later or not at all, so waiting is not a
state here.

### JsonlExport, AtomicArtifacts

Names and files are kept apart: `temporary` and `published` map the two names
of an output to files, `data` maps files to records. A run's fixed temporary
name (`output + ".tmp"`) may exist already; opening it truncates the file,
renaming moves whatever lies there, and the handler of the writer unlinks
whatever lies there. A record is its author and the state of the source it
shows; on MySQL all of them show the snapshot (`Snapshot` is the set of runs
with such a source), elsewhere each table is read when it is reached.

Nothing keeps two runs to one output apart: `Open` truncates the file that the
other has open, both write at their own positions (a `Gap` is what lies between),
and either renames it. Two auxiliary variables note where that has happened:
`overlapped` are the runs whose writer was open beside another's to the same
output, `disturbed` the outputs whose present file such a run published. No step
reads them. `PublishesItsOwn` is about the other runs, and the refinement shows
`Damaged` for a disturbed output, until a run that wrote alone replaces its file.

`FailOutsideWriter` is an error before the writer is open or after the rename:
the latter reports a failure although the file is published. KeyboardInterrupt
is not an `Exception`, so the handler does not see it; `Kill` covers it.

`AtomicArtifacts` promises a reader of an output directory that a name holds
nothing or one whole artifact, and only changes at once to another.

### DumpPublish

`NameTaken`/`NameFree` are the turns of `_next_available_output`, `Replace`,
`Link`, `LinkRefused` and `Unlink` the branches of `publish_dump`. `held` is
what is left of a run's temporary files: the SQL dump, the archive, and the
copy in a container. `Remove` is the code's `finally` clauses, each of which
suppresses a failure; `stuck` remembers which removals failed. Names are those
of one database and one second, with up to two numbers: the first is given by
`_next_available_output`, the second by `publish_dump`. The native client is
external: when it reports success its file is taken to be whole.

### JsonlValues

A value is what Python has in its place: its class (`is`) and what it denotes as far as
the conversions tell values apart (`says`); a moment has its wall clock in hours, its
offset and its digits besides. A zone is any function from instants to offsets, so
clocks may be put forward and back. `ExportOf` is `_normalize_mysql_zero_date` and
`encode_value`, `Valid` the check that the writer and both passes share, `Decode` is
`decode_value`, `Compatible` is `compatible_types`. `Fits` and `GivenBack` are what the
drivers return for a column, the one external part. A PostgreSQL column without a
precision of its own rounds digits beyond the sixth (`Rounded`), and a column that keeps
instants (`aware`: TIMESTAMPTZ, MySQL's TIMESTAMP) takes the text, which has no offset,
for a clock reading in the zone of the server's `session` (`TakenFor`) and gives it back
so (`At`). `TakenForAnother` are the targets at which that is another instant. `origin`
is the column's value with the options of the export, `line` what the file has of it,
`place` how far the value has come. `OffsetAt` is what `zoneinfo` takes for a clock
reading without an offset (fold 0, and the offset before a gap).

### MysqlRestore, LifecycleScan, SqlLifecycleScanner, MySqlLexer, StreamedInput

The text is never held. Scanner and MySQL's lexer read the same endless stream
of symbols in step, so that every text of any length is checked: a symbol is
what the two tell apart (a word that matters, another word, a letter beyond
ASCII, the version behind `/*!`, a quote, the start and end of a comment, a line
end). `Difference` names the places where the two read differently; from the first
of them on `alike` is false and the lexer is dropped, so that the properties speak of
a text up to there. A text with such a place is scanned, rewritten and streamed
like any other.

`Matched` is the pattern of a `USE` line, taken symbol by symbol beside the scanner;
`ReplaceLine` rewrites a line that matches as a whole, wherever it is, and no other.
`Unpack` and `OpenText` have the errors of the file and those of the temporaries:
`unpack_gzip_input` wraps all of the restore, so that an OSError that
`rebase_dump_input` lets pass is reported as one of the gzip file
(`EndByOSError`). `ReplaceInput` is another process that puts a new file at the path
(`edition`).

When the text is through, `rebase_dump_input` has a rebased copy or the file
itself to give, the target is verified by a client of its own, and
`StreamedInput` runs as an instance inside `MysqlRestore`: `main`, `feeder` and
`reader` are the four threads of `_run_with_streamed_input`, `stdin` and `piped`
count the chunks in the pipes. A write to a full pipe and a read from an
empty one wait; `PipeBroken` is the write after the client has gone. The
client is external: it reads, answers with up to `MaxOutput` chunks on either
stream, fails, or quits with either return code at any moment. `files` are the
temporaries that exist, `kept` those whose removal failed.

### PostgresArchive

Each run has its place: the client in the database's own container (its copy
is `remote`), on this machine (with a password file), or in an image. `Begin...`,
`ClientEnds`/`ClientFails`, `Copy`, `Publish` are the steps of a dump, `List` and
`Restore` the two openings of the archive. A user's file may be `whole`, `cut`
(its table of contents is there, and `pg_restore --list` reads no more) or
`damaged`, and may be replaced between the two. `Clean` and `RemoveRemote` are
the `finally` clauses; an error of a removal that is not an `OSError` turns a
success into a failure there.

### Sessions

A caller has one session: `CheckOut` takes a connection of the pool,
`BeginReadOnly` and `ConfigureTimeout` prepare it, `Answer` or `Interrupt` ends
the statement, `ClearTimeout`, `ClearReadOnly`, `Commit` or `Leave`, and
`CheckIn` are the way out, each step with its failure (`faulted` remembers the
connections where one happened). `conns` is what outlives a session: for SQLite
`query_only`, the progress handler and the busy timeout, for MySQL the limit
of the session, for both servers the transaction. The text of a session reads,
writes, or is *compound*: it ends the transaction it was put into
(`EndTransaction`), after which it runs *outside* of it (`WriteOutside` commits by
itself) and without the deadline that PostgreSQL keeps in the transaction.
The asynchronous client has
sessions without preparation only, and is covered as such.

### Administration, MysqlAccounts, PostgresRoles

A server (`host`) has accounts, locks, databases, tables and privileges
(`facts`). `MysqlStatements` and `PostgresStatements` translate a command into the
statements that the code sends, in order; `Accepts` and `After` are the server,
external. `Begin` is the parser's and the command's checks, `Check` the question
who the session is, `Send` one statement, which commits by itself, `Lose` a broken
connection with the statement under way carried out or not. `before`,
`alone` and `exposed` are history: the server as the command found it, whether
another administrator came in between, and whether somebody may have locked
himself out.

### Installer, InstallRun, PluginSync, SkillPublish

A run is `main` with a command line: `SelectTargets` asks which clients there
are, `PlanClient` asks each for what it has and plans for all before `Change` sends the
first command, `Verify` asks again. `ChangeFails` is a command that fails or
times out, with its effect or without. `SkillPublish` is
`replace_skill_leaf` step by step: copy to a staging directory, look, move the old
one away, rename the new one to its place, undo, and remove what is left; every
file operation may fail and the process may be killed between any two. The
clients themselves are external. Where a plugin comes from is *ours*, an *other*
checkout, or *unsaid*: a Codex marketplace record without a root is accepted by
`Plannable`, a Grok plugin without a source is refused. `left` are the directories that ended runs
have left behind. The repository sets no `STANDALONE_SKILL_NAME`, so the
skill half is code that a configured copy of the script runs.

### BackupBatch

A run is the loop of `run_backups` over the configuration: `Skip` a disabled
target, `Reuse` a backup found by its plain name, `Plan` a destination
(`output_path`), `Dumped`/`DumpFailed` for the child process, then the manifest,
which `write_text` first empties (`OpenManifest`) and then fills. `files` maps
the names in a directory to the target whose dump lies there, `manifests` the
manifest names to what was written. That a dump appears at once is
`DumpPublish`'s promise and is assumed here. `Name` gives each target its plain
name and its numbered ones; they are values of one set `File`, so that the first
number of `app` may be the plain name of a database `app-01`. What the runs
promise of a file is `Backup`: it lies under a name its target may take, holds a
dump of a target that may take that name too, and in a directory that one run
has used (`UsedOnce`) of that very target. The child of a killed batch lives
on: `Orphan` publishes its file at any later time.

## Runs

TLC checks every property below on every reachable state of the instance; the
largest runs take about a minute and a half. Each property has a mutant of
the code that violates it.

| Run | Instance | Distinct states | Shows |
| --- | --- | --- | --- |
| `table_order` | all 65,536 foreign-key graphs over 4 tables, all of them and 3 of them selected | 404,800 | `ReturnsCanonicalOrder`, `CycleReportedExactly`, `SubsetKeepsOrder` (a partial import finds its tables in the order it computes for them alone) |
| `imports` | 3 tables in a chain with a self reference, documents with every kind of defect (another primary key, an unknown column, columns left out), two runs, one replacement | 253,484 | `DoneIsComplete`, `PreflightIsThorough` (checks of the second pass fire only for a replaced file), `ForeignKeysSatisfiedByOrder`, `RetryConverges`, `ImplementsWholeTables` |
| `values` | 3 dialects, 9 type families, 3 zones, one with a gap and a repeated hour; targets that round and columns that keep instants, with a server session in any zone | 486,746 | `WrittenIsAccepted`, `InstantIsKept`, `MeaningIsKept`, `ReexportIsTheSame` |
| `upsert_beside` | blocks of up to 3 rows over 2 keys, 3 commits of others, 3 isolation levels | 14,995 | `WrittenUnlessDeleted` |
| `exports` | 3 runs that may overlap, 2 with a snapshot and 1 without, 2 outputs, 1 table, 1 commit to the source | 3,608,140 | `ImplementsAtomicArtifacts`, `PublishesItsOwn` |
| `dumps` | 3 runs, automatic names or either of two explicit ones, in containers | 532,133 | `SuccessNamesItsOwnDump`, `NoResidue`, `ImplementsAtomicArtifacts` |
| `mysql_restores` | every text over all symbols, gzip or plain, 3 places of the client, one replacement of the file, 2 chunks through pipes of 1 | 1,704,919 | `LifecycleStatementsAreFound`, `ServerGetsCheckedText`, `ReportIsTrue`, `NoTemporariesLeft`, `RestoreEnds` |
| `postgres_archives` | 2 dumps to one default name, 1 restore of it or of a user's file | 2,557,690 | `ReportsAreTrue`, `NoResidue`, `ImplementsAtomicArtifacts` |
| `sessions` | 2 callers with any two kinds of session, texts that end their transaction included, 2 connections, 1 fault, 3 dialects | 1,303,088 | `ReadOnlyNeverWrites`, `ReportIsTrue`, `SettingsAreOwn`, `LimitedSessionsEnd` |
| `accounts` | 2 administrators, 1 application account, 2 databases, 1 table, 2 commands | 1,368,718 | `SuccessHolds`, `FailedChangeCanBeRepeated`, `AnAdministratorRemains` |
| `backups` | 2 runs, fresh or resumed, overlapping; 4 targets: two of one name, one of the name that is their first number, one disabled | 1,187,637 | `ReportsAreTrue`, `NothingIsReplaced` |
| `installer` | 2 runs, plugin or skill, 1 fault, commands that change and that look | 729,641 | `OutcomesAreTrue`, `NothingIsLost`, `ResidueIsExplained`, `ApplyConverges` |

Properties named `...Holds`, `Report(s)...True`, `SettingsAreOwn` and `NothingIsLost`
are conjunctions of named parts, each stated with a comment of its own in the
module; the type invariant is one of the parts, so that it is checked where it is not
proved.

### Bounds

- `MaxAttempts` 2, `MaxReplaced` 1 (import): a failure and a retry, possibly in the
  other mode. One replacement is all that one run can notice: it opens the file
  twice, and what lay there in between it never sees.
- Keys and values (2 each): a key written twice, one written once and one
  written by nobody are all possible in one table.
- Tables: order and prefix need a parent, a child and a grandchild; the graphs
  of `table_order` have room for a cycle beside an ordered part.
- `MaxCommits` (export) 1: a run before and a run after the change. One table per
  document in the run: header, table, rows and end record are enough for two writers
  to mix their records in one file. Documents of several tables, each seen at its own time
  or all in one snapshot, are covered by the theorems, which hold for any `Tables`.
- Three runs (export, dump): one that left something behind, one that is
  working and one that comes between.
- `MaxSequence` 2 (dump): the automatic runs of the instance need at most two
  numbers, so the bound is not felt before all runs have a name.
- `Chunks` 2, `MaxOutput` 2, `Capacity` 1 (restore): input and output do not fit
  into the pipes, which is when threads wait for each other. The text itself has
  no bound: lexer, scanner and the pattern of a `USE` line have finitely many states, and
  the `Alphabet` is all symbols.
- `MaxEdition` 1 (restore): the file is read at most twice.
- Values: 13 hours hold a gap and a repeated hour and both ends of the calendar;
  digits 0, 3 and 7 lie below, between and above the precisions 0 and 6, and 7 is
  what PostgreSQL rounds.
- Sessions: two callers share or do not share a connection; one fault leaves one
  setting behind, which the other caller then meets.
- Accounts: two commands, of one administrator or of two, are the least in which one
  undoes, repeats or overtakes another. One table may come to be meanwhile.
- PostgreSQL: two dumps race for one name, and a restore reads it; the user's
  file is outside of their names.
- Installer: one run may overtake another or be repeated after one fault; runs of
  the skill work at one client, since clients are handled one after the other
  and share nothing.
- `MaxOther` 3 (upsert): delete, insert again and update between two statements.
- `MaxNumber` (batch) 3: the plain name and three numbers are the names that two runs
  with two targets of one name can need; of directories and manifests they need
  fewer.

Runs, and the outputs of exports, are interchangeable values of symmetric
constants where no liveness is checked (`Interchangeable`); of the exports only
those with a snapshot are interchangeable.

### Deadlock and fairness

Most runs of commands end, so their configurations say
`CHECK_DEADLOCK FALSE`: a state with no step left is all commands ended and the
bounds used up. `table_order`, `sessions` and `accounts` keep the check: their
specifications have a step for the end (`Done`, or the loop's own), so that TLC
would report a session or a command that can neither go on nor end. That a run gets
to its end is a property where it matters, under the fairness the code's
scheduling gives:

- `MysqlRestore`: weak fairness of the restore's own steps and of each thread
  and of the client's reading, answering and completing, since the operating
  system schedules them. Input is finite, so the scan may not go on reading
  for ever: `EndOfText` is one of the fair steps of the text. A client that
  neither reads nor ends would hang the call, and the code sets no
  timeout: `RestoreEnds` is about the threads and pipes, not about such a
  client. That it quits early is possible and never promised.
- `Sessions`: weak fairness of the client's own steps, of the clock and of the
  stop that an expired deadline asks for. The database need not answer at all.
  `LimitedSessionsEnd` excepts PostgreSQL's texts that end their transaction, since
  the deadline ends with it.
- `Installer`: weak fairness of each run's next step and of its repetition: a
  client's command has a timeout, and `ApplyConverges` is about a user who
  repeats an apply until it ends well.

The other specifications claim safety alone and state no fairness.

## Proofs

TLAPS checks the theorems for every value of the constants that satisfies the
named assumptions. The assumptions say what kind of thing a constant is (a
set of numbers, a marker outside a set, commands as the parser lets them through); no
theorem has a hypothesis besides. Each group proves an inductive invariant
and draws from it the properties that the runs check; TLC has checked every one of these
invariants on the instance of its module's run before.

| Module | Proves about | Inductive invariants |
| --- | --- | --- |
| `JsonlImport_proofs` | `ForeignKeyOrder`, `TableOrder`, `JsonlImport` | `LoopInvariant`, `ImportInvariant`, `PlanInvariant` |
| `JsonlExport_proofs` | `JsonlExport`, `JsonlValues` | `ExportInvariant`, `WayInvariant` |
| `DumpPublish_proofs` | `DumpPublish` | `TypeInvariant`, `PublicationInvariant` |
| `MysqlRestore_proofs` | `MysqlRestore`, `LifecycleScan`, `SqlLifecycleScanner`, `MySqlLexer`, `StreamedInput` | `StreamInvariant`, `ScanInvariant`, `RestoreInvariant` |
| `PostgresArchive_proofs` | `PostgresArchive` | `ArchiveInvariant` |
| `Sessions_proofs` | `Sessions`, `ConcurrentUpsert` | `SessionsInvariant`, `UpsertInvariant` |
| `Scripts_proofs` | `BackupBatch`, `Installer`, `InstallRun`, `PluginSync`, `SkillPublish` | `BatchInvariant`, `InstallInvariant` |
| `Administration_proofs` | `Administration`, `MysqlAccounts`, `PostgresRoles` | `AdministrationInvariant`, `RepetitionInvariant` |

**Table order**. `LoopInvariant`: in the loop, `remaining[t]` is exactly the selected
parents of `t` that are not placed, and `ready` exactly the tables that are not blocked;
the prefix is least-first; no table is placed twice. It is needed because `ParentsFirst`
alone says nothing about the two work lists that the next step relies on. From it follow
`OrderTypeCorrect`, `ParentsAlwaysFirst`, `OrderIsCanonical` and `CycleReportIsExact`: the
unplaced tables of a short result are a set in which each waits for another, and in an
order a first placed table of such a set would have a parent that comes later.
`SubsetOrderIsKept` rests on `SubsetOfCanonical`: among a subset closed under parents, the
unblocked tables are those unblocked among all that belong to the subset, so the least of
all is the least of these.

**Import**. `ImportInvariant` says what each stage knows: which tables are committed, that
the plan has no repetition, that the open block is the first with its name and the next
of the plan, and that `pending` is the store with the first `row` rows over it. The one
step that carries the weight is `CommitTable`: the committed tables become those of a plan
one longer, where the rows are those of the file if the block fits. From it: `TypeCorrect`,
`OnlyWholeTables` (`CommittedPrefix`) and `ImplementsWholeTableImport` (each step is a step
of the abstract import or a stutter). `PlanInvariant` connects the two passes: a plan is one
that the preflight made of the scanned document, and while the second pass reads the
same file, the tables of the plan written so far are those whose blocks are behind it.
The second pass does not look at the headers again, so it is `PlanFits` that says that
every block it writes of the same file fits; `SuccessIsComplete` (`DoneIsComplete`) and
`RetryIsSafe` (`RetryConverges`) rest on it. The latter adds that rows written over themselves
change nothing (`OverlayAgain`). From `PlanInvariant` follow besides `PreflightMissesNothing`
(`PreflightIsThorough`) and `OrderIsNeverTheReason` (`ForeignKeysSatisfiedByOrder`).

**Export**, whatever runs overlap. `ExportInvariant` has four parts beside the types:
two runs that have the writer open for one output are both overlapped (`WritersApart`);
a file never leaves the output of the run that created it (`FilesAtHome`), so that what
happens at one output does not reach another; a run that writes alone has its file to
itself and a beginning of its own document in it (`WritesItsOwn`); and nobody has the
file open that lies under an undisturbed output (`PublishedIsClosed`), which is why no
step but a rename changes it. `BeginningGrows` and `FullIsWhole` are about what a file
holds. From it `OutputsStayWhole`, `RunsPublishTheirOwn` and `ImplementsArtifacts` follow;
`disturbed` is the only exception, and a run that writes alone ends it.

**Values**, for any calendar, zones, offsets and precisions. `WayInvariant` says that the
file holds `ExportOf` of the column's value and the target `Decode` of what the file
holds; the rest is lemmas about these operators: what is written of a moment is its
instant (`WrittenInstant`), what is stored of it shows that instant in the target's zone
(`StoredInstant`), each conversion keeps the meaning (`ReadMeaning`, `JsonMeaning`,
`EncodeMeaning`, `DecodeMeaning`), and an instant that the clocks show once is found
again. What the server makes of a moment is in `MomentGivenBack`: it comes back the same
unless PostgreSQL has rounded it or the column is one of `TakenForAnother`.
From them `WayTypeCorrect`, `InstantKept`, `MeaningKept`, `WrittenAccepted` and
`ReexportSame`.

**MySQL dump**, with no hypothesis. `TypeInvariant` adds to the types that a run sets out
with at most one number in its name, so that a second fits, and that an explicit run
keeps its name. `PublicationInvariant` says that a publishing run has its file whole and
of the kind its names promise, and that the author of a file under a name has published.
From these follow `TypeCorrect`, `AutomaticNeverOverwrites`, `EndedRunsLeaveNothing`,
`ImplementsArtifacts` and `SuccessIsNamedTruly`, for any number of runs that race, fail
and are killed.

**MySQL restore**, for pipes and inputs of any size and texts of any length.
`StreamInvariant` counts what has been written, read and is in the pipes, and says what
each thread may still do; `RestoreInvariant` adds what the stages know: what the scan has
shown, which text the client is given, which temporaries exist, and that an error blamed
on the gzip file comes before any client. From them `NothingIsLeft` (`NoTemporariesLeft`)
and `ReportTrue` (`ReportIsTrue`). `ScanInvariant` pairs the states of the two readers up
to the first `Difference` of the text (`ReadAlike`): that a symbol keeps them alike is
`SymbolKeepsAlike`, a case distinction over states and symbols with lemmas for running
text and for the version of an executable comment. It gives `ScannerFindsLifecycle`
(`LifecycleStatementsAreFound`) and `OnlyCheckedTextIsRun` (`ServerGetsCheckedText`).

**PostgreSQL dump and restore**, for any number of runs over any names. `ArchiveInvariant`
has a part for what each run knows of its error, its temporary file and its removals, one
for dumps, one for restores, and one for names: what lies under a name is the whole archive
of a dump that has published it there. From it `EndedRunsLeaveNothing`, `ReportsTrue` and
`ImplementsArtifacts`.

**Sessions**, for any callers, connections and faults. `SessionsInvariant` says of a
connection that nobody holds that it is clean (`IsClean`), and of a held one whose rows,
mode and deadline are on it at each point of the session (`OwnRows`, `OwnMode`,
`OwnDeadline`). `SessionsApart` is the lemma that carries the proof: a step of one
session keeps all that is said of the others, since no connection has two holders. A
text that ends its transaction leaves the session without rows of its own, and what is
said of its mode and deadline ends there. From it `QueriesNeverWrite`,
`CallersAreToldTheTruth` and `SettingsStayApart`, which includes the types.

**Upsert beside other sessions**, with no hypothesis. `UpsertInvariant` relates what a
SELECT has seen to what is there: a row that was found and is gone was deleted
by another session (`FoundIsGoneOnlyIfDeleted`, which for a snapshot needs
`SeenIsGoneOnlyIfDeleted`), and of the rows behind, the last of each key is written
(`RowsAreWritten`). From it `UpsertTypeCorrect`, `AloneWithoutCollision` and
`BlocksAreWritten` (`WrittenUnlessDeleted`).

**Batch backup**, for any configuration and any number of overlapping runs.
`BatchInvariant` says of a run that its results are those of the targets before its position
(`Lists`) and name files that are there (`Holds`), and, in a directory that one run has for
itself, that its next destination is free; and of the disk that every manifest that was
written to its end lists all enabled targets, and that a file lies under a name its
target may take. A file found under a name may still be another target's, whose number
it is, which is what `Backup` says of it. From
it `BatchReportsTrue` (`ReportsAreTrue`) and `NoBackupIsReplaced` (`NothingIsReplaced`).

**Installer**, for any runs, command lines, setups of the clients and numbers of
failures. `InstallInvariant` has a part for the course of each run (`CourseOf`: each
client is selected once, and those not reached have no outcome yet), one for plugins
(`PlanAt`: a plan fits what the client had when it was asked, at Codex a marketplace
that is not known to be of another source; `PluginStays`, `MarketsOffer`) and one for
skills: which of the staging directory and the backup exist at each stage (`BesideOf`),
and where the skill is now (`SkillNow`): a run that nobody disturbs has it in its place
or in the backup. `SkillStays` says that, while no run is told to remove the skill, a
whole directory lies where no run is about to delete it (`KeptSafe`). The invariant is
needed because `NothingIsLost` alone also counts the backup that a run is tidying away
in the next step, and so is not inductive. `ElsewhereKeeps` is the lemma that carries
what is said of the other runs over a step. From it `OutcomesAreAlwaysTrue`
(`OutcomesAreTrue`, with the types), `NothingIsEverLost` (`NothingIsLost`) and
`ResidueIsAlwaysExplained` (`ResidueIsExplained`).

**Accounts**, for any accounts, databases, tables and commands. A profile is up to five
statements that commit one by one, so that "success means all of it" (`SuccessHolds`) is not
inductive: `SoFar` says what a session that nobody disturbs has reached, the privileges of
the statements it has sent (`Sent`), where GRANT ON ALL TABLES may have counted any set of
tables between those at the start and those of now. `Onward` carries that over a
statement; it needs that only one statement of a profile counts tables (`TablesOnce`),
else two of them could count different ones. `PromiseIsGiven` says that all statements
together give exactly what the profile promises. `Unexposed` is the part for
`SomebodyCanConnect` (`AnAdministratorRemains`): a session that works alone belongs to an
account that is open and that its command neither disables nor drops.

`RepetitionInvariant` says of every session, also one that was broken off, that it has done
nothing to the server or at least its first statement and some of the others (`ReachedBy`).
`RunAll` is a recursive function over the statements; `OneRunOnly` shows that its equation
has one solution, by the least position at which two would differ, so that `RunOfChange` can
give the solution in closed form: once the first statement of a grant or a revocation is
accepted, so are all others (`LaterIsAccepted`). What was given or taken already is given
or taken again without effect (`ChangeMayBeRepeated`), and of the commands of one
statement each is refused the second time or changes nothing (`OneMayBeRepeated`). From these
`FailedChangesCanBeRepeated` (`FailedChangeCanBeRepeated`).

Only model-checked: the liveness properties (`RestoreEnds`, `LimitedSessionsEnd`,
`ApplyConverges`), which are beyond the prover.

## Observations

No run expects a violation: the properties above hold, and some of them name an
exception. The exceptions, and what else modelling brought up, are worth a
maintainer's look.

Import and export:

- A value that its target column cannot take is found when its row is reached,
  after earlier tables are committed; `docs/database.md:144` says that such values
  fail before the write. The model has it as `BadValue`.
- A row deleted by another session between SELECT and UPDATE is neither updated
  nor inserted and is counted as written (`docs/database.md:140`):
  `WrittenUnlessDeleted` excepts it.
- The checks of the target are not repeated in the second pass
  (`sqlalchemy_transfer.py:133-149`). If the file is replaced between the passes by one
  with the same tables and another primary key, rows are looked up and updated by that
  key, and the import reports success: `DoneIsComplete` and `ImplementsWholeTables`
  promise only that other tables are safe from it.
- Exports to one output share the name `output + ".tmp"` (`database/format.py:81`); one can
  publish the file that the other has just truncated or is still writing, and report
  success. The damaged file stays until the next export that has the name for itself.
  The properties except runs and outputs to which this has happened (`overlapped`,
  `disturbed`).
- PostgreSQL rounds digits beyond the sixth where the column has no precision of its own
  (`sqlalchemy_transfer.py:342`), and a TIMESTAMPTZ or a MySQL TIMESTAMP takes the text, which has no
  offset, in the zone of the server's session, which is not the `--tz` of the import
  (`format.py:406` has them in one family with the others). What is stored may then be
  another moment than the one the driver was given; `ReexportIsTheSame` excepts both.
- A Decimal is refused by a BOOLEAN column (`format.py:700`) although
  `compatible_types` lets the two types pass; `astimezone` raises OverflowError at the
  ends of the calendar, which nobody converts (`format.py:366`; the stage `crashed`); the
  hour that clocks show twice does not come back as what it was
  (`ReexportIsTheSame`).

Dump and restore:

- Scanner and MySQL read some places differently (`Difference`): a comment that ends right
  where it opened, a carriage return alone in a line comment (`restore.py:68`), a backslash
  in a quoted identifier, a letter beyond ASCII next to a word, a comment inside an
  executable comment, a word that goes on across the end of an executable comment, the
  version behind `/*!` (`restore.py:154-179`) if a word follows it at once, if it stands
  between the two words of a statement or if it is later than the server's, and SCHEMA, the
  other name of DATABASE. Nothing is claimed of a text after such a place.
- Only lines that consist of a `USE` statement are rewritten (`restore.py:36-38`, `383`):
  `USE other; ...` on one line, or a USE without its semicolon, goes to the server as it is, although
  `docs/mysql.md:99` speaks of USE statements in general; and such a line is rewritten also
  where it is part of a string or a comment.
- `unpack_gzip_input` wraps the whole restore (`mysql/client.py:58-65`), so that errors of
  the temporaries are reported as an unreadable gzip file: no space while unpacking,
  `mkstemp` of the rebased copy (`restore.py:359`), its removal when it is not needed.
- An interrupt during the scan leaves the rebased copy behind: only `OSError` and the
  command's own error are handled there (`restore.py:394-398`).
- `docs/mysql.md:99` has the target looked for before the scan; the code does it after.
- The `zlib.error` of a corrupted gzip file is not converted to the command's own error.
- A default PostgreSQL dump name is not reserved: of two dumps in one second
  the later rename wins after the earlier one has reported success.
- `pg_restore --list` reads the table of contents only, so an archive that is cut off
  passes the validation and fails in the restore.
- An error of `container rm` other than OSError discards a finished PostgreSQL dump.
- `docs/codex.md:27` says images are not pulled; the restore in an image pulls
  (`docs/postgres.md:43` says so).

Sessions:

- MySQL's `max_execution_time` is set for the session and never reset, so later
  sessions of `connect` and `transaction` run under it (`NothingIsInherited`, a part of
  `SettingsAreOwn`, excepts it);
  SQLite's progress handler stays when setting the busy timeout fails.
- A query is read-only by its transaction (`connection.py:307-310`, `docs/database.md:60`), and its
  text may end that: PostgreSQL takes several statements sent as one, MySQL a procedure that
  commits. What comes after is written, and on PostgreSQL runs without the deadline. The
  properties except such texts (`Compound`).

Accounts:

- Revoking the migrator profile of MySQL is two statements; if the connection breaks after
  the first and the account has no other privilege on the database, the repetition is
  refused at the first statement and the global CREATE stays (`StuckRevocation`). Sending
  the two in the other order would cure it.
- `CURRENT_USER()` is compared with the case of the argument while MySQL folds the case
  of hosts; and `rotate_user_password` has no guard of the current account, unlike what
  `docs/mysql.md:146` says of the commands together.
- Two administrators may disable each other at once: each guard is right when it is asked.
- `docs/mysql.md:135` says that the host `%` is rejected; `_validate_host` accepts it.

Batch and installer:

- A numbered file name may be the plain name of another target: the first number of a
  database `app` is `app-01` (`scripts/backup_db.py:336-381`). A resumed batch takes whatever
  lies under the plain name for the backup of the target, which may be a dump of a target
  with the same name or with such a number; so may a batch that shares the directory
  replace it. `ReportsAreTrue` promises a dump of the target itself only for a directory that
  one run has used, or where no other target may take the name (`Backup`).
- A run that another one overtakes in replacing a skill leaves its backup directory, and
  one that replaces a regular file crashes on removing its backup (`ResidueIsExplained`).
- Only Codex is asked where its marketplace comes from (`scripts/install.py:545`): at the
  other clients a plugin of the same name from another checkout counts as installed. A
  Codex marketplace whose record has no root is accepted too (`scripts/install.py:549`), so that
  an apply may report success with a plugin of another checkout; `OutcomesAreTrue` claims
  the origin only where the client says it.

## Not modelled

Left out of the modelled components, on purpose:

- tables without a primary key (import by insert only), SQLite's NULL in an
  integer primary key (filled in by the database), engines without
  transactions, and changes of the target schema during an import;
- an explicit dump output named `*.sql.gz` without `--archive`: the command
  publishes plain SQL under it, so the suffix of an explicit name says what the
  file is only for users who pass matching options, as the model's do; and
  dumps of different databases or seconds, whose names never meet;
- `_run_with_output_progress`, one waiter thread with no interaction of its own,
  an interrupt of the main thread during the scan or while input is streamed, and an
  exception other than OSError in the feeder thread;
- a PostgreSQL server that is gone (only MySQL connections get socket timeouts,
  `connection.py:363`), the implicit commits of MySQL's DDL, and settings that a text
  changes itself;
- values of text and numbers beyond the few that the conversions tell apart;
- passwords and listings of accounts, MySQL's wildcards in database names, and the
  privileges that MySQL keeps for a dropped database;
- a configuration that changes between the runs of a batch.

Components not modelled at all:

- the version tool (`scripts/version_calc.py`): one process that writes three files with a
  roll-back. It shares no state with the others; a kill between the writes
  leaves the files apart, as its hazard says, and nothing in the code would notice;
- the DSN password generator, CLI, settings, DSN and logging: they keep no state, and
  what they reject before any operation is in the guards of the operations;
- documentation, plugin manifests, workflows and tests: read for what they say of the code.

## Plan

All components with state of their own but the version tool are modelled. What is worth
doing next, should the code change or the project grow:

1. `VersionApply`: the three writes of the version tool with roll-back and kills.
2. An export with a temporary name of its own per run, for which `overlapped` and
   `disturbed` and the exceptions of the properties of `JsonlExport` would go.
