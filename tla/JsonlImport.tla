---------------------------- MODULE JsonlImport ----------------------------
(***************************************************************************)
(* import_sqlalchemy of dbtalk/database/sqlalchemy_transfer.py with the    *)
(* two readers of dbtalk/database/format.py it drives: scan_document reads *)
(* the whole file before the first write, iter_document_tables reads it a  *)
(* second time and every table block is one transaction.                   *)
(*                                                                         *)
(* Around the importer: another process may publish a new file at the      *)
(* input path (an export replaces it by rename, so a reader that has the   *)
(* old file open keeps it), the database may fail or the importer be       *)
(* killed at any moment (the server rolls the open transaction back), and  *)
(* the user may run the command again.  No other session writes to the     *)
(* target tables here.                                                     *)
(***************************************************************************)
EXTENDS ForeignKeyOrder, TableContents, FiniteSets

CONSTANTS
  Parents,      \* the target's foreign keys, defined on the tables it has
  NullKey,      \* a NULL in a primary key column
  BadValue,     \* a value the scan accepts and the target column cannot take
  Documents,    \* the files that may lie at the input path
  Choices,      \* the include/exclude options a user may pass
  Modes,        \* the write modes a user may pass
  InitialStores,
  MaxAttempts,  \* bound on the runs of the command
  MaxReplaced   \* bound on the replacements of the file

ASSUME MarkersAssumption ==
  /\ NullKey \notin Key
  /\ BadValue \notin Value \cup {Absent, Omitted} /\ Omitted # Absent
ASSUME TablesAssumption == Table \subseteq Nat /\ DOMAIN Parents \subseteq Table
ASSUME BoundsAssumption == MaxAttempts \in Nat /\ MaxReplaced \in Nat
ASSUME StoresAssumption == InitialStores \subseteq [Table -> Contents]

(* A block of a file.  Its header fits the target's table, declares the    *)
(* other columns as primary key, or has a column the target lacks; a block *)
(* that fits may still leave columns out.  whole: its records can all be   *)
(* read and its end record counts them.                                    *)
Row == [key : Key \cup {NullKey}, val : Value \cup {BadValue, Omitted}]
Header == {"fits", "other_key", "unknown_column"}
Block == [name : Table, header : Header, rows : Seq(Row), whole : BOOLEAN]
Choice == [include : SUBSET Table, exclude : SUBSET Table]

ASSUME InputsAssumption ==
  /\ Documents \subseteq Seq(Block)
  /\ Choices \subseteq Choice
  /\ Modes \subseteq {"insert", "upsert"}

VARIABLES
  file,      \* the document at the input path
  store,     \* committed contents of the target tables
  stage,     \* where the importer is
  mode, choice,  \* its options
  scanned,   \* the document the first pass read
  plan,      \* ordered_names
  replay,    \* the document the second pass has open
  block,     \* blocks of it that are finished
  row,       \* rows of the open block that are written
  expected,  \* expected_index: tables of the plan that are committed
  pending,   \* the open table as its transaction sees it
  why,       \* the reason of a failure
  base,      \* history: the store when the run started
  origin,    \* history: the store at the beginning
  attempts, replaced  \* counters behind the bounds

importer == <<stage, mode, choice, scanned, plan, replay, block, row, expected,
              pending, why, base, attempts>>
vars == <<file, store, origin, replaced, importer>>

Ended == {"idle", "done", "failed"}
Running == {"scan", "open", "replay", "table", "verify"}

-----------------------------------------------------------------------------
(* The file.                                                               *)

NamesOf(doc) == [i \in DOMAIN doc |-> doc[i].name]

(* The rows a document holds for a table; a repeated name is an error, so  *)
(* the first block with the name is the only one ever read.                *)
RowsFor(doc, t) ==
  IF t \in Placed(NamesOf(doc))
  THEN doc[Least({i \in DOMAIN doc : doc[i].name = t})].rows
  ELSE <<>>

(* Whether that block fits the target.                                     *)
FitsFor(doc, t) ==
  t \in Placed(NamesOf(doc)) =>
    doc[Least({i \in DOMAIN doc : doc[i].name = t})].header = "fits"

(* Mutant: the scan does not look at the keys of upsert rows.              *)
ScanWithoutRowValidator(doc, m) ==
  /\ \A i \in DOMAIN doc : doc[i].whole
  /\ \A i, j \in DOMAIN doc : doc[i].name = doc[j].name => i = j

(* scan_document, with validate_import_row for every row: it looks at the  *)
(* columns the block itself calls its primary key.                         *)
ScanAccepts(doc, m) ==
  /\ \A i \in DOMAIN doc : doc[i].whole
  /\ \A i, j \in DOMAIN doc : doc[i].name = doc[j].name => i = j
  /\ \A i \in DOMAIN doc : \A r \in DOMAIN doc[i].rows :
       m = "upsert" /\ doc[i].header # "other_key" => doc[i].rows[r].key # NullKey

(* The tables select_transfer_preview keeps.                               *)
ChosenTables(doc, opts) == Chosen(Placed(NamesOf(doc)), opts)

(* validate_target_table for each selected table.                          *)
TargetsFit(doc, names) ==
  \A i \in DOMAIN doc :
    doc[i].name \in names => doc[i].name \in DOMAIN Parents /\ doc[i].header = "fits"

InFileOrder(o, doc) ==
  \A i, j \in DOMAIN o : \A x, y \in DOMAIN doc :
    (i < j /\ doc[x].name = o[i] /\ doc[y].name = o[j]) => x < y

(* Mutant: the preflight asks for no particular order.                     *)
PlansInAnyOrder(doc, names) ==
  {o \in [1..Cardinality(names) -> names] : Placed(o) = names /\ InFileOrder(o, doc)}

(* order_table_names of the selected tables by the target's foreign keys,  *)
(* if it is also the order of the file; else no plan.                      *)
Plans(doc, names) ==
  {o \in [1..Cardinality(names) -> names] :
     IsCanonicalOrder(o, names, Parents) /\ InFileOrder(o, doc)}

PreflightAccepts(doc, m, opts) ==
  /\ ScanAccepts(doc, m)
  /\ SelectionAccepted(Placed(NamesOf(doc)), opts)
  /\ TargetsFit(doc, ChosenTables(doc, opts))
  /\ ~HasExternalParent(ChosenTables(doc, opts), Parents)
  /\ Plans(doc, ChosenTables(doc, opts)) # {}

-----------------------------------------------------------------------------
(* The run of the command.                                                 *)

Init ==
  /\ file \in Documents
  /\ store \in InitialStores
  /\ origin = store /\ base = store
  /\ stage = "idle"
  /\ mode = "none" /\ choice = [include |-> {}, exclude |-> {}]
  /\ scanned = <<>> /\ replay = <<>> /\ plan = <<>>
  /\ block = 0 /\ row = 0 /\ expected = 0
  /\ pending = [k \in Key |-> Absent]
  /\ why = "none"
  /\ attempts = 0 /\ replaced = 0

(* Mutant: no transaction around a table, its written rows stay.           *)
FailKeepingRows(reason) ==
  /\ stage' = "failed"
  /\ why' = reason
  /\ store' = IF stage = "table" THEN [store EXCEPT ![replay[block + 1].name] = pending] ELSE store
  /\ UNCHANGED <<mode, choice, scanned, plan, replay, block, row, expected, pending, base, attempts>>

(* The run ends with an error.  Leaving the `with connection.begin()`      *)
(* block by an exception rolls the open transaction back.                  *)
Fail(reason) ==
  /\ stage' = "failed"
  /\ why' = reason
  /\ UNCHANGED <<store, mode, choice, scanned, plan, replay, block, row,
                 expected, pending, base, attempts>>

Start(m, opts) ==
  /\ stage \in Ended
  /\ attempts < MaxAttempts
  /\ attempts' = attempts + 1
  /\ stage' = "scan"
  /\ mode' = m /\ choice' = opts
  /\ scanned' = <<>> /\ replay' = <<>> /\ plan' = <<>>
  /\ block' = 0 /\ row' = 0 /\ expected' = 0
  /\ why' = "none"
  /\ base' = store
  /\ UNCHANGED <<store, pending>>

(* Both checks of the first pass and of the target read the same file.     *)
RejectFile ==
  /\ stage = "scan"
  /\ ~PreflightAccepts(file, mode, choice)
  /\ Fail("preflight")

AcceptFile ==
  /\ stage = "scan"
  /\ PreflightAccepts(file, mode, choice)
  /\ scanned' = file
  /\ plan' \in Plans(file, ChosenTables(file, choice))
  /\ stage' = "open"
  /\ UNCHANGED <<store, mode, choice, replay, block, row, expected, pending,
                 why, base, attempts>>

(* iter_document_tables opens the path again.                              *)
OpenReplay ==
  /\ stage = "open"
  /\ replay' = file
  /\ stage' = "replay"
  /\ UNCHANGED <<store, mode, choice, scanned, plan, block, row, expected,
                 pending, why, base, attempts>>

AtBlock == stage = "replay" /\ block < Len(replay)
Current == replay[block + 1]
IsSelected == Current.name \in Placed(plan)
IsRepeated == \E i \in 1..block : replay[i].name = Current.name
IsNext == expected < Len(plan) /\ Current.name = plan[expected + 1]

RejectRepeated ==
  AtBlock /\ IsRepeated /\ Fail("duplicate_table")

(* The rows of an unselected block are read and dropped.                   *)
SkipBlock ==
  /\ AtBlock /\ ~IsRepeated /\ ~IsSelected
  /\ Current.whole
  /\ block' = block + 1
  /\ UNCHANGED <<store, stage, mode, choice, scanned, plan, replay, row,
                 expected, pending, why, base, attempts>>

RejectSkipped ==
  AtBlock /\ ~IsRepeated /\ ~IsSelected /\ ~Current.whole /\ Fail("structure")

RejectReordered ==
  AtBlock /\ ~IsRepeated /\ IsSelected /\ ~IsNext /\ Fail("order_changed")

BeginTable ==
  /\ AtBlock /\ ~IsRepeated /\ IsSelected /\ IsNext
  /\ stage' = "table"
  /\ row' = 0
  /\ pending' = store[Current.name]
  /\ UNCHANGED <<store, mode, choice, scanned, plan, replay, block, expected,
                 why, base, attempts>>

(* One row of _import_table.  A foreign key is modelled by the row's value *)
(* being a key of every parent table; the server checks it when the row is *)
(* written.                                                                *)
AtRow == stage = "table" /\ row < Len(Current.rows)
CurrentRow == Current.rows[row + 1]

KeysIn(contents) == {k \in Key : contents[k] # Absent}
Visible(t) == IF t = Current.name THEN pending ELSE store[t]
Given(r) == IF r.val = Omitted THEN Default ELSE r.val

(* The rows that the lookup of an upsert finds and its UPDATE changes: it  *)
(* asks for the primary key of the block's header, which nobody compares   *)
(* with the target's in the second pass.                                   *)
Found(r) ==
  IF mode = "insert" THEN {}
  ELSE {k \in KeysIn(pending) :
          IF Current.header = "other_key" THEN pending[k] = r.val ELSE k = r.key}

Dangling(r) ==
  /\ Found(r) # {} => r.val # Omitted
  /\ \E p \in Parents[Current.name] :
       Given(r) \notin KeysIn(Visible(p)) \cup (IF p = Current.name THEN {r.key} ELSE {})

(* A row that is about to lose its key is referred to.                     *)
Uprooting(r) ==
  \E t \in DOMAIN Parents, k \in Found(r) \ {r.key} :
    Current.name \in Parents[t] /\ \E c \in Key : Visible(t)[c] = k

(* decode_value refuses the value, or the column is not in the target.     *)
Undecodable(r) == r.val = BadValue \/ Current.header = "unknown_column"

RejectValue ==
  /\ AtRow
  /\ Undecodable(CurrentRow)
  /\ Fail("value")

(* What makes the database refuse the statement.                           *)
Refused(r, reason) ==
  \/ reason = "null_key" /\ r.key = NullKey
  \/ reason = "duplicate_key" /\ (r.key \in KeysIn(pending) \ Found(r) \/ Cardinality(Found(r)) > 1)
  \/ reason = "foreign_key" /\ (Dangling(r) \/ Uprooting(r))

RefuseRow ==
  /\ AtRow /\ ~Undecodable(CurrentRow)
  /\ \E reason \in {"null_key", "duplicate_key", "foreign_key"} :
       Refused(CurrentRow, reason) /\ Fail(reason)

Accepted(r) ==
  /\ ~Undecodable(r)
  /\ \A reason \in {"null_key", "duplicate_key", "foreign_key"} : ~Refused(r, reason)

(* Mutant: upsert leaves an existing row alone.                            *)
WriteMissingRow ==
  /\ AtRow /\ Accepted(CurrentRow)
  /\ pending' = IF Found(CurrentRow) # {} THEN pending
                ELSE [pending EXCEPT ![CurrentRow.key] = Given(CurrentRow)]
  /\ row' = row + 1
  /\ UNCHANGED <<store, stage, mode, choice, scanned, plan, replay, block,
                 expected, why, base, attempts>>

(* INSERT, or for upsert a lookup and then INSERT, UPDATE of the columns   *)
(* of the block that are not in its primary key, or nothing if it has no   *)
(* others.                                                                 *)
WriteRow ==
  /\ AtRow /\ Accepted(CurrentRow)
  /\ pending' = [k \in Key |->
       IF k = CurrentRow.key
       THEN IF Found(CurrentRow) # {} /\ CurrentRow.val = Omitted
            THEN pending[k] ELSE Given(CurrentRow)
       ELSE IF k \in Found(CurrentRow) THEN Absent ELSE pending[k]]
  /\ row' = row + 1
  /\ UNCHANGED <<store, stage, mode, choice, scanned, plan, replay, block,
                 expected, why, base, attempts>>

AtBlockEnd == stage = "table" /\ row = Len(Current.rows)

(* _iter_rows meets a bad record, a wrong row count or the end of file.    *)
RejectBlock ==
  AtBlockEnd /\ ~Current.whole /\ Fail("structure")

CommitTable ==
  /\ AtBlockEnd /\ Current.whole
  /\ store' = [store EXCEPT ![Current.name] = pending]
  /\ expected' = expected + 1
  /\ block' = block + 1
  /\ stage' = "replay"
  /\ UNCHANGED <<mode, choice, scanned, plan, replay, row, pending, why, base,
                 attempts>>

(* The server commits, but the connection is lost before it can say so.    *)
LoseCommitAnswer ==
  /\ AtBlockEnd /\ Current.whole
  /\ store' = [store EXCEPT ![Current.name] = pending]
  /\ stage' = "failed"
  /\ why' = "commit_unknown"
  /\ UNCHANGED <<mode, choice, scanned, plan, replay, block, row, expected,
                 pending, base, attempts>>

AtEnd == stage = "replay" /\ block = Len(replay)

RejectIncomplete ==
  AtEnd /\ expected # Len(plan) /\ Fail("incomplete")

(* Mutant: the number of replayed tables is not compared with the plan.    *)
FinishShortReplay ==
  /\ AtEnd
  /\ stage' = "verify"
  /\ UNCHANGED <<store, mode, choice, scanned, plan, replay, block, row,
                 expected, pending, why, base, attempts>>

FinishReplay ==
  /\ AtEnd /\ expected = Len(plan)
  /\ stage' = "verify"
  /\ UNCHANGED <<store, mode, choice, scanned, plan, replay, block, row,
                 expected, pending, why, base, attempts>>

(* _verify_database; its failure is DatabaseFails.                         *)
Verify ==
  /\ stage = "verify"
  /\ stage' = "done"
  /\ UNCHANGED <<store, mode, choice, scanned, plan, replay, block, row,
                 expected, pending, why, base, attempts>>

(* A statement, a commit or the verification fails, or the process dies.   *)
DatabaseFails == stage \in Running /\ Fail("database")

Step ==
  \/ RejectFile \/ AcceptFile \/ OpenReplay
  \/ RejectRepeated \/ SkipBlock \/ RejectSkipped \/ RejectReordered \/ BeginTable
  \/ RejectValue \/ RefuseRow \/ WriteRow \/ RejectBlock \/ CommitTable
  \/ RejectIncomplete \/ FinishReplay \/ Verify

ReplaceFile ==
  /\ replaced < MaxReplaced
  /\ replaced' = replaced + 1
  /\ \E doc \in Documents : doc # file /\ file' = doc
  /\ UNCHANGED <<store, origin, importer>>

Run == \/ \E m \in Modes, opts \in Choices : Start(m, opts)
       \/ Step
       \/ DatabaseFails
       \/ LoseCommitAnswer

Next ==
  \/ Run /\ UNCHANGED <<file, origin, replaced>>
  \/ ReplaceFile

Spec == Init /\ [][Next]_vars

-----------------------------------------------------------------------------
(* Properties.                                                             *)

(* Types; a written value is never one the column cannot take.             *)
TypeOK ==
  /\ file \in Documents /\ scanned \in Documents \cup {<<>>} /\ replay \in Documents \cup {<<>>}
  /\ store \in [Table -> Contents]
  /\ base \in [Table -> Contents] /\ origin \in [Table -> Contents]
  /\ stage \in Ended \cup Running
  /\ mode \in Modes \cup {"none"} /\ choice \in Choice
  /\ plan \in Seq(Table)
  /\ block \in Nat /\ row \in Nat /\ expected \in Nat
  /\ pending \in Contents
  /\ why \in {"none", "preflight", "structure", "duplicate_table", "order_changed", "value",
              "null_key", "duplicate_key", "foreign_key", "incomplete", "database",
              "commit_unknown"}
  /\ attempts \in 0..MaxAttempts /\ replaced \in 0..MaxReplaced

Committed ==
  {plan[i] : i \in 1..(IF why = "commit_unknown" THEN expected + 1 ELSE expected)}
WrittenOver(contents, doc, t) == Overlay(contents, RowsFor(doc, t), Len(RowsFor(doc, t)))

(* At every moment, also after any failure: the first tables of the plan   *)
(* carry all rows of the file, if it still fits them, and every other      *)
(* table is as the run found it (one transaction per block in              *)
(* import_sqlalchemy); only the answer to the last commit may be missing.  *)
CommittedPrefix ==
  /\ expected <= Len(plan)
  /\ \A t \in Table :
       IF t \in Committed THEN FitsFor(replay, t) => store[t] = WrittenOver(base[t], replay, t)
       ELSE store[t] = base[t]

(* The inductive invariant behind the properties: what each stage of a run *)
(* knows about its plan, its position in the file and its transaction.     *)
ImportInvariant ==
  /\ TypeOK
  /\ CommittedPrefix
  /\ Committed \subseteq Placed(NamesOf(replay))
  /\ \A i, j \in DOMAIN plan : plan[i] = plan[j] => i = j
  /\ stage # "failed" => why = "none"
  /\ why = "commit_unknown" => expected < Len(plan)
  /\ stage \in {"idle", "scan", "open"} => expected = 0 /\ block = 0
  /\ stage = "scan" => plan = <<>>
  /\ stage \in {"replay", "table"} => block <= Len(replay)
  /\ stage = "table" =>
       /\ block < Len(replay) /\ ~IsRepeated /\ IsNext
       /\ row <= Len(Current.rows)
       /\ Current.header = "fits" => pending = Overlay(store[Current.name], Current.rows, row)
  /\ stage \in {"verify", "done"} => expected = Len(plan)

(* What a run knows of its plan: the document of the first pass was        *)
(* accepted and the plan made for it, and while the second pass reads the  *)
(* same document it has met, of the tables of the plan, just those it has  *)
(* written.                                                                *)
PlanInvariant ==
  /\ stage # "idle" => mode \in Modes
  /\ stage \in {"idle", "scan"} => scanned = <<>>
  /\ stage \in {"open", "replay", "table", "verify", "done"} => scanned # <<>>
  /\ scanned # <<>> =>
       /\ PreflightAccepts(scanned, mode, choice)
       /\ plan \in Plans(scanned, ChosenTables(scanned, choice))
  /\ stage \in {"replay", "table"} /\ replay = scanned =>
       {plan[i] : i \in 1..expected} = {replay[i].name : i \in 1..block} \cap Placed(plan)

(* A run that reports success has found every selected table in the file   *)
(* it replayed and has touched no other.  It has written them in full if   *)
(* the path still held the file that was checked; of a file that came in   *)
(* meanwhile, the tables that fit the target, for the second pass does not *)
(* repeat validate_target_table and writes a block as its header says.     *)
DoneIsComplete ==
  stage = "done" =>
    /\ Placed(plan) \subseteq Placed(NamesOf(replay))
    /\ \A t \in Table :
         IF t \notin Placed(plan) THEN store[t] = base[t]
         ELSE replay = scanned \/ FitsFor(replay, t) => store[t] = WrittenOver(base[t], replay, t)

(* The checks of the second pass that repeat the first fire only when the  *)
(* file was replaced between the passes: the preflight misses nothing that *)
(* it could have seen.                                                     *)
PreflightIsThorough ==
  (stage = "failed" /\ replay = scanned /\ scanned # <<>>) =>
    /\ why \notin {"structure", "duplicate_table", "order_changed", "incomplete"}
    /\ why = "null_key" => mode = "insert"

(* While the file is the one that was checked, a foreign key can only      *)
(* break on a row whose parent is neither in the file nor was in the       *)
(* target, or on a reference inside one table: the order in which tables   *)
(* are written is never the reason.                                        *)
ForeignKeysSatisfiedByOrder ==
  (why = "foreign_key" /\ replay = scanned) =>
    \E p \in Parents[Current.name] :
      \/ p = Current.name
      \/ Given(CurrentRow) \notin KeysIn(WrittenOver(base[p], replay, p))

(* However many runs failed, were killed or succeeded in whatever modes, a *)
(* table holds what it held at first, or that with the file written over   *)
(* it: partial success and retry never add up to anything else.            *)
RetryConverges ==
  replaced = 0 =>
    \A t \in Table : store[t] \in {origin[t], WrittenOver(origin[t], file, t)}

(* The abstract import: see WholeTableImport.                              *)
Agenda ==
  IF stage \in {"replay", "table"}
  THEN [i \in 1..(Len(plan) - expected) |->
          [table |-> plan[expected + i],
           rows |-> RowsFor(replay, plan[expected + i]),
           fits |-> FitsFor(replay, plan[expected + i])]]
  ELSE <<>>

Whole == INSTANCE WholeTableImport WITH agenda <- Agenda

(* Every step of an import is one whole table written, an import begun or  *)
(* given up, or nothing at all to another session.                         *)
ImplementsWholeTables == Whole!Spec
=============================================================================
