-------------------------- MODULE ConcurrentUpsert --------------------------
(***************************************************************************)
(* The upsert branch of _import_table of                                   *)
(* dbtalk/database/sqlalchemy_transfer.py beside other sessions: every row *)
(* is a SELECT of its key and then an UPDATE or an INSERT, two statements  *)
(* of one transaction between which another session may commit.            *)
(*                                                                         *)
(* The transaction sees, by the dialect's default isolation level,         *)
(*   "statement"  PostgreSQL: what is committed when a statement starts;   *)
(*   "snapshot"   MySQL: SELECT what was committed at the first SELECT,    *)
(*                UPDATE and INSERT what is committed now;                 *)
(*   "database"   SQLite: as PostgreSQL, but the first write locks the     *)
(*                database against every other writer.                     *)
(* It always sees its own writes, and the rows it wrote are locked.        *)
(* JsonlImport has the rest of the import, for an importer alone.          *)
(***************************************************************************)
EXTENDS Naturals, Sequences

CONSTANTS
  Key, Value,
  Absent,        \* no row with this key
  Blocks,        \* blocks of rows a file may hold
  Isolation,
  MaxOther       \* bound on the commits of other sessions

Row == [key : Key, val : Value]
Level == {"statement", "snapshot", "database"}

ASSUME BlocksAssumption == Blocks \subseteq Seq(Row)
ASSUME AbsentAssumption == Absent \notin Value
ASSUME IsolationAssumption == Isolation \subseteq Level
ASSUME OthersAssumption == MaxOther \in Nat

VARIABLES
  level,      \* isolation of the target
  block,      \* the rows to write
  stored,     \* the table as other sessions see it
  own,        \* rows the transaction wrote; Absent where it wrote none
  seen,       \* what its SELECTs see, own writes aside, once it has a snapshot
  stage,      \* "lookup", "write", "done", "failed"
  row,        \* rows written
  found,      \* whether the last SELECT returned a row
  others,     \* commits of other sessions
  deleted     \* history: keys they deleted

upsertVars == <<level, block, stored, own, seen, stage, row, found, others, deleted>>

Table == [Key -> Value \cup {Absent}]
Over(written, table) == [k \in Key |-> IF written[k] = Absent THEN table[k] ELSE written[k]]
Nothing == [k \in Key |-> Absent]

UpsertInit ==
  /\ level \in Isolation /\ block \in Blocks
  /\ stored \in Table
  /\ own = Nothing /\ seen = <<>>
  /\ stage = "lookup" /\ row = 0 /\ found = FALSE
  /\ others = 0 /\ deleted = {}

Pending == block[row + 1]
HasSnapshot == level = "snapshot" /\ seen # <<>>
Visible == Over(own, IF HasSnapshot THEN seen[1] ELSE stored)
Current == Over(own, stored)

(* exists = connection.execute(exists_statement, ...).first()              *)
Lookup ==
  /\ stage = "lookup" /\ row < Len(block)
  /\ found' = (Visible[Pending.key] # Absent)
  /\ seen' = IF level = "snapshot" /\ seen = <<>> THEN <<stored>> ELSE seen
  /\ stage' = "write"
  /\ UNCHANGED <<level, block, stored, own, row, others, deleted>>

WriteOwn ==
  /\ own' = [own EXCEPT ![Pending.key] = Pending.val]
  /\ row' = row + 1
  /\ stage' = "lookup"
  /\ UNCHANGED <<level, block, stored, seen, found, others, deleted>>

InsertRow == stage = "write" /\ ~found /\ Current[Pending.key] = Absent /\ WriteOwn

(* Mutant: INSERT IGNORE.                                                  *)
InsertDuplicateIgnored ==
  /\ stage = "write" /\ ~found /\ Current[Pending.key] # Absent
  /\ stage' = "lookup" /\ row' = row + 1
  /\ UNCHANGED <<level, block, stored, own, seen, found, others, deleted>>

(* IntegrityError: the transaction is rolled back and the import fails.    *)
InsertDuplicate ==
  /\ stage = "write" /\ ~found /\ Current[Pending.key] # Absent
  /\ stage' = "failed" /\ own' = Nothing
  /\ UNCHANGED <<level, block, stored, seen, row, found, others, deleted>>

UpdateRow == stage = "write" /\ found /\ Current[Pending.key] # Absent /\ WriteOwn

(* The row is gone: UPDATE matches none, and its row count is not looked   *)
(* at.                                                                     *)
UpdateNothing ==
  /\ stage = "write" /\ found /\ Current[Pending.key] = Absent
  /\ row' = row + 1
  /\ stage' = "lookup"
  /\ UNCHANGED <<level, block, stored, own, seen, found, others, deleted>>

(* The end of `with connection.begin()`.                                   *)
CommitBlock ==
  /\ stage = "lookup" /\ row = Len(block)
  /\ stage' = "done"
  /\ stored' = Current /\ own' = Nothing
  /\ UNCHANGED <<level, block, seen, row, found, others, deleted>>

(* Another session inserts, updates or deletes a row and commits.          *)
Other(k, v) ==
  /\ others < MaxOther /\ others' = others + 1
  /\ own[k] = Absent
  /\ level = "database" => own = Nothing
  /\ stored[k] # v
  /\ stored' = [stored EXCEPT ![k] = v]
  /\ deleted' = IF v = Absent THEN deleted \cup {k} ELSE deleted
  /\ UNCHANGED <<level, block, own, seen, stage, row, found>>

UpsertNext ==
  \/ Lookup \/ InsertRow \/ InsertDuplicate \/ UpdateRow \/ UpdateNothing \/ CommitBlock
  \/ \E k \in Key, v \in Value \cup {Absent} : Other(k, v)

UpsertSpec == UpsertInit /\ [][UpsertNext]_upsertVars

-----------------------------------------------------------------------------
(* Properties.                                                             *)

(* Types of the variables.                                                 *)
UpsertTypeOK ==
  /\ level \in Level /\ block \in Blocks
  /\ stored \in Table /\ own \in Table
  /\ seen = <<>> \/ (Len(seen) = 1 /\ seen[1] \in Table)
  /\ stage \in {"lookup", "write", "done", "failed"}
  /\ row \in 0 .. Len(block) /\ found \in BOOLEAN
  /\ others \in 0 .. MaxOther /\ deleted \in SUBSET Key

(* What the block says of a key: its last row with it.                     *)
Says(k, v) ==
  \E i \in DOMAIN block :
    /\ block[i] = [key |-> k, val |-> v]
    /\ \A j \in DOMAIN block : j > i => block[j].key # k

(* When a block is reported as written, its rows are in the table, for     *)
(* every key that no other session deleted, whatever they commit meanwhile *)
(* (a row that is deleted after it was found is not inserted again).       *)
WrittenUnlessDeleted ==
  [][stage # "done" /\ stage' = "done" =>
       \A k \in Key \ deleted, v \in Value : Says(k, v) => stored'[k] = v]_upsertVars

(* A duplicate key is only ever reported when another session came in      *)
(* between: a key that a block holds twice is inserted and then updated.   *)
AloneItNeverCollides == stage = "failed" => others > 0
=============================================================================
