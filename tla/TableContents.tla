--------------------------- MODULE TableContents ---------------------------
(***************************************************************************)
(* The contents of a keyed table and what a sequence of written rows makes *)
(* of them.  A table is a function from primary keys to the row's other    *)
(* columns, or to Absent.  A row of a transfer file is a record of a key   *)
(* and a value, or of a key alone when its block leaves columns out: they  *)
(* keep what they hold, or get their default in a new row.                 *)
(***************************************************************************)
EXTENDS Naturals, Sequences

CONSTANTS
  Key,      \* primary keys
  Value,    \* the other columns of a row
  Absent,   \* no row under a key
  Omitted,  \* the value of a row that leaves the other columns out
  Default   \* what the target gives a new row for them

ASSUME AbsentAssumption == Absent \notin Value /\ Omitted \notin Value /\ Default \in Value

Contents == [Key -> Value \cup {Absent}]

(* The positions among the first n rows that write key k, those that also  *)
(* set its other columns, and the last of these.                           *)
Writers(rows, n, k) == {i \in 1..n : rows[i].key = k}
Setters(rows, n, k) == {i \in Writers(rows, n, k) : rows[i].val # Omitted}
LastSetter(rows, n, k) ==
  CHOOSE i \in Setters(rows, n, k) : \A j \in Setters(rows, n, k) : j <= i

(* The contents after the first n rows have been written over them.        *)
Overlay(contents, rows, n) ==
  [k \in Key |->
     IF Setters(rows, n, k) # {}
     THEN rows[LastSetter(rows, n, k)].val
     ELSE IF Writers(rows, n, k) = {} \/ contents[k] # Absent THEN contents[k] ELSE Default]
=============================================================================
