-------------------------- MODULE WholeTableImport --------------------------
(***************************************************************************)
(* What import_sqlalchemy promises about the target database: an import is *)
(* a list of tables, each of which is written as a whole with all of its   *)
(* rows, in the order of the list.  It may stop before, between or after   *)
(* the tables, never inside one, and what it has written stays.  Nothing   *)
(* is promised of the contents of a table whose block does not fit it, but *)
(* the other tables are safe from it.                                      *)
(***************************************************************************)
EXTENDS TableContents

CONSTANT Table

VARIABLES
  store,    \* contents of every table, as other sessions see them
  agenda    \* the tables still to be written, each with its rows and whether they fit it

vars == <<store, agenda>>

Init == store \in [Table -> Contents] /\ agenda = <<>>

Begin ==
  /\ agenda = <<>>
  /\ store' = store

WriteTable ==
  /\ agenda # <<>>
  /\ LET job == Head(agenda)
     IN  \E contents \in Contents :
           /\ job.fits => contents = Overlay(store[job.table], job.rows, Len(job.rows))
           /\ store' = [store EXCEPT ![job.table] = contents]
  /\ agenda' \in {Tail(agenda), <<>>}

Abandon ==
  /\ agenda' = <<>>
  /\ UNCHANGED store

Next == Begin \/ WriteTable \/ Abandon

Spec == Init /\ [][Next]_vars
=============================================================================
