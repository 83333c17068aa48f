----------------------------- MODULE TableOrder -----------------------------
(***************************************************************************)
(* order_table_names of dbtalk/database/schema.py: the parent-before-child *)
(* order in which tables are exported and in which an import must find     *)
(* them in its file.  The loop is kept as a transition system so that its  *)
(* invariant can be checked and proved; the predicate IsCanonicalOrder     *)
(* says, without a loop, which sequence it returns.                        *)
(*                                                                         *)
(* A table name is a number, its rank among the sorted names: Python's     *)
(* sorted() and list.sort() on names are <= here.                          *)
(***************************************************************************)
EXTENDS ForeignKeyOrder, FiniteSets

CONSTANT Selections   \* the selected name sets the caller may pass

ASSUME TableAssumption == Table \subseteq Nat /\ IsFiniteSet(Table)
ASSUME SelectionsAssumption == Selections \subseteq SUBSET Table

VARIABLES
  selected,    \* the table names to order
  fks,         \* the foreign keys of every schema: fks[t] is the set of t's parents
  phase,       \* "validate", "loop", then the outcome
  remaining,   \* parents of each selected table that are not placed yet
  ready,       \* the sorted ready list
  ordered      \* the result so far

orderVars == <<selected, fks, phase, remaining, ready, ordered>>

-----------------------------------------------------------------------------

OrderInit ==
  /\ selected \in Selections
  /\ fks \in [Table -> SUBSET Table]
  /\ phase = "validate"
  /\ remaining = [t \in selected |-> {}]
  /\ ready = {}
  /\ ordered = <<>>

(* "table ... depends on unselected foreign-key table(s)"                  *)
RejectExternal ==
  /\ phase = "validate"
  /\ HasExternalParent(selected, fks)
  /\ phase' = "external"
  /\ UNCHANGED <<selected, fks, remaining, ready, ordered>>

(* Mutant: a self reference is kept as a dependency.                       *)
StartLoopKeepingSelf ==
  /\ phase = "validate"
  /\ ~HasExternalParent(selected, fks)
  /\ phase' = "loop"
  /\ remaining' = [t \in selected |-> fks[t] \cap selected]
  /\ ready' = {t \in selected : fks[t] \cap selected = {}}
  /\ UNCHANGED <<selected, fks, ordered>>

StartLoop ==
  /\ phase = "validate"
  /\ ~HasExternalParent(selected, fks)
  /\ phase' = "loop"
  /\ remaining' = [t \in selected |-> ParentsWithin(t, selected, fks)]
  /\ ready' = {t \in selected : ParentsWithin(t, selected, fks) = {}}
  /\ UNCHANGED <<selected, fks, ordered>>

(* _release_children: forget parent everywhere, queue whom that frees.     *)
ReleaseChildren(parent) ==
  /\ remaining' = [t \in selected |-> remaining[t] \ {parent}]
  /\ ready' = (ready \ {parent}) \cup
       {t \in selected : /\ parent \in remaining[t]
                         /\ remaining[t] \ {parent} = {}
                         /\ t \notin Placed(ordered) \cup {parent}}

PlaceNext ==
  /\ phase = "loop"
  /\ ready # {}
  /\ ordered' = Append(ordered, Least(ready))
  /\ ReleaseChildren(Least(ready))
  /\ UNCHANGED <<selected, fks, phase>>

(* A short result means some tables never became ready.                    *)
Finish ==
  /\ phase = "loop"
  /\ ready = {}
  /\ phase' = IF Len(ordered) = Cardinality(selected) THEN "ordered" ELSE "cycle"
  /\ UNCHANGED <<selected, fks, remaining, ready, ordered>>

OrderDone == phase \in {"external", "ordered", "cycle"} /\ UNCHANGED orderVars

OrderNext == RejectExternal \/ StartLoop \/ PlaceNext \/ Finish \/ OrderDone

OrderSpec == OrderInit /\ [][OrderNext]_orderVars

-----------------------------------------------------------------------------

(* Types of the loop's variables.                                          *)
OrderTypeOK ==
  /\ selected \in SUBSET Table
  /\ fks \in [Table -> SUBSET Table]
  /\ phase \in {"validate", "loop", "external", "ordered", "cycle"}
  /\ remaining \in [selected -> SUBSET Table]
  /\ ready \in SUBSET selected
  /\ ordered \in Seq(selected)

(* The result never holds a child before one of its selected parents, at   *)
(* any moment of the loop: what an import relies on to write a row only    *)
(* after the rows it refers to (order_table_names).                        *)
ParentsFirst ==
  \A i \in DOMAIN ordered :
    ParentsWithin(ordered[i], selected, fks) \subseteq {ordered[j] : j \in 1..(i - 1)}

(* A returned order is the canonical one: two databases with the same      *)
(* schema order any common selection alike, which is what the equality     *)
(* test of import_sqlalchemy needs.                                        *)
ReturnsCanonicalOrder ==
  phase = "ordered" => IsCanonicalOrder(ordered, selected, fks)

(* C is a set of tables each waiting for another table of C.               *)
Deadlocked(C) == \A t \in C : ParentsWithin(t, selected, fks) \cap C # {}

(* "foreign-key cycle" is reported exactly for selections with a cycle of  *)
(* at least two tables; a self reference alone is accepted.                *)
CycleReportedExactly ==
  LET cyclic == \E C \in SUBSET selected : C # {} /\ Deadlocked(C)
  IN  (phase = "cycle" => cyclic) /\ (phase = "ordered" => ~cyclic)

(* A subset that is closed under parents keeps the relative order it has   *)
(* in the whole: each of its tables stands there where the ready loop      *)
(* would have put it if the subset alone were ordered.  So a partial       *)
(* import of a full export finds its tables in the order it computes for   *)
(* them (import_sqlalchemy's equality test).                               *)
LeastFirstWithin(o, names, parents) ==
  \A i \in DOMAIN o :
    o[i] \in names =>
      LET open == Unblocked({o[j] : j \in 1..(i - 1)} \cap names, names, parents)
      IN  o[i] \in open /\ \A t \in open : o[i] <= t

SubsetKeepsOrder ==
  phase = "ordered" =>
    \A S \in SUBSET selected :
      ~HasExternalParent(S, fks) => LeastFirstWithin(ordered, S, fks)

(* The invariant of the ready loop, inductive: the bookkeeping of           *)
(* _release_children agrees with the foreign keys of the tables placed so  *)
(* far, and no table is placed twice.                                      *)
LoopInvariant ==
  /\ OrderTypeOK
  /\ phase \in {"validate", "external"} => ordered = <<>>
  /\ phase \in {"loop", "ordered", "cycle"} =>
       /\ \A t \in selected :
            remaining[t] = ParentsWithin(t, selected, fks) \ Placed(ordered)
       /\ ready = Unblocked(Placed(ordered), selected, fks)
  /\ LeastFirst(ordered, selected, fks)
  /\ Cardinality(Placed(ordered)) = Len(ordered)
  /\ phase \in {"ordered", "cycle"} =>
       ready = {} /\ (phase = "ordered" <=> Len(ordered) = Cardinality(selected))
=============================================================================
