-------------------------- MODULE ForeignKeyOrder --------------------------
(***************************************************************************)
(* The operators of dbtalk/database/schema.py on table names and foreign   *)
(* keys, shared by the modules that order, export and import tables.       *)
(*                                                                         *)
(* A table name is a number, its rank among the sorted names.  parents is  *)
(* a function from a name to the set of names its foreign keys refer to.   *)
(***************************************************************************)
EXTENDS Naturals, Sequences

CONSTANT Table   \* the table names that may occur

Placed(o) == {o[i] : i \in DOMAIN o}

(* select_table_names: an empty include set stands for every table.        *)
Chosen(available, choice) ==
  (IF choice.include = {} THEN available ELSE choice.include) \ choice.exclude

SelectionAccepted(available, choice) ==
  /\ choice.include \cup choice.exclude \subseteq available
  /\ Chosen(available, choice) # {}

(* A self reference and a parent outside the selection never block.        *)
ParentsWithin(t, names, parents) == (parents[t] \cap names) \ {t}

(* validate_selected_foreign_keys finds a parent that is not selected.     *)
HasExternalParent(names, parents) == \E t \in names : ~(parents[t] \subseteq names)

(* Mutant: ready.pop() in place of ready.pop(0).                           *)
LastOfReady(S) == CHOOSE t \in S : \A u \in S : u <= t

(* ready is sorted, so pop(0) takes the least name.                        *)
Least(S) == CHOOSE t \in S : \A u \in S : t <= u

(* The tables that may come next once the tables in done are placed.       *)
Unblocked(done, names, parents) ==
  {t \in names \ done : ParentsWithin(t, names, parents) \subseteq done}

(* The sequence order_table_names returns: every position holds the least  *)
(* name whose parents all come earlier.                                    *)
LeastFirst(o, names, parents) ==
  \A i \in DOMAIN o :
    LET open == Unblocked({o[j] : j \in 1..(i - 1)}, names, parents)
    IN  o[i] \in open /\ \A t \in open : o[i] <= t

IsCanonicalOrder(o, names, parents) ==
  Placed(o) = names /\ LeastFirst(o, names, parents)
=============================================================================
