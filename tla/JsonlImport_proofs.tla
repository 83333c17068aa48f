------------------------- MODULE JsonlImport_proofs -------------------------
(***************************************************************************)
(* Proofs about the order of the tables and the import that relies on it:  *)
(* the facts about the operators of ForeignKeyOrder, the ready loop of     *)
(* order_table_names for every finite set of tables and every foreign-key  *)
(* graph on it, and the two-pass import for every target, every set of     *)
(* documents and any number of runs.                                       *)
(***************************************************************************)
EXTENDS JsonlImport, TableOrder, FiniteSetTheorems, SequenceTheorems, WellFoundedInduction, TLAPS

-----------------------------------------------------------------------------
(* Every non-empty set of numbers has a least element: what ready.pop(0)   *)
(* of a sorted list returns, and what an earliest position is.             *)

LEMMA LessThanIsWellFounded ==
  \E R : IsWellFoundedOn(R, Nat) /\ (\A x, y \in Nat : <<x, y>> \in R <=> x < y)
<1>1. \A x, y \in Nat : <<x, y>> \in OpToRel(<, Nat) <=> x < y
  BY DEF OpToRel
<1>2. QED
  BY <1>1, NatLessThanWellFounded, Zenon

LEMMA MinimumExists ==
  ASSUME NEW S \in SUBSET Nat, S # {}
  PROVE  \E m \in S : \A n \in S : m <= n
<1>1. PICK R : IsWellFoundedOn(R, Nat) /\ (\A x, y \in Nat : <<x, y>> \in R <=> x < y)
  BY LessThanIsWellFounded, Zenon
<1>2. \E m \in S : \A n \in S : ~(<<n, m>> \in R)
  <2>1. IsWellFoundedOn(R, Nat) /\ S \subseteq Nat
    BY <1>1, Zenon
  <2>2. QED
    BY <2>1, WFMin, Zenon
<1>3. PICK m \in S : \A n \in S : ~(<<n, m>> \in R)
  BY <1>2, Zenon
<1>4. ASSUME NEW n \in S PROVE m <= n
  <2>1. ~(n < m)
    BY <1>1, <1>3, Zenon
  <2>2. QED
    BY <2>1
<1>5. QED
  BY <1>4

LEMMA LeastProperties ==
  ASSUME NEW S \in SUBSET Nat, S # {}
  PROVE  Least(S) \in S /\ \A t \in S : Least(S) <= t
  BY MinimumExists DEF Least

(* A set of positions up to a bound has a last one: the first of what is   *)
(* left of the bound.                                                      *)
LEMMA LatestExists ==
  ASSUME NEW n \in Nat, NEW S \in SUBSET (1..n), S # {}
  PROVE  \E m \in S : \A j \in S : j <= m
<1> DEFINE left == {n - i : i \in S}
<1>1. left \in SUBSET Nat
  OBVIOUS
<1>2. left # {}
  OBVIOUS
<1>3. \E d \in left : \A e \in left : d <= e
  <2> HIDE DEF left
  <2> QED
    BY <1>1, <1>2, MinimumExists
<1>4. PICK m \in S : \A e \in left : n - m <= e
  BY <1>3
<1>5. ASSUME NEW j \in S PROVE j <= m
  <2>1. n - m <= n - j
    BY <1>4
  <2>2. j \in Int /\ m \in Int
    OBVIOUS
  <2>3. QED
    BY <2>1, <2>2
<1>6. QED
  BY <1>5

(* What appending one table does to the set of placed tables.              *)
LEMMA PlacedAppend ==
  ASSUME NEW S, NEW o \in Seq(S), NEW e \in S
  PROVE  /\ Placed(Append(o, e)) = Placed(o) \cup {e}
         /\ DOMAIN Append(o, e) = 1..(Len(o) + 1)
         /\ \A i \in 1..Len(o) : Append(o, e)[i] = o[i]
         /\ Append(o, e)[Len(o) + 1] = e
<1>1. /\ DOMAIN Append(o, e) = 1..(Len(o) + 1)
      /\ \A i \in 1..Len(o) : Append(o, e)[i] = o[i]
      /\ Append(o, e)[Len(o) + 1] = e
      /\ Len(o) \in Nat /\ DOMAIN o = 1..Len(o)
  BY AppendProperties, LenProperties
<1>2. Placed(Append(o, e)) = Placed(o) \cup {e}
  BY <1>1 DEF Placed
<1>3. QED
  BY <1>1, <1>2

-----------------------------------------------------------------------------
(* The names of a sequence, and of anything smaller, are finitely many.    *)

LEMMA PlacedIsFinite ==
  ASSUME NEW S, NEW o \in Seq(S)
  PROVE  Placed(o) \subseteq S /\ IsFiniteSet(Placed(o))
<1>1. DOMAIN o = 1..Len(o) /\ Len(o) \in Nat /\ o \in [1..Len(o) -> S]
  BY LenProperties
<1>2. o \in Surjection(1..Len(o), Placed(o))
  BY <1>1 DEF Surjection, Placed
<1>3. IsFiniteSet(1..Len(o))
  BY <1>1, FS_Interval
<1>4. IsFiniteSet(Placed(o))
  BY <1>2, <1>3, FS_Surjection DEF ExistsSurjection
<1>5. QED
  BY <1>1, <1>4 DEF Placed

(* A canonical order names no table twice.                                 *)
LEMMA CanonicalIsInjective ==
  ASSUME NEW n \in Nat, NEW names, NEW parents, NEW o \in [1..n -> names],
         LeastFirst(o, names, parents)
  PROVE  \A i, j \in 1..n : o[i] = o[j] => i = j
<1>1. \A i \in 1..n : o[i] \notin {o[j] : j \in 1..(i - 1)}
  BY DEF LeastFirst, Unblocked
<1>2. ASSUME NEW i \in 1..n, NEW j \in 1..n, i < j PROVE o[i] # o[j]
  <2>1. i \in 1..(j - 1)
    BY <1>2
  <2>2. QED
    BY <1>1, <2>1
<1>3. QED
  BY <1>2

-----------------------------------------------------------------------------
(* The invariant of the loop, action by action.                            *)

LEMMA InitLoopInvariant == OrderInit => LoopInvariant
<1> SUFFICES ASSUME OrderInit PROVE LoopInvariant
  OBVIOUS
<1> USE DEF OrderInit
<1>1. OrderTypeOK
  BY SelectionsAssumption DEF OrderTypeOK
<1>2. LeastFirst(ordered, selected, fks)
  BY DEF LeastFirst
<1>3. Placed(ordered) = {} /\ Cardinality(Placed(ordered)) = Len(ordered)
  <2>1. Placed(ordered) = {} /\ Len(ordered) = 0
    BY DEF Placed
  <2>2. Cardinality({}) = 0
    BY FS_EmptySet
  <2>3. QED
    BY <2>1, <2>2
<1>4. QED
  BY <1>1, <1>2, <1>3 DEF LoopInvariant

LEMMA StartLoopInvariant == LoopInvariant /\ StartLoop => LoopInvariant'
<1> SUFFICES ASSUME LoopInvariant, StartLoop PROVE LoopInvariant'
  OBVIOUS
<1> USE DEF LoopInvariant, StartLoop
<1>1. Placed(ordered) = {}
  BY DEF Placed
<1>2. OrderTypeOK'
  BY DEF OrderTypeOK, ParentsWithin
<1>3. \A t \in selected : remaining'[t] = ParentsWithin(t, selected, fks) \ Placed(ordered)
  BY <1>1
<1>4. ready' = Unblocked(Placed(ordered), selected, fks)
  BY <1>1 DEF Unblocked
<1>5. QED
  BY <1>2, <1>3, <1>4

LEMMA PlaceNextInvariant == LoopInvariant /\ PlaceNext => LoopInvariant'
<1> SUFFICES ASSUME LoopInvariant, PlaceNext PROVE LoopInvariant'
  OBVIOUS
<1> DEFINE e == Least(ready)
           done == Placed(ordered)
<1>1. /\ ready \in SUBSET selected /\ selected \in SUBSET Nat /\ ready # {}
      /\ fks \in [Table -> SUBSET Table] /\ selected \in SUBSET Table
      /\ ordered \in Seq(selected)
      /\ remaining \in [selected -> SUBSET Table]
      /\ IsFiniteSet(selected)
  BY TableAssumption, FS_Subset DEF LoopInvariant, OrderTypeOK, PlaceNext
<1>2. e \in ready /\ \A t \in ready : e <= t
  BY <1>1, LeastProperties
<1>3. /\ phase = "loop" /\ phase' = "loop"
      /\ selected' = selected /\ fks' = fks
      /\ ordered' = Append(ordered, e)
      /\ remaining' = [t \in selected |-> remaining[t] \ {e}]
      /\ ready' = (ready \ {e}) \cup {t \in selected : /\ e \in remaining[t]
                                                       /\ remaining[t] \ {e} = {}
                                                       /\ t \notin done \cup {e}}
  BY DEF PlaceNext, ReleaseChildren
<1>4. /\ \A t \in selected : remaining[t] = ParentsWithin(t, selected, fks) \ done
      /\ ready = Unblocked(done, selected, fks)
      /\ LeastFirst(ordered, selected, fks)
      /\ Cardinality(done) = Len(ordered)
  BY <1>3 DEF LoopInvariant
<1> HIDE DEF e, done
<1>5. /\ Placed(ordered') = done \cup {e}
      /\ DOMAIN ordered' = 1..(Len(ordered) + 1)
      /\ \A i \in 1..Len(ordered) : ordered'[i] = ordered[i]
      /\ ordered'[Len(ordered) + 1] = e
      /\ DOMAIN ordered = 1..Len(ordered) /\ Len(ordered) \in Nat
      /\ Len(ordered') = Len(ordered) + 1
      /\ ordered' \in Seq(selected)
  <2>1. e \in selected
    BY <1>1, <1>2
  <2>2. QED
    BY <1>1, <1>3, <2>1, PlacedAppend, AppendProperties, LenProperties DEF done
<1>6. OrderTypeOK'
  BY <1>1, <1>2, <1>3, <1>5 DEF OrderTypeOK
<1>7. \A t \in selected : remaining'[t] = ParentsWithin(t, selected, fks) \ (done \cup {e})
  BY <1>3, <1>4
<1>8. ready' = Unblocked(done \cup {e}, selected, fks)
  <2>1. ASSUME NEW t \in selected
        PROVE  t \in ready' <=> t \in Unblocked(done \cup {e}, selected, fks)
    <3>1. t \in ready' <=> \/ t \in ready /\ t # e
                           \/ /\ e \in remaining[t] /\ remaining[t] \ {e} = {}
                              /\ t \notin done /\ t # e
      BY <1>3, <2>1
    <3>2. t \in ready <=> t \notin done /\ remaining[t] = {}
      BY <1>4 DEF Unblocked
    <3>3. t \in Unblocked(done \cup {e}, selected, fks) <=>
            t \notin done /\ t # e /\ remaining[t] \ {e} = {}
      BY <1>4 DEF Unblocked
    <3>4. QED
      BY <3>1, <3>2, <3>3
  <2>2. ready' \subseteq selected /\ Unblocked(done \cup {e}, selected, fks) \subseteq selected
    BY <1>6, <1>3 DEF OrderTypeOK, Unblocked
  <2>3. QED
    BY <2>1, <2>2
<1>9. LeastFirst(ordered', selected, fks)
  <2> SUFFICES ASSUME NEW i \in 1..(Len(ordered) + 1)
               PROVE  LET open == Unblocked({ordered'[j] : j \in 1..(i - 1)}, selected, fks)
                      IN  ordered'[i] \in open /\ \A t \in open : ordered'[i] <= t
    BY <1>5 DEF LeastFirst
  <2>1. {ordered'[j] : j \in 1..(i - 1)} = {ordered[j] : j \in 1..(i - 1)}
    BY <1>5
  <2>2. CASE i \in 1..Len(ordered)
    BY <1>4, <1>5, <2>1, <2>2 DEF LeastFirst
  <2>3. CASE i = Len(ordered) + 1
    <3>1. {ordered[j] : j \in 1..(i - 1)} = done
      BY <1>5, <2>3 DEF done, Placed
    <3>2. QED
      BY <1>2, <1>4, <1>5, <2>1, <2>3, <3>1
  <2>4. QED
    BY <1>5, <2>2, <2>3
<1>10. Cardinality(Placed(ordered')) = Len(ordered')
  <2>1. IsFiniteSet(done) /\ e \notin done
    <3>1. done \in SUBSET selected
      BY <1>1, <1>5, ElementOfSeq DEF done, Placed
    <3>2. QED
      BY <1>1, <1>2, <1>4, <3>1, FS_Subset DEF Unblocked
  <2>2. QED
    BY <1>4, <1>5, <2>1, FS_AddElement
<1>11. QED
  BY <1>3, <1>5, <1>6, <1>7, <1>8, <1>9, <1>10 DEF LoopInvariant

LEMMA FinishLoopInvariant == LoopInvariant /\ Finish => LoopInvariant'
<1> SUFFICES ASSUME LoopInvariant, Finish PROVE LoopInvariant'
  OBVIOUS
<1>1. OrderTypeOK'
  BY DEF LoopInvariant, Finish, OrderTypeOK
<1>2. QED
  BY <1>1 DEF LoopInvariant, Finish

(* The ready loop's bookkeeping is right in every reachable state.         *)
THEOREM LoopInvariantHolds == OrderSpec => []LoopInvariant
<1>1. OrderInit => LoopInvariant
  BY InitLoopInvariant
<1>2. LoopInvariant /\ [OrderNext]_orderVars => LoopInvariant'
  <2> SUFFICES ASSUME LoopInvariant, [OrderNext]_orderVars PROVE LoopInvariant'
    OBVIOUS
  <2>1. CASE RejectExternal
    BY <2>1 DEF LoopInvariant, OrderTypeOK, RejectExternal
  <2>2. CASE StartLoop
    BY <2>2, StartLoopInvariant
  <2>3. CASE PlaceNext
    BY <2>3, PlaceNextInvariant
  <2>4. CASE Finish
    BY <2>4, FinishLoopInvariant
  <2>5. CASE OrderDone \/ UNCHANGED orderVars
    BY <2>5 DEF LoopInvariant, OrderTypeOK, OrderDone, orderVars
  <2>6. QED
    BY <2>1, <2>2, <2>3, <2>4, <2>5 DEF OrderNext
<1>3. QED
  BY <1>1, <1>2, PTL DEF OrderSpec

-----------------------------------------------------------------------------
(* What the invariant gives.                                               *)

(* The types of the loop's variables, for every constant.                  *)
THEOREM OrderTypeCorrect == OrderSpec => []OrderTypeOK
<1>1. LoopInvariant => OrderTypeOK
  BY DEF LoopInvariant
<1>2. QED
  BY <1>1, LoopInvariantHolds, PTL

(* No prefix of the order holds a child without its parents, so an import  *)
(* that follows it writes parents first.                                   *)
THEOREM ParentsAlwaysFirst == OrderSpec => []ParentsFirst
<1>1. LoopInvariant => ParentsFirst
  BY DEF LoopInvariant, LeastFirst, Unblocked, ParentsFirst
<1>2. QED
  BY <1>1, LoopInvariantHolds, PTL

(* A full-length result places every selected table.                       *)
LEMMA FullLengthPlacesAll ==
  ASSUME LoopInvariant, Len(ordered) = Cardinality(selected)
  PROVE  Placed(ordered) = selected
<1>1. IsFiniteSet(selected) /\ Cardinality(Placed(ordered)) = Cardinality(selected)
  BY TableAssumption, FS_Subset DEF LoopInvariant, OrderTypeOK
<1>2. Placed(ordered) \in SUBSET selected
  BY LenProperties, ElementOfSeq DEF LoopInvariant, OrderTypeOK, Placed
<1>3. QED
  BY <1>1, <1>2, FS_Subset

(* The returned order is the canonical one.                                *)
THEOREM OrderIsCanonical == OrderSpec => []ReturnsCanonicalOrder
<1>1. LoopInvariant => ReturnsCanonicalOrder
  BY FullLengthPlacesAll DEF LoopInvariant, ReturnsCanonicalOrder, IsCanonicalOrder
<1>2. QED
  BY <1>1, LoopInvariantHolds, PTL

(* In a full order the earliest table of a set waits for none of the set.  *)
LEMMA FullOrderIsAcyclic ==
  ASSUME LoopInvariant, phase = "ordered",
         NEW C \in SUBSET selected, C # {}
  PROVE  ~Deadlocked(C)
<1> DEFINE positions == {i \in DOMAIN ordered : ordered[i] \in C}
<1>1. Placed(ordered) = selected /\ LeastFirst(ordered, selected, fks)
  BY FullLengthPlacesAll DEF LoopInvariant
<1>2. DOMAIN ordered = 1..Len(ordered) /\ Len(ordered) \in Nat
  BY LenProperties DEF LoopInvariant, OrderTypeOK
<1>3. positions # {} /\ positions \in SUBSET Nat
  BY <1>1, <1>2 DEF Placed
<1>4. PICK m \in positions : \A n \in positions : m <= n
  <2> HIDE DEF positions
  <2> QED
    BY <1>3, MinimumExists
<1>5. \A j \in 1..(m - 1) : ordered[j] \notin C
  BY <1>2, <1>4
<1>6. ParentsWithin(ordered[m], selected, fks) \subseteq {ordered[j] : j \in 1..(m - 1)}
  BY <1>1, <1>4 DEF LeastFirst, Unblocked
<1>7. ParentsWithin(ordered[m], selected, fks) \cap C = {}
  BY <1>5, <1>6
<1>8. QED
  BY <1>4, <1>7 DEF Deadlocked

(* A cycle is reported for the selections that have one and for no other.  *)
THEOREM CycleReportIsExact == OrderSpec => []CycleReportedExactly
<1>1. LoopInvariant => CycleReportedExactly
  <2> SUFFICES ASSUME LoopInvariant PROVE CycleReportedExactly
    OBVIOUS
  <2>1. ASSUME phase = "cycle"
        PROVE  \E C \in SUBSET selected : C # {} /\ Deadlocked(C)
    <3> DEFINE C == selected \ Placed(ordered)
    <3>1. C # {}
      <4>1. Cardinality(Placed(ordered)) # Cardinality(selected)
        BY <2>1 DEF LoopInvariant
      <4>2. Placed(ordered) \in SUBSET selected
        BY LenProperties, ElementOfSeq DEF LoopInvariant, OrderTypeOK, Placed
      <4>3. QED
        BY <4>1, <4>2
    <3>2. \A t \in C : ParentsWithin(t, selected, fks) \cap C # {}
      BY <2>1 DEF LoopInvariant, Unblocked, ParentsWithin
    <3>3. QED
      BY <3>1, <3>2 DEF Deadlocked
  <2>2. ASSUME phase = "ordered"
        PROVE  ~(\E C \in SUBSET selected : C # {} /\ Deadlocked(C))
    BY <2>2, FullOrderIsAcyclic
  <2>3. QED
    BY <2>1, <2>2 DEF CycleReportedExactly
<1>2. QED
  BY <1>1, LoopInvariantHolds, PTL

(* The canonical order of all tables is, on a subset closed under parents, *)
(* the canonical order of the subset.                                      *)
LEMMA SubsetOfCanonical ==
  ASSUME NEW o, NEW names, NEW parents, LeastFirst(o, names, parents),
         NEW S \in SUBSET names, ~HasExternalParent(S, parents)
  PROVE  LeastFirstWithin(o, S, parents)
<1> SUFFICES ASSUME NEW i \in DOMAIN o, o[i] \in S
             PROVE  LET open == Unblocked({o[j] : j \in 1..(i - 1)} \cap S, S, parents)
                    IN  o[i] \in open /\ \A t \in open : o[i] <= t
  BY DEF LeastFirstWithin
<1> DEFINE placed == {o[j] : j \in 1..(i - 1)}
<1>1. o[i] \in Unblocked(placed, names, parents)
      /\ \A t \in Unblocked(placed, names, parents) : o[i] <= t
  BY DEF LeastFirst
<1>2. \A t \in S : ParentsWithin(t, S, parents) = ParentsWithin(t, names, parents)
  BY DEF ParentsWithin, HasExternalParent
<1>3. \A t \in S : ParentsWithin(t, names, parents) \subseteq S
  BY DEF ParentsWithin, HasExternalParent
<1>4. Unblocked(placed \cap S, S, parents) = Unblocked(placed, names, parents) \cap S
  BY <1>2, <1>3 DEF Unblocked
<1>5. QED
  BY <1>1, <1>4

(* A partial import computes the order that a full export has written.     *)
THEOREM SubsetOrderIsKept == OrderSpec => []SubsetKeepsOrder
<1>1. LoopInvariant => SubsetKeepsOrder
  BY SubsetOfCanonical DEF LoopInvariant, SubsetKeepsOrder
<1>2. QED
  BY <1>1, LoopInvariantHolds, PTL

-----------------------------------------------------------------------------
(* Writing rows one at a time, and all over again.                         *)

LEMMA OverlayNothing ==
  ASSUME NEW c \in Contents, NEW rows
  PROVE  Overlay(c, rows, 0) = c
<1>1. \A k \in Key : Writers(rows, 0, k) = {} /\ Setters(rows, 0, k) = {}
  BY DEF Writers, Setters
<1>2. QED
  BY <1>1 DEF Overlay, Contents

(* What a row does to the contents: it sets the other columns, or, if it   *)
(* leaves them out, makes sure that there is a row.                        *)
OneRow(before, r) ==
  IF r.val # Omitted THEN r.val ELSE IF before = Absent THEN Default ELSE before

LEMMA OverlayOneMore ==
  ASSUME NEW c \in Contents, NEW rows, NEW n \in Nat, rows[n + 1].key \in Key,
         \A i \in 1..(n + 1) : rows[i].val # Absent
  PROVE  Overlay(c, rows, n + 1)
           = [Overlay(c, rows, n) EXCEPT ![rows[n + 1].key] = OneRow(@, rows[n + 1])]
<1> DEFINE key == rows[n + 1].key
           old == Overlay(c, rows, n)
           new == Overlay(c, rows, n + 1)
<1>1. ASSUME NEW k \in Key, k # key
      PROVE  new[k] = old[k]
  <2>1. Writers(rows, n + 1, k) = Writers(rows, n, k)
    BY <1>1 DEF Writers
  <2>2. Setters(rows, n + 1, k) = Setters(rows, n, k)
    BY <2>1 DEF Setters
  <2>3. LastSetter(rows, n + 1, k) = LastSetter(rows, n, k)
    BY <2>2, Zenon DEF LastSetter
  <2>4. QED
    BY <2>1, <2>2, <2>3 DEF Overlay
<1>2. CASE rows[n + 1].val # Omitted
  <2>1. /\ n + 1 \in Setters(rows, n + 1, key)
        /\ \A j \in Setters(rows, n + 1, key) : j <= n + 1
    BY <1>2 DEF Setters, Writers
  <2>2. \A i \in Setters(rows, n + 1, key) : n + 1 <= i => i = n + 1
    BY DEF Setters, Writers
  <2>3. LastSetter(rows, n + 1, key) = n + 1
    BY <2>1, <2>2 DEF LastSetter
  <2>4. new[key] = rows[n + 1].val
    BY <2>1, <2>3 DEF Overlay
  <2>5. QED
    BY <1>1, <1>2, <2>4 DEF Overlay, OneRow
<1>3. CASE rows[n + 1].val = Omitted
  <2>1. n + 1 \in Writers(rows, n + 1, key) /\ Setters(rows, n + 1, key) = Setters(rows, n, key)
    BY <1>3 DEF Setters, Writers
  <2>2. LastSetter(rows, n + 1, key) = LastSetter(rows, n, key)
    BY <2>1, Zenon DEF LastSetter
  <2>3. CASE Setters(rows, n, key) # {}
    <3>1. LastSetter(rows, n, key) \in Setters(rows, n, key)
      <4>1. Setters(rows, n, key) \in SUBSET (1..n)
        BY DEF Setters, Writers
      <4>2. \E i \in Setters(rows, n, key) : \A j \in Setters(rows, n, key) : j <= i
        BY <2>3, <4>1, LatestExists
      <4>3. QED
        BY <4>2 DEF LastSetter
    <3>2. new[key] = old[key] /\ old[key] # Absent
      BY <2>1, <2>2, <2>3, <3>1 DEF Overlay, Setters, Writers
    <3>3. QED
      BY <1>1, <1>3, <3>2 DEF Overlay, OneRow
  <2>4. CASE Setters(rows, n, key) = {}
    <3>1. new[key] = IF c[key] # Absent THEN c[key] ELSE Default
      BY <2>1, <2>4 DEF Overlay
    <3>2. old[key] = IF Writers(rows, n, key) = {} \/ c[key] # Absent THEN c[key] ELSE Default
      BY <2>4 DEF Overlay
    <3>3. new[key] = IF old[key] = Absent THEN Default ELSE old[key]
      BY <3>1, <3>2, AbsentAssumption
    <3>4. QED
      BY <1>1, <1>3, <3>3 DEF Overlay, OneRow
  <2>5. QED
    BY <2>3, <2>4
<1>4. QED
  BY <1>2, <1>3

LEMMA OverlayAgain ==
  ASSUME NEW c \in Contents, NEW rows, NEW n \in Nat
  PROVE  Overlay(Overlay(c, rows, n), rows, n) = Overlay(c, rows, n)
  BY AbsentAssumption DEF Overlay

-----------------------------------------------------------------------------
(* What the open block is.                                                 *)

LEMMA DocumentsTyped ==
  ASSUME TypeOK
  PROVE  file \in Seq(Block) /\ scanned \in Seq(Block) /\ replay \in Seq(Block)
<1>1. <<>> \in Seq(Block)
  BY EmptySeq
<1>2. QED
  BY <1>1, InputsAssumption DEF TypeOK

LEMMA CurrentTyped ==
  ASSUME TypeOK, block < Len(replay)
  PROVE  /\ block + 1 \in DOMAIN replay
         /\ Current.name \in Table
         /\ Current.rows \in Seq(Row)
         /\ Len(Current.rows) \in Nat
         /\ \A i \in 1..Len(Current.rows) : Current.rows[i] \in Row
<1>1. replay \in Seq(Block) /\ block \in Nat
  BY DocumentsTyped DEF TypeOK
<1>2. Current \in Block /\ block + 1 \in DOMAIN replay
  BY <1>1, ElementOfSeq, LenProperties DEF Current
<1>3. Current.name \in Table /\ Current.rows \in Seq(Row)
  BY <1>2 DEF Block
<1>4. QED
  BY <1>2, <1>3, ElementOfSeq, LenProperties

LEMMA CurrentIsFirst ==
  ASSUME TypeOK, block < Len(replay), ~IsRepeated
  PROVE  /\ RowsFor(replay, Current.name) = Current.rows
         /\ FitsFor(replay, Current.name) <=> Current.header = "fits"
<1> DEFINE same == {i \in DOMAIN replay : replay[i].name = Current.name}
<1>1. DOMAIN replay = 1..Len(replay) /\ Len(replay) \in Nat /\ block \in Nat
  BY DocumentsTyped, LenProperties DEF TypeOK
<1>2. block + 1 \in same /\ \A i \in same : block + 1 <= i
  BY <1>1, CurrentTyped DEF Current, IsRepeated
<1>3. Current.name \in Placed(NamesOf(replay))
  BY <1>2, Zenon DEF Placed, NamesOf
<1>4. same \in SUBSET Nat /\ same # {}
  BY <1>1, <1>2
<1>5. Least(same) = block + 1
  <2>1. Least(same) \in same /\ \A t \in same : Least(same) <= t
    BY <1>4, LeastProperties
  <2>2. Least(same) \in Nat /\ Least(same) <= block + 1 /\ block + 1 <= Least(same)
    BY <1>2, <1>4, <2>1
  <2>3. QED
    BY <1>1, <2>2
<1>6. QED
  BY <1>3, <1>5 DEF RowsFor, FitsFor, Current

-----------------------------------------------------------------------------
(* The invariant, action by action.                                        *)

Others == UNCHANGED <<file, origin, replaced>>

LEMMA InitInvariant == Init => ImportInvariant
<1> SUFFICES ASSUME Init PROVE ImportInvariant
  OBVIOUS
<1> USE DEF Init
<1>1. <<>> \in Seq(Table) /\ Len(<<>>) = 0
  BY EmptySeq
<1>2. TypeOK
  <2>1. store \in [Table -> Contents]
    BY StoresAssumption
  <2>2. pending \in Contents
    BY DEF Contents
  <2>3. QED
    BY <1>1, <2>1, <2>2, BoundsAssumption DEF TypeOK, Ended, Choice
<1>3. CommittedPrefix
  BY <1>1 DEF CommittedPrefix, Committed
<1>4. Committed = {}
  BY DEF Committed
<1>5. QED
  BY <1>1, <1>2, <1>3, <1>4 DEF ImportInvariant

LEMMA FailInvariant ==
  ASSUME ImportInvariant, Others, stage \in Running,
         NEW reason \in {"preflight", "structure", "duplicate_table", "order_changed", "value",
                         "null_key", "duplicate_key", "foreign_key", "incomplete", "database"},
         Fail(reason)
  PROVE  ImportInvariant'
<1> USE DEF ImportInvariant, Others, Fail
<1>1. why = "none"
  BY DEF Running
<1>2. TypeOK'
  BY DEF TypeOK, Ended
<1>3. CommittedPrefix'
  BY <1>1 DEF CommittedPrefix, Committed
<1>4. Committed' = Committed /\ NamesOf(replay)' = NamesOf(replay)
  BY <1>1 DEF Committed, NamesOf
<1>5. QED
  BY <1>2, <1>3, <1>4

LEMMA StartInvariant ==
  ASSUME ImportInvariant, Others, NEW m \in Modes, NEW opts \in Choices, Start(m, opts)
  PROVE  ImportInvariant'
<1> USE DEF ImportInvariant, Others, Start
<1>1. <<>> \in Seq(Table) /\ Len(<<>>) = 0
  BY EmptySeq
<1>2. TypeOK'
  BY <1>1, InputsAssumption, BoundsAssumption DEF TypeOK, Running
<1>3. CommittedPrefix'
  BY <1>1 DEF CommittedPrefix, Committed
<1>4. Committed' = {}
  BY DEF Committed
<1>5. QED
  BY <1>1, <1>2, <1>3, <1>4

(* The plan the preflight makes is a sequence of tables without repetition. *)
LEMMA PlanTyped ==
  ASSUME TypeOK, PreflightAccepts(file, mode, choice),
         NEW o \in Plans(file, ChosenTables(file, choice))
  PROVE  o \in Seq(Table) /\ \A i, j \in DOMAIN o : o[i] = o[j] => i = j
<1> DEFINE names == ChosenTables(file, choice)
           available == Placed(NamesOf(file))
<1>1. NamesOf(file) \in Seq(Table)
  <2>1. file \in Seq(Block)
    BY DocumentsTyped
  <2>2. /\ DOMAIN file = 1..Len(file) /\ Len(file) \in Nat
        /\ \A i \in DOMAIN file : file[i] \in Block
    BY <2>1, LenProperties, ElementOfSeq
  <2>3. NamesOf(file) \in [1..Len(file) -> Table]
    BY <2>2 DEF NamesOf, Block
  <2>4. QED
    BY <2>2, <2>3
<1>2. available \subseteq Table /\ IsFiniteSet(available)
  BY <1>1, PlacedIsFinite
<1>3. names \subseteq available
  BY DEF PreflightAccepts, SelectionAccepted, ChosenTables, Chosen
<1>4. IsFiniteSet(names) /\ names \subseteq Table
  BY <1>2, <1>3, FS_Subset
<1>5. Cardinality(names) \in Nat
  BY <1>4, FS_CardinalityType
<1>6. o \in [1..Cardinality(names) -> names] /\ LeastFirst(o, names, Parents)
  BY DEF Plans, IsCanonicalOrder
<1>7. o \in Seq(Table)
  <2>1. o \in [1..Cardinality(names) -> Table]
    BY <1>4, <1>6
  <2>2. QED
    BY <1>5, <2>1
<1>8. QED
  BY <1>5, <1>6, <1>7, CanonicalIsInjective

LEMMA AcceptFileInvariant ==
  ASSUME ImportInvariant, Others, AcceptFile
  PROVE  ImportInvariant'
<1> USE DEF ImportInvariant, Others, AcceptFile
<1>1. plan' \in Seq(Table) /\ \A i, j \in DOMAIN plan' : plan'[i] = plan'[j] => i = j
  BY PlanTyped
<1>2. TypeOK'
  BY <1>1 DEF TypeOK, Running
<1>3. CommittedPrefix'
  <2>1. Len(plan') \in Nat
    BY <1>1, LenProperties
  <2>2. Committed = {} /\ Committed' = {}
    BY DEF Committed
  <2>3. QED
    BY <2>1, <2>2 DEF CommittedPrefix
<1>4. Committed' = {}
  BY DEF Committed
<1>5. QED
  BY <1>1, <1>2, <1>3, <1>4

LEMMA OpenReplayInvariant ==
  ASSUME ImportInvariant, Others, OpenReplay
  PROVE  ImportInvariant'
<1> USE DEF ImportInvariant, Others, OpenReplay
<1>1. TypeOK'
  BY DEF TypeOK, Running
<1>2. CommittedPrefix'
  <2>1. Committed = {} /\ Committed' = {}
    BY DEF Committed
  <2>2. QED
    BY <2>1 DEF CommittedPrefix
<1>3. block' <= Len(replay')
  BY DocumentsTyped, LenProperties, InputsAssumption DEF TypeOK
<1>4. Committed' = {}
  BY DEF Committed
<1>5. QED
  BY <1>1, <1>2, <1>3, <1>4

LEMMA SkipBlockInvariant ==
  ASSUME ImportInvariant, Others, SkipBlock
  PROVE  ImportInvariant'
<1> USE DEF ImportInvariant, Others, SkipBlock, AtBlock
<1>1. TypeOK'
  BY DEF TypeOK
<1>2. CommittedPrefix'
  BY DEF CommittedPrefix, Committed
<1>3. block' <= Len(replay')
  BY DocumentsTyped, LenProperties DEF TypeOK
<1>4. Committed' = Committed /\ NamesOf(replay)' = NamesOf(replay)
  BY DEF Committed, NamesOf
<1>5. QED
  BY <1>1, <1>2, <1>3, <1>4

LEMMA BeginTableInvariant ==
  ASSUME ImportInvariant, Others, BeginTable
  PROVE  ImportInvariant'
<1> USE DEF ImportInvariant, Others, BeginTable, AtBlock
<1>1. Current.name \in Table /\ Len(Current.rows) \in Nat
  BY CurrentTyped
<1>2. store[Current.name] \in Contents
  BY <1>1 DEF TypeOK
<1>3. TypeOK'
  BY <1>2 DEF TypeOK, Running
<1>4. CommittedPrefix'
  BY DEF CommittedPrefix, Committed
<1>5. Current' = Current /\ (~IsRepeated)' /\ IsNext'
  BY DEF Current, IsRepeated, IsNext
<1>6. pending' = Overlay(store[Current.name], Current.rows, 0)
  BY <1>2, OverlayNothing
<1>7. Committed' = Committed /\ NamesOf(replay)' = NamesOf(replay)
  BY DEF Committed, NamesOf
<1>8. QED
  BY <1>1, <1>3, <1>4, <1>5, <1>6, <1>7

(* A row of a block that fits is written by its own key.                   *)
LEMMA RowWritten ==
  ASSUME ImportInvariant, WriteRow, Current.header = "fits"
  PROVE  pending' = [pending EXCEPT ![CurrentRow.key] = OneRow(@, CurrentRow)]
<1> USE DEF WriteRow, AtRow
<1>1. pending \in Contents /\ CurrentRow.key \notin KeysIn(pending) \ Found(CurrentRow)
  BY DEF ImportInvariant, TypeOK, Accepted, Refused
<1>2. Found(CurrentRow) = KeysIn(pending) \cap {CurrentRow.key}
  <2>1. CASE mode = "insert"
    BY <1>1, <2>1 DEF Found
  <2>2. CASE mode # "insert"
    BY <2>2 DEF Found
  <2>3. QED
    BY <2>1, <2>2
<1>3. ASSUME NEW k \in Key, k # CurrentRow.key PROVE pending'[k] = pending[k]
  BY <1>2, <1>3
<1>4. ASSUME CurrentRow.key \in Key
      PROVE  pending'[CurrentRow.key] = OneRow(pending[CurrentRow.key], CurrentRow)
  BY <1>2, <1>4 DEF OneRow, Given, KeysIn
<1>5. QED
  BY <1>1, <1>3, <1>4 DEF Contents

LEMMA WriteRowInvariant ==
  ASSUME ImportInvariant, Others, WriteRow
  PROVE  ImportInvariant'
<1> USE DEF ImportInvariant, Others, WriteRow, AtRow
<1>1. /\ Current.name \in Table /\ Len(Current.rows) \in Nat
      /\ CurrentRow \in Row /\ row \in Nat
      /\ \A i \in 1..(row + 1) : Current.rows[i] \in Row
  BY CurrentTyped DEF CurrentRow, TypeOK
<1>2. CurrentRow.key \in Key /\ Given(CurrentRow) \in Value
  BY <1>1, AbsentAssumption DEF Accepted, Refused, Undecodable, Row, Given
<1>3. TypeOK'
  <2>1. pending' \in Contents
    BY <1>2 DEF TypeOK, Contents
  <2>2. QED
    BY <1>1, <2>1 DEF TypeOK
<1>4. CommittedPrefix'
  BY DEF CommittedPrefix, Committed
<1>5. Current' = Current /\ (~IsRepeated)' /\ IsNext'
  BY DEF Current, IsRepeated, IsNext
<1>6. Current.header = "fits" => pending' = Overlay(store[Current.name], Current.rows, row + 1)
  <2>1. store[Current.name] \in Contents
    BY <1>1 DEF TypeOK
  <2>2. \A i \in 1..(row + 1) : Current.rows[i].val # Absent
    BY <1>1, AbsentAssumption, MarkersAssumption DEF Row
  <2>3. Current.rows[row + 1] = CurrentRow
    BY DEF CurrentRow
  <2>4. QED
    BY <1>1, <1>2, <2>1, <2>2, <2>3, OverlayOneMore, RowWritten
<1>7. Committed' = Committed /\ NamesOf(replay)' = NamesOf(replay)
  BY DEF Committed, NamesOf
<1>8. QED
  BY <1>1, <1>3, <1>4, <1>5, <1>6, <1>7

(* The table a transaction has open is the next of the plan, untouched so  *)
(* far, and at its end pending holds all rows of the file if they fit.     *)
LEMMA OpenTable ==
  ASSUME ImportInvariant, AtBlockEnd
  PROVE  /\ Current.name \in Table /\ why = "none"
         /\ expected \in Nat /\ expected < Len(plan) /\ Current.name = plan[expected + 1]
         /\ Len(plan) \in Nat /\ DOMAIN plan = 1..Len(plan)
         /\ Current.name \notin Committed /\ Current.name \in Placed(NamesOf(replay))
         /\ store[Current.name] = base[Current.name]
         /\ pending \in Contents
         /\ FitsFor(replay, Current.name) =>
              pending = WrittenOver(base[Current.name], replay, Current.name)
<1> USE DEF ImportInvariant, AtBlockEnd
<1>1. Current.name \in Table
  BY CurrentTyped
<1>2. /\ why = "none" /\ expected \in Nat /\ expected < Len(plan)
      /\ Current.name = plan[expected + 1]
  BY DEF IsNext, TypeOK
<1>3. Len(plan) \in Nat /\ DOMAIN plan = 1..Len(plan)
  BY LenProperties DEF TypeOK
<1>4. Current.name \notin Committed
  BY <1>2, <1>3 DEF Committed
<1>5. store[Current.name] = base[Current.name]
  BY <1>1, <1>4 DEF CommittedPrefix
<1>6. /\ pending \in Contents
      /\ FitsFor(replay, Current.name) =>
           pending = WrittenOver(base[Current.name], replay, Current.name)
  BY <1>5, CurrentIsFirst DEF WrittenOver, TypeOK
<1>7. Current.name \in Placed(NamesOf(replay))
  BY CurrentTyped DEF Placed, NamesOf, Current
<1>8. QED
  BY <1>1, <1>2, <1>3, <1>4, <1>5, <1>6, <1>7

LEMMA CommitTableInvariant ==
  ASSUME ImportInvariant, Others, CommitTable
  PROVE  ImportInvariant'
<1> USE DEF ImportInvariant, Others, CommitTable
<1> DEFINE t == Current.name
<1>1. AtBlockEnd
  BY Zenon DEF AtBlockEnd
<1>2. /\ t \in Table /\ why = "none" /\ expected \in Nat /\ expected < Len(plan)
      /\ t = plan[expected + 1] /\ Len(plan) \in Nat
      /\ store[t] = base[t] /\ pending \in Contents
      /\ FitsFor(replay, t) => pending = WrittenOver(base[t], replay, t)
      /\ t \in Placed(NamesOf(replay))
  BY <1>1, OpenTable
<1>3. TypeOK'
  BY <1>2 DEF TypeOK, Running
<1>4. Committed' = Committed \cup {t}
  BY <1>2 DEF Committed
<1>5. CommittedPrefix'
  <2>1. ASSUME NEW u \in Table
        PROVE  IF u \in Committed'
               THEN FitsFor(replay, u) => store'[u] = WrittenOver(base[u], replay, u)
               ELSE store'[u] = base[u]
    <3>1. store \in [Table -> Contents]
      BY DEF TypeOK
    <3>2. CASE u = t
      BY <1>2, <1>4, <3>1, <3>2
    <3>3. CASE u # t
      BY <1>2, <1>4, <3>1, <3>3 DEF CommittedPrefix
    <3>4. QED
      BY <3>2, <3>3
  <2>2. QED
    BY <1>2, <2>1 DEF CommittedPrefix, WrittenOver, FitsFor
<1>6. block' <= Len(replay')
  BY DocumentsTyped, LenProperties DEF TypeOK, AtBlockEnd
<1>7. Committed' \subseteq Placed(NamesOf(replay)')
  BY <1>2, <1>4
<1>8. QED
  BY <1>2, <1>3, <1>5, <1>6, <1>7

LEMMA LoseCommitAnswerInvariant ==
  ASSUME ImportInvariant, Others, LoseCommitAnswer
  PROVE  ImportInvariant'
<1> USE DEF ImportInvariant, Others, LoseCommitAnswer
<1> DEFINE t == Current.name
<1>1. AtBlockEnd
  BY Zenon DEF AtBlockEnd
<1>2. /\ t \in Table /\ why = "none" /\ expected \in Nat /\ expected < Len(plan)
      /\ t = plan[expected + 1] /\ Len(plan) \in Nat
      /\ store[t] = base[t] /\ pending \in Contents
      /\ FitsFor(replay, t) => pending = WrittenOver(base[t], replay, t)
      /\ t \in Placed(NamesOf(replay))
  BY <1>1, OpenTable
<1>3. TypeOK'
  BY <1>2 DEF TypeOK, Ended
<1>4. Committed' = Committed \cup {t}
  BY <1>2 DEF Committed
<1>5. CommittedPrefix'
  <2>1. ASSUME NEW u \in Table
        PROVE  IF u \in Committed'
               THEN FitsFor(replay, u) => store'[u] = WrittenOver(base[u], replay, u)
               ELSE store'[u] = base[u]
    <3>1. store \in [Table -> Contents]
      BY DEF TypeOK
    <3>2. CASE u = t
      BY <1>2, <1>4, <3>1, <3>2
    <3>3. CASE u # t
      BY <1>2, <1>4, <3>1, <3>3 DEF CommittedPrefix
    <3>4. QED
      BY <3>2, <3>3
  <2>2. QED
    BY <1>2, <2>1 DEF CommittedPrefix, WrittenOver, FitsFor
<1>6. Committed' \subseteq Placed(NamesOf(replay)')
  BY <1>2, <1>4
<1>7. QED
  BY <1>2, <1>3, <1>5, <1>6

LEMMA FinishInvariant ==
  ASSUME ImportInvariant, Others, FinishReplay \/ Verify
  PROVE  ImportInvariant'
<1> USE DEF ImportInvariant, Others, FinishReplay, Verify, AtEnd
<1>1. TypeOK'
  BY DEF TypeOK, Running, Ended
<1>2. CommittedPrefix'
  BY DEF CommittedPrefix, Committed
<1>3. Committed' = Committed /\ NamesOf(replay)' = NamesOf(replay)
  BY DEF Committed, NamesOf
<1>4. QED
  BY <1>1, <1>2, <1>3

LEMMA ReplaceFileInvariant ==
  ASSUME ImportInvariant, ReplaceFile
  PROVE  ImportInvariant'
<1> USE DEF ImportInvariant, ReplaceFile, importer
<1>1. TypeOK'
  BY BoundsAssumption DEF TypeOK
<1>2. CommittedPrefix'
  BY DEF CommittedPrefix, Committed
<1>3. Current' = Current /\ (~IsRepeated)' = ~IsRepeated /\ IsNext' = IsNext
  BY DEF Current, IsRepeated, IsNext
<1>4. Committed' = Committed /\ NamesOf(replay)' = NamesOf(replay)
  BY DEF Committed, NamesOf
<1>5. QED
  BY <1>1, <1>2, <1>3, <1>4

(* The actions that end a run with an error.                               *)
LEMMA RejectionsFail ==
  ASSUME RejectFile \/ RejectRepeated \/ RejectSkipped \/ RejectReordered \/ RejectValue
           \/ RefuseRow \/ RejectBlock \/ RejectIncomplete \/ DatabaseFails
  PROVE  /\ stage \in Running
         /\ \E reason \in {"preflight", "structure", "duplicate_table", "order_changed", "value",
                           "null_key", "duplicate_key", "foreign_key", "incomplete", "database"} :
              Fail(reason)
<1>1. CASE RejectFile
  BY <1>1 DEF RejectFile, Running
<1>2. CASE RejectRepeated \/ RejectSkipped \/ RejectReordered
  BY <1>2 DEF RejectRepeated, RejectSkipped, RejectReordered, AtBlock, Running
<1>3. CASE RejectValue \/ RefuseRow
  BY <1>3 DEF RejectValue, RefuseRow, AtRow, Running
<1>4. CASE RejectBlock \/ RejectIncomplete
  BY <1>4 DEF RejectBlock, RejectIncomplete, AtBlockEnd, AtEnd, Running
<1>5. CASE DatabaseFails
  BY <1>5 DEF DatabaseFails
<1>6. QED
  BY <1>1, <1>2, <1>3, <1>4, <1>5

LEMMA NextInvariant == ImportInvariant /\ [Next]_vars => ImportInvariant'
<1> SUFFICES ASSUME ImportInvariant, [Next]_vars PROVE ImportInvariant'
  OBVIOUS
<1>1. ASSUME Others, NEW m \in Modes, NEW opts \in Choices, Start(m, opts)
      PROVE  ImportInvariant'
  BY <1>1, StartInvariant
<1>2. ASSUME Others,
             RejectFile \/ RejectRepeated \/ RejectSkipped \/ RejectReordered \/ RejectValue
               \/ RefuseRow \/ RejectBlock \/ RejectIncomplete \/ DatabaseFails
      PROVE  ImportInvariant'
  BY <1>2, RejectionsFail, FailInvariant, Zenon
<1>3. ASSUME Others, AcceptFile PROVE ImportInvariant'
  BY <1>3, AcceptFileInvariant
<1>4. ASSUME Others, OpenReplay PROVE ImportInvariant'
  BY <1>4, OpenReplayInvariant
<1>5. ASSUME Others, SkipBlock PROVE ImportInvariant'
  BY <1>5, SkipBlockInvariant
<1>6. ASSUME Others, BeginTable PROVE ImportInvariant'
  BY <1>6, BeginTableInvariant
<1>7. ASSUME Others, WriteRow PROVE ImportInvariant'
  BY <1>7, WriteRowInvariant
<1>8. ASSUME Others, CommitTable PROVE ImportInvariant'
  BY <1>8, CommitTableInvariant
<1>9. ASSUME Others, LoseCommitAnswer PROVE ImportInvariant'
  BY <1>9, LoseCommitAnswerInvariant
<1>10. ASSUME Others, FinishReplay \/ Verify PROVE ImportInvariant'
  BY <1>10, FinishInvariant
<1>11. CASE UNCHANGED vars
  <2>1. /\ TypeOK' = TypeOK /\ CommittedPrefix' = CommittedPrefix /\ Current' = Current
        /\ IsRepeated' = IsRepeated /\ IsNext' = IsNext
        /\ Committed' = Committed /\ NamesOf(replay)' = NamesOf(replay)
    BY <1>11 DEF vars, importer, TypeOK, CommittedPrefix, Committed, Current, IsRepeated, IsNext,
                 NamesOf
  <2>2. QED
    BY <1>11, <2>1 DEF vars, importer, ImportInvariant
<1>12. QED
  BY <1>1, <1>2, <1>3, <1>4, <1>5, <1>6, <1>7, <1>8, <1>9, <1>10, <1>11, ReplaceFileInvariant
     DEF Next, Run, Step, Others

-----------------------------------------------------------------------------
(* The theorems.                                                           *)

(* Every stage of every run knows what it must about its plan, its file    *)
(* and its transaction: the inductive invariant of import_sqlalchemy.      *)
THEOREM ImportInvariantHolds == Spec => []ImportInvariant
<1>1. QED
  BY InitInvariant, NextInvariant, PTL DEF Spec

(* Values that a column cannot take never reach a table, and the state of  *)
(* a run is always one the code can be in.                                 *)
THEOREM TypeCorrect == Spec => []TypeOK
<1>1. ImportInvariant => TypeOK
  BY DEF ImportInvariant
<1>2. QED
  BY <1>1, ImportInvariantHolds, PTL

(* However a run ends, the first tables of its plan hold all rows of the   *)
(* file and the others none: the transaction per block of _import_table.   *)
THEOREM OnlyWholeTables == Spec => []CommittedPrefix
<1>1. ImportInvariant => CommittedPrefix
  BY DEF ImportInvariant
<1>2. QED
  BY <1>1, ImportInvariantHolds, PTL

-----------------------------------------------------------------------------
(* The import implements WholeTableImport.                                 *)

(* Both modules speak of the same tables.                                  *)
LEMMA SameContents ==
  /\ Whole!Contents = Contents
  /\ \A c, rows, n : Whole!Overlay(c, rows, n) = Overlay(c, rows, n)
<1>1. Whole!Contents = Contents
  BY DEF Whole!Contents, Contents
<1>2. ASSUME NEW c, NEW rows, NEW n PROVE Whole!Overlay(c, rows, n) = Overlay(c, rows, n)
  BY DEF Whole!Overlay, Overlay, Whole!LastSetter, LastSetter, Whole!Setters, Setters,
         Whole!Writers, Writers
<1>3. QED
  BY <1>1, <1>2

(* The list of tables to come, seen from an open transaction.              *)
LEMMA AgendaAtBlockEnd ==
  ASSUME ImportInvariant, AtBlockEnd
  PROVE  /\ Agenda # <<>>
         /\ Head(Agenda).table = Current.name
         /\ Head(Agenda).rows = Current.rows
         /\ Head(Agenda).fits = FitsFor(replay, Current.name)
         /\ Tail(Agenda) = [i \in 1..(Len(plan) - (expected + 1)) |->
                             [table |-> plan[expected + 1 + i],
                              rows |-> RowsFor(replay, plan[expected + 1 + i]),
                              fits |-> FitsFor(replay, plan[expected + 1 + i])]]
<1> DEFINE n == Len(plan) - expected
           Job(i) == [table |-> plan[expected + i],
                      rows |-> RowsFor(replay, plan[expected + i]),
                      fits |-> FitsFor(replay, plan[expected + i])]
           jobs == [i \in 1..n |-> Job(i)]
<1>1. /\ expected \in Nat /\ Len(plan) \in Nat /\ expected < Len(plan)
      /\ Current.name = plan[expected + 1]
  BY OpenTable
<1>2. Agenda = jobs
  BY DEF Agenda, AtBlockEnd
<1>3. n \in Nat /\ n >= 1
  BY <1>1
<1>4. jobs \in Seq({Job(i) : i \in 1..n}) /\ Len(jobs) = n
  <2>1. jobs \in [1..n -> {Job(i) : i \in 1..n}]
    OBVIOUS
  <2>2. QED
    BY <1>3, <2>1, LenProperties
<1>5. jobs # <<>>
  BY <1>3, <1>4, EmptySeq
<1>6. Head(jobs) = Job(1)
  BY <1>3, <1>4, <1>5, HeadTailProperties
<1>7. Tail(jobs) = [i \in 1..(n - 1) |-> Job(i + 1)]
  <2>1. /\ Tail(jobs) \in Seq({Job(i) : i \in 1..n}) /\ Len(Tail(jobs)) = n - 1
        /\ \A i \in 1..(n - 1) : Tail(jobs)[i] = jobs[i + 1]
    BY <1>4, <1>5, HeadTailProperties
  <2>2. Tail(jobs) = [i \in 1..(n - 1) |-> Tail(jobs)[i]]
    BY <2>1, LenProperties
  <2>3. \A i \in 1..(n - 1) : Tail(jobs)[i] = Job(i + 1)
    BY <1>3, <2>1
  <2>4. QED
    BY <2>2, <2>3
<1>8. RowsFor(replay, Current.name) = Current.rows
  BY CurrentIsFirst DEF ImportInvariant, AtBlockEnd
<1>9. /\ Job(1).table = Current.name /\ Job(1).rows = Current.rows
      /\ Job(1).fits = FitsFor(replay, Current.name)
  BY <1>1, <1>8
<1>10. [i \in 1..(n - 1) |-> Job(i + 1)]
         = [i \in 1..(Len(plan) - (expected + 1)) |->
              [table |-> plan[expected + 1 + i],
               rows |-> RowsFor(replay, plan[expected + 1 + i]),
               fits |-> FitsFor(replay, plan[expected + 1 + i])]]
  <2>1. n - 1 = Len(plan) - (expected + 1)
    BY <1>1
  <2>2. \A i \in 1..(n - 1) : expected + (i + 1) = expected + 1 + i
    BY <1>1, <1>3
  <2>3. QED
    BY <2>1, <2>2
<1>11. QED
  BY <1>2, <1>5, <1>6, <1>7, <1>9, <1>10

(* Both ways a commit can end write the first table of the agenda.         *)
LEMMA CommitWritesTable ==
  ASSUME ImportInvariant, CommitTable \/ LoseCommitAnswer
  PROVE  Whole!WriteTable
<1>1. AtBlockEnd
  BY Zenon DEF CommitTable, LoseCommitAnswer, AtBlockEnd
<1>2. store' = [store EXCEPT ![Current.name] = pending]
  BY DEF CommitTable, LoseCommitAnswer
<1>3. /\ pending \in Contents
      /\ FitsFor(replay, Current.name) =>
           pending = Overlay(store[Current.name], Current.rows, Len(Current.rows))
  <2>1. FitsFor(replay, Current.name) => Current.header = "fits"
    BY <1>1, CurrentIsFirst DEF ImportInvariant, AtBlockEnd
  <2>2. QED
    BY <1>1, <2>1 DEF ImportInvariant, TypeOK, AtBlockEnd
<1>4. /\ Agenda # <<>>
      /\ Head(Agenda).table = Current.name
      /\ Head(Agenda).rows = Current.rows
      /\ Head(Agenda).fits = FitsFor(replay, Current.name)
  BY <1>1, AgendaAtBlockEnd
<1>5. Current.name \in Table /\ store \in [Table -> Contents]
  BY <1>1, OpenTable DEF ImportInvariant, TypeOK
<1>6. /\ pending \in Whole!Contents
      /\ Head(Agenda).fits =>
           pending = Whole!Overlay(store[Head(Agenda).table], Head(Agenda).rows,
                                   Len(Head(Agenda).rows))
      /\ store' = [store EXCEPT ![Head(Agenda).table] = pending]
  BY <1>2, <1>3, <1>4, <1>5, SameContents
<1>7. Agenda' \in {Tail(Agenda), <<>>}
  <2>1. CASE LoseCommitAnswer
    BY <2>1 DEF LoseCommitAnswer, Agenda
  <2>2. CASE CommitTable
    <3>1. Agenda' = [i \in 1..(Len(plan) - (expected + 1)) |->
                       [table |-> plan[expected + 1 + i],
                        rows |-> RowsFor(replay, plan[expected + 1 + i]),
                        fits |-> FitsFor(replay, plan[expected + 1 + i])]]
      BY <2>2 DEF CommitTable, Agenda
    <3>2. QED
      BY <1>1, <3>1, AgendaAtBlockEnd
  <2>3. QED
    BY <2>1, <2>2
<1>8. QED
  BY <1>4, <1>6, <1>7 DEF Whole!WriteTable

(* Steps that leave the agenda and the tables alone.                       *)
LEMMA QuietSteps ==
  ASSUME ImportInvariant,
         \/ \E m \in Modes, opts \in Choices : Start(m, opts)
         \/ AcceptFile \/ SkipBlock \/ BeginTable \/ WriteRow \/ FinishReplay \/ Verify
  PROVE  UNCHANGED <<store, Agenda>>
<1>1. CASE (\E m \in Modes, opts \in Choices : Start(m, opts)) \/ AcceptFile \/ Verify
  BY <1>1 DEF Start, AcceptFile, Verify, Agenda, Ended
<1>2. CASE SkipBlock \/ BeginTable \/ WriteRow
  BY <1>2 DEF SkipBlock, BeginTable, WriteRow, AtBlock, AtRow, Agenda
<1>3. CASE FinishReplay
  <2>1. Len(plan) \in Nat
    BY LenProperties DEF ImportInvariant, TypeOK
  <2>2. 1..(Len(plan) - expected) = {}
    BY <1>3, <2>1 DEF FinishReplay
  <2>3. Agenda = <<>>
    BY <1>3, <2>2 DEF FinishReplay, AtEnd, Agenda
  <2>4. QED
    BY <1>3, <2>3 DEF FinishReplay, Agenda
<1>4. QED
  BY <1>1, <1>2, <1>3

LEMMA StepsImplementWhole ==
  ImportInvariant /\ [Next]_vars => [Whole!Next]_(<<store, Agenda>>)
<1> SUFFICES ASSUME ImportInvariant, [Next]_vars PROVE [Whole!Next]_(<<store, Agenda>>)
  OBVIOUS
<1>1. CASE \/ \E m \in Modes, opts \in Choices : Start(m, opts)
           \/ AcceptFile \/ SkipBlock \/ BeginTable \/ WriteRow \/ FinishReplay \/ Verify
  BY <1>1, QuietSteps
<1>2. CASE RejectFile \/ RejectRepeated \/ RejectSkipped \/ RejectReordered \/ RejectValue
             \/ RefuseRow \/ RejectBlock \/ RejectIncomplete \/ DatabaseFails
  <2>1. stage' = "failed" /\ store' = store
    BY <1>2, RejectionsFail DEF Fail
  <2>2. QED
    BY <2>1 DEF Agenda, Whole!Next, Whole!Abandon
<1>3. CASE OpenReplay
  BY <1>3 DEF OpenReplay, Agenda, Whole!Next, Whole!Begin
<1>4. CASE CommitTable \/ LoseCommitAnswer
  BY <1>4, CommitWritesTable DEF Whole!Next
<1>5. CASE ReplaceFile \/ UNCHANGED vars
  BY <1>5 DEF ReplaceFile, vars, importer, Agenda
<1>6. QED
  BY <1>1, <1>2, <1>3, <1>4, <1>5 DEF Next, Run, Step

(* To other sessions an import only ever writes whole tables, in order,    *)
(* and may stop between any two of them: import_sqlalchemy, seen from the  *)
(* target database.                                                        *)
THEOREM ImplementsWholeTableImport == Spec => ImplementsWholeTables
<1>1. Init => Whole!Init
  BY StoresAssumption, SameContents DEF Init, Whole!Init, Agenda
<1>2. ImportInvariant /\ [Next]_vars => [Whole!Next]_(Whole!vars)
  BY StepsImplementWhole DEF Whole!vars
<1>3. Spec => Whole!Spec
  BY <1>1, <1>2, ImportInvariantHolds, PTL DEF Spec, Whole!Spec
<1>4. QED
  BY <1>3 DEF ImplementsWholeTables

-----------------------------------------------------------------------------
(* What the first pass has seen.                                           *)

(* A document that is accepted has a table to import.                      *)
LEMMA AcceptedIsNotEmpty ==
  ASSUME NEW doc, NEW m, NEW opts, PreflightAccepts(doc, m, opts)
  PROVE  doc # <<>>
<1>1. Placed(NamesOf(<<>>)) = {}
  BY DEF Placed, NamesOf
<1>2. QED
  BY <1>1 DEF PreflightAccepts, SelectionAccepted, Chosen

(* The plan holds just the chosen tables, all of them in the document and  *)
(* in its order, and every table after the parents it has.                 *)
LEMMA PlanFacts ==
  ASSUME ImportInvariant, PlanInvariant, scanned # <<>>
  PROVE  /\ \A i \in DOMAIN scanned : scanned[i].whole
         /\ \A i, j \in DOMAIN scanned : scanned[i].name = scanned[j].name => i = j
         /\ \A i \in DOMAIN scanned :
              scanned[i].name \in Placed(plan) =>
                /\ scanned[i].header = "fits"
                /\ mode = "upsert" =>
                     \A r \in DOMAIN scanned[i].rows : scanned[i].rows[r].key # NullKey
         /\ Placed(plan) \subseteq {scanned[i].name : i \in DOMAIN scanned}
         /\ InFileOrder(plan, scanned)
         /\ \A i \in DOMAIN plan :
              Parents[plan[i]] \ {plan[i]} \subseteq {plan[j] : j \in 1..(i - 1)}
<1> DEFINE names == ChosenTables(scanned, choice)
<1>1. /\ ScanAccepts(scanned, mode)
      /\ SelectionAccepted(Placed(NamesOf(scanned)), choice)
      /\ ~HasExternalParent(names, Parents) /\ TargetsFit(scanned, names)
      /\ IsCanonicalOrder(plan, names, Parents) /\ InFileOrder(plan, scanned)
  BY DEF PlanInvariant, PreflightAccepts, Plans
<1>2. Placed(NamesOf(scanned)) = {scanned[i].name : i \in DOMAIN scanned}
  BY DEF Placed, NamesOf
<1>3. names \subseteq Placed(NamesOf(scanned))
  BY <1>1 DEF ChosenTables, Chosen, SelectionAccepted
<1>4. Placed(plan) = names
  BY <1>1 DEF IsCanonicalOrder
<1>5. ASSUME NEW i \in DOMAIN plan
      PROVE  Parents[plan[i]] \ {plan[i]} \subseteq {plan[j] : j \in 1..(i - 1)}
  <2>1. plan[i] \in names
    BY <1>4 DEF Placed
  <2>2. Parents[plan[i]] \subseteq names
    BY <1>1, <2>1 DEF HasExternalParent
  <2>3. ParentsWithin(plan[i], names, Parents) \subseteq {plan[j] : j \in 1..(i - 1)}
    BY <1>1 DEF IsCanonicalOrder, LeastFirst, Unblocked
  <2>4. QED
    BY <2>2, <2>3 DEF ParentsWithin
<1>6. QED
  BY <1>1, <1>2, <1>3, <1>4, <1>5 DEF ScanAccepts, TargetsFit

(* The types of a run's positions.                                         *)
LEMMA PositionTyped ==
  ASSUME ImportInvariant
  PROVE  /\ expected \in Nat /\ block \in Nat /\ row \in Nat
         /\ Len(plan) \in Nat /\ DOMAIN plan = 1..Len(plan) /\ expected <= Len(plan)
         /\ Len(replay) \in Nat /\ DOMAIN replay = 1..Len(replay)
         /\ \A i, j \in DOMAIN plan : plan[i] = plan[j] => i = j
<1>1. /\ plan \in Seq(Table) /\ expected \in Nat /\ block \in Nat /\ row \in Nat
      /\ replay \in Documents \cup {<<>>}
  BY DEF ImportInvariant, TypeOK
<1>2. replay \in Seq(Block)
  BY DocumentsTyped DEF ImportInvariant
<1>3. /\ Len(plan) \in Nat /\ DOMAIN plan = 1..Len(plan)
      /\ Len(replay) \in Nat /\ DOMAIN replay = 1..Len(replay)
  BY <1>1, <1>2, LenProperties
<1>4. QED
  BY <1>1, <1>3 DEF ImportInvariant, CommittedPrefix

-----------------------------------------------------------------------------
(* The second pass over the same document.                                 *)

SecondPass == stage \in {"replay", "table"} /\ replay = scanned

(* The next selected block is the next table of the plan, and no block     *)
(* comes twice or ends early.                                              *)
LEMMA SamePassBlock ==
  ASSUME ImportInvariant, PlanInvariant, SecondPass, block < Len(replay)
  PROVE  ~IsRepeated /\ Current.whole /\ (IsSelected => IsNext)
<1>1. /\ scanned # <<>> /\ replay = scanned
      /\ {plan[i] : i \in 1..expected} = {replay[i].name : i \in 1..block} \cap Placed(plan)
  BY DEF PlanInvariant, SecondPass
<1>2. /\ expected \in Nat /\ block \in Nat
      /\ Len(plan) \in Nat /\ DOMAIN plan = 1..Len(plan) /\ expected <= Len(plan)
      /\ Len(replay) \in Nat /\ DOMAIN replay = 1..Len(replay)
      /\ \A i, j \in DOMAIN plan : plan[i] = plan[j] => i = j
  BY PositionTyped
<1>3. block + 1 \in DOMAIN replay /\ 1..block \subseteq DOMAIN replay
  BY <1>2
<1>4. /\ \A i \in DOMAIN replay : replay[i].whole
      /\ \A i, j \in DOMAIN replay : replay[i].name = replay[j].name => i = j
      /\ Placed(plan) \subseteq {replay[i].name : i \in DOMAIN replay}
      /\ InFileOrder(plan, replay)
  BY <1>1, PlanFacts
<1>5. ~IsRepeated /\ Current.whole
  BY <1>2, <1>3, <1>4 DEF IsRepeated, Current
<1>6. ASSUME IsSelected PROVE IsNext
  <2>1. PICK p \in DOMAIN plan : plan[p] = Current.name
    BY <1>6 DEF IsSelected, Placed
  <2>2. \A i \in 1..block : replay[i].name # Current.name
    BY <1>5 DEF IsRepeated
  <2>3. p \notin 1..expected
    BY <1>1, <2>1, <2>2
  <2>4. expected + 1 \in DOMAIN plan /\ expected + 1 <= p
    BY <1>2, <2>1, <2>3
  <2>5. PICK x \in DOMAIN replay : replay[x].name = plan[expected + 1]
    BY <1>4, <2>4 DEF Placed
  <2>6. CASE p = expected + 1
    BY <1>2, <2>1, <2>4, <2>6 DEF IsNext
  <2>7. CASE expected + 1 < p
    <3>1. x < block + 1
      BY <1>3, <1>4, <2>1, <2>4, <2>5, <2>7 DEF InFileOrder, Current
    <3>2. x \in 1..block
      BY <1>2, <2>5, <3>1
    <3>3. plan[expected + 1] \in {plan[i] : i \in 1..expected}
      BY <1>1, <2>4, <2>5, <3>2 DEF Placed
    <3>4. QED
      BY <1>2, <2>4, <3>3
  <2>8. QED
    BY <1>2, <2>1, <2>4, <2>6, <2>7
<1>7. QED
  BY <1>5, <1>6

(* At the end of the document every table of the plan has been met.        *)
LEMMA SamePassEnd ==
  ASSUME ImportInvariant, PlanInvariant, SecondPass, block = Len(replay)
  PROVE  expected = Len(plan)
<1>1. /\ scanned # <<>> /\ replay = scanned
      /\ {plan[i] : i \in 1..expected} = {replay[i].name : i \in 1..block} \cap Placed(plan)
  BY DEF PlanInvariant, SecondPass
<1>2. /\ DOMAIN plan = 1..Len(plan) /\ DOMAIN replay = 1..Len(replay)
      /\ \A i, j \in DOMAIN plan : plan[i] = plan[j] => i = j
  BY PositionTyped
<1>3. expected \in Nat /\ Len(plan) \in Nat /\ expected <= Len(plan)
  BY PositionTyped
<1>4. Placed(plan) \subseteq {plan[i] : i \in 1..expected}
  BY <1>1, <1>2, PlanFacts
<1>5. ASSUME expected < Len(plan) PROVE FALSE
  <2>1. expected + 1 \in 1..Len(plan)
    BY <1>3, <1>5
  <2>2. expected + 1 \in DOMAIN plan
    BY <1>2, <2>1
  <2>3. plan[expected + 1] \in {plan[i] : i \in 1..expected}
    BY <1>4, <2>2 DEF Placed
  <2>4. PICK i \in 1..expected : plan[i] = plan[expected + 1]
    BY <2>3
  <2>5. i \in 1..Len(plan) /\ i # expected + 1
    BY <1>3, <2>4
  <2>6. QED
    BY <1>2, <2>2, <2>4, <2>5
<1>6. QED
  BY <1>3, <1>5

-----------------------------------------------------------------------------
(* What a run knows of its plan, action by action.                         *)

LEMMA PlanInit == Init => PlanInvariant
  BY DEF Init, PlanInvariant

LEMMA PlanStart ==
  ASSUME PlanInvariant, NEW m \in Modes, NEW opts \in Choices, Start(m, opts)
  PROVE  PlanInvariant'
  BY DEF PlanInvariant, Start

LEMMA PlanAcceptFile ==
  ASSUME PlanInvariant, AcceptFile
  PROVE  PlanInvariant'
<1>1. scanned' # <<>>
  BY AcceptedIsNotEmpty DEF AcceptFile
<1>2. QED
  BY <1>1 DEF PlanInvariant, AcceptFile

LEMMA PlanOpenReplay ==
  ASSUME ImportInvariant, PlanInvariant, OpenReplay
  PROVE  PlanInvariant'
<1>1. block' = 0 /\ expected' = 0
  BY DEF ImportInvariant, OpenReplay
<1>2. {plan[i] : i \in 1..expected}' = {} /\ {replay[i].name : i \in 1..block}' = {}
  BY <1>1
<1>3. QED
  BY <1>2 DEF PlanInvariant, OpenReplay

(* One block more has been met.                                            *)
LEMMA OneBlockMore ==
  ASSUME ImportInvariant
  PROVE
    {replay[i].name : i \in 1..(block + 1)}
      = {replay[i].name : i \in 1..block} \cup {Current.name}
<1>1. block \in Nat
  BY PositionTyped
<1>2. 1..(block + 1) = (1..block) \cup {block + 1}
  BY <1>1
<1>3. QED
  BY <1>2 DEF Current

LEMMA PlanSkipBlock ==
  ASSUME ImportInvariant, PlanInvariant, SkipBlock
  PROVE  PlanInvariant'
<1> DEFINE met(n) == {replay[i].name : i \in 1..n} \cap Placed(plan)
<1>1. met(block + 1) = met(block)
  BY OneBlockMore DEF SkipBlock, IsSelected
<1>2. /\ {plan[i] : i \in 1..expected}' = {plan[i] : i \in 1..expected}
      /\ ({replay[i].name : i \in 1..block} \cap Placed(plan))' = met(block + 1)
  BY DEF SkipBlock, Placed
<1>3. QED
  BY <1>1, <1>2 DEF PlanInvariant, SkipBlock, AtBlock

LEMMA PlanCommitTable ==
  ASSUME ImportInvariant, PlanInvariant, CommitTable
  PROVE  PlanInvariant'
<1> DEFINE met(n) == {replay[i].name : i \in 1..n} \cap Placed(plan)
           written(n) == {plan[i] : i \in 1..n}
<1>1. AtBlockEnd
  BY Zenon DEF CommitTable, AtBlockEnd
<1>2. /\ Current.name = plan[expected + 1] /\ expected \in Nat
      /\ expected + 1 \in DOMAIN plan
  BY <1>1, OpenTable
<1>3. written(expected + 1) = written(expected) \cup {Current.name}
  BY <1>2
<1>4. met(block + 1) = met(block) \cup {Current.name}
  BY <1>2, OneBlockMore DEF Placed
<1>5. /\ {plan[i] : i \in 1..expected}' = written(expected + 1)
      /\ ({replay[i].name : i \in 1..block} \cap Placed(plan))' = met(block + 1)
  BY DEF CommitTable, Placed
<1>6. replay' = scanned' => written(expected) = met(block)
  BY <1>1 DEF PlanInvariant, CommitTable, AtBlockEnd
<1>7. QED
  BY <1>1, <1>3, <1>4, <1>5, <1>6 DEF PlanInvariant, CommitTable, AtBlockEnd

(* Steps that leave the plan and the position in the file alone.           *)
LEMMA PlanKept ==
  ASSUME PlanInvariant,
         UNCHANGED <<mode, choice, scanned, plan, replay, block, expected>>,
         \/ stage' = stage
         \/ stage' = "failed" /\ stage # "idle"
         \/ stage \in {"replay", "table"} /\ stage' \in {"replay", "table", "verify"}
         \/ stage = "verify" /\ stage' = "done"
  PROVE  PlanInvariant'
<1>1. /\ {plan[i] : i \in 1..expected}' = {plan[i] : i \in 1..expected}
      /\ ({replay[i].name : i \in 1..block} \cap Placed(plan))'
            = {replay[i].name : i \in 1..block} \cap Placed(plan)
  BY DEF Placed
<1>2. QED
  BY <1>1 DEF PlanInvariant

LEMMA PlanNext == ImportInvariant /\ PlanInvariant /\ [Next]_vars => PlanInvariant'
<1> SUFFICES ASSUME ImportInvariant, PlanInvariant, [Next]_vars PROVE PlanInvariant'
  OBVIOUS
<1>1. CASE \E m \in Modes, opts \in Choices : Start(m, opts)
  BY <1>1, PlanStart
<1>2. CASE RejectFile \/ RejectRepeated \/ RejectSkipped \/ RejectReordered \/ RejectValue
             \/ RefuseRow \/ RejectBlock \/ RejectIncomplete \/ DatabaseFails
  <2>1. /\ stage' = "failed" /\ stage # "idle"
        /\ UNCHANGED <<mode, choice, scanned, plan, replay, block, expected>>
    BY <1>2, RejectionsFail DEF Fail, Running
  <2>2. QED
    BY <2>1, PlanKept
<1>3. CASE AcceptFile \/ OpenReplay \/ SkipBlock \/ CommitTable
  BY <1>3, PlanAcceptFile, PlanOpenReplay, PlanSkipBlock, PlanCommitTable
<1>4. CASE BeginTable
  BY <1>4, PlanKept DEF BeginTable, AtBlock
<1>5. CASE WriteRow
  BY <1>5, PlanKept DEF WriteRow
<1>6. CASE LoseCommitAnswer
  BY <1>6, PlanKept DEF LoseCommitAnswer, AtBlockEnd
<1>7. CASE FinishReplay
  BY <1>7, PlanKept DEF FinishReplay, AtEnd
<1>8. CASE Verify
  BY <1>8, PlanKept DEF Verify
<1>9. CASE ReplaceFile \/ UNCHANGED vars
  BY <1>9, PlanKept DEF ReplaceFile, vars, importer
<1>10. QED
  BY <1>1, <1>2, <1>3, <1>4, <1>5, <1>6, <1>7, <1>8, <1>9 DEF Next, Run, Step

(* A run never works from a plan its first pass did not check, and while   *)
(* its second pass reads the same file it is where the plan says.          *)
THEOREM PlanInvariantHolds == Spec => []PlanInvariant
<1>1. QED
  BY PlanInit, PlanNext, ImportInvariantHolds, PTL DEF Spec

-----------------------------------------------------------------------------
(* What a success says.                                                    *)

(* Every table of a plan fits the target in the file that was checked.     *)
LEMMA PlanFits ==
  ASSUME ImportInvariant, PlanInvariant, scanned # <<>>, NEW t \in Placed(plan)
  PROVE  FitsFor(scanned, t)
<1> DEFINE same == {i \in DOMAIN scanned : scanned[i].name = t}
<1>1. DOMAIN scanned = 1..Len(scanned)
  BY DocumentsTyped, LenProperties DEF ImportInvariant
<1>2. PICK x \in DOMAIN scanned : scanned[x].name = t
  BY PlanFacts
<1>3. same \in SUBSET Nat /\ same # {}
  BY <1>1, <1>2
<1>4. Least(same) \in same
  BY <1>3, LeastProperties
<1>5. \A i \in same : scanned[i].header = "fits"
  BY PlanFacts
<1>6. QED
  BY <1>4, <1>5 DEF FitsFor

(* A reported success means every selected table is written in full, in    *)
(* the file that was checked or as far as a later one fits the target.     *)
THEOREM SuccessIsComplete == Spec => []DoneIsComplete
<1>1. ImportInvariant /\ PlanInvariant => DoneIsComplete
  <2> SUFFICES ASSUME ImportInvariant, PlanInvariant, stage = "done" PROVE DoneIsComplete
    BY DEF DoneIsComplete
  <2>1. /\ why = "none" /\ expected = Len(plan) /\ CommittedPrefix
        /\ Committed \subseteq Placed(NamesOf(replay)) /\ scanned # <<>>
    BY DEF ImportInvariant, PlanInvariant
  <2>2. DOMAIN plan = 1..Len(plan)
    BY LenProperties DEF ImportInvariant, TypeOK
  <2>3. Committed = Placed(plan)
    BY <2>1, <2>2 DEF Committed, Placed
  <2>4. ASSUME NEW t \in Placed(plan), replay = scanned PROVE FitsFor(replay, t)
    BY <2>1, <2>4, PlanFits
  <2>5. QED
    BY <2>1, <2>3, <2>4 DEF CommittedPrefix, DoneIsComplete
<1>2. QED
  BY <1>1, ImportInvariantHolds, PlanInvariantHolds, PTL

-----------------------------------------------------------------------------
(* Partial success and retry.                                              *)

(* While the file stays what it was, a run starts from, and leaves, tables *)
(* that are as they were at first or overwritten by the file.              *)
Rewritten(t) == {origin[t], WrittenOver(origin[t], file, t)}

RetryInvariant ==
  replaced = 0 =>
    /\ \A t \in Table : store[t] \in Rewritten(t) /\ base[t] \in Rewritten(t)
    /\ stage \in {"open", "replay", "table"} => scanned = file
    /\ stage \in {"replay", "table"} => replay = file

LEMMA RetryStep ==
  ImportInvariant /\ PlanInvariant /\ RetryInvariant /\ [Next]_vars => RetryInvariant'
<1> SUFFICES ASSUME ImportInvariant, PlanInvariant, RetryInvariant, [Next]_vars, replaced' = 0
             PROVE  RetryInvariant'
  BY DEF RetryInvariant
<1>1. ~ReplaceFile
  BY DEF ReplaceFile, ImportInvariant, TypeOK
<1>2. file' = file /\ origin' = origin /\ replaced = 0 /\ \A t : Rewritten(t)' = Rewritten(t)
  BY <1>1 DEF Next, vars, Rewritten, WrittenOver
<1>3. CASE \E m \in Modes, opts \in Choices : Start(m, opts)
  BY <1>2, <1>3 DEF RetryInvariant, Start
<1>4. CASE RejectFile \/ RejectRepeated \/ RejectSkipped \/ RejectReordered \/ RejectValue
             \/ RefuseRow \/ RejectBlock \/ RejectIncomplete \/ DatabaseFails
  <2>1. stage' = "failed" /\ store' = store /\ base' = base
    BY <1>4, RejectionsFail DEF Fail
  <2>2. QED
    BY <1>2, <2>1 DEF RetryInvariant
<1>5. CASE AcceptFile \/ OpenReplay
  BY <1>2, <1>5 DEF RetryInvariant, AcceptFile, OpenReplay
<1>6. CASE SkipBlock \/ BeginTable \/ WriteRow
  BY <1>2, <1>6 DEF RetryInvariant, SkipBlock, BeginTable, WriteRow, AtBlock, AtRow
<1>7. CASE FinishReplay \/ Verify
  BY <1>2, <1>7 DEF RetryInvariant, FinishReplay, Verify
<1>8. CASE CommitTable \/ LoseCommitAnswer
  <2> DEFINE t == Current.name
  <2>1. AtBlockEnd
    BY <1>8, Zenon DEF CommitTable, LoseCommitAnswer, AtBlockEnd
  <2>2. /\ t \in Table /\ pending = WrittenOver(base[t], replay, t)
        /\ store \in [Table -> Contents]
    <3>1. scanned # <<>> /\ replay = scanned
      BY <1>2, <2>1 DEF RetryInvariant, PlanInvariant, AtBlockEnd
    <3>2. t \in Placed(plan)
      BY <2>1, OpenTable DEF Placed
    <3>3. FitsFor(replay, t)
      BY <3>1, <3>2, PlanFits
    <3>4. QED
      BY <2>1, <3>3, OpenTable DEF ImportInvariant, TypeOK
  <2>3. /\ replay = file /\ base[t] \in Rewritten(t)
        /\ \A u \in Table : store[u] \in Rewritten(u) /\ base[u] \in Rewritten(u)
    BY <1>2, <2>1, <2>2 DEF RetryInvariant, AtBlockEnd
  <2>4. pending \in Rewritten(t)
    <3>1. origin[t] \in Contents
      BY <2>2 DEF ImportInvariant, TypeOK
    <3>2. Len(RowsFor(file, t)) \in Nat
      <4>1. RowsFor(file, t) = Current.rows
        BY <2>1, <2>3, CurrentIsFirst DEF ImportInvariant, AtBlockEnd
      <4>2. Len(Current.rows) \in Nat
        BY <2>1, CurrentTyped DEF ImportInvariant, AtBlockEnd
      <4>3. QED
        BY <4>1, <4>2
    <3>3. WrittenOver(WrittenOver(origin[t], file, t), file, t) = WrittenOver(origin[t], file, t)
      BY <3>1, <3>2, OverlayAgain DEF WrittenOver
    <3>4. QED
      BY <2>2, <2>3, <3>3, Zenon DEF Rewritten
  <2>5. store' = [store EXCEPT ![t] = pending] /\ base' = base /\ replay' = replay
    BY <1>8 DEF CommitTable, LoseCommitAnswer
  <2>6. \A u \in Table : store'[u] \in Rewritten(u)
    BY <2>2, <2>3, <2>4, <2>5
  <2>7. scanned' = file' /\ stage' # "open" /\ \A u \in Table : base'[u] \in Rewritten(u)
    BY <1>2, <1>8, <2>1, <2>3, <2>5 DEF CommitTable, LoseCommitAnswer, RetryInvariant, AtBlockEnd
  <2>8. QED
    BY <1>2, <2>3, <2>5, <2>6, <2>7 DEF RetryInvariant
<1>9. CASE UNCHANGED vars
  BY <1>2, <1>9 DEF RetryInvariant, vars, importer
<1>10. QED
  BY <1>1, <1>3, <1>4, <1>5, <1>6, <1>7, <1>8, <1>9 DEF Next, Run, Step

(* Any number of runs of one file, failing wherever they may, leave every  *)
(* table as it was or with the file's rows written over it: repeating      *)
(* `dbtalk import` after a partial success is safe.                        *)
THEOREM RetryIsSafe == Spec => []RetryConverges
<1>1. Init => RetryInvariant
  BY DEF Init, RetryInvariant, Rewritten
<1>2. RetryInvariant => RetryConverges
  BY DEF RetryInvariant, RetryConverges, Rewritten
<1>3. QED
  BY <1>1, <1>2, RetryStep, ImportInvariantHolds, PlanInvariantHolds, PTL DEF Spec

-----------------------------------------------------------------------------
(* What the second pass can still find.                                    *)

LEMMA StructureIsSound ==
  ASSUME ImportInvariant, PlanInvariant, replay = scanned,
         RejectRepeated \/ RejectSkipped \/ RejectReordered \/ RejectBlock \/ RejectIncomplete
  PROVE  FALSE
<1>1. SecondPass
  BY DEF SecondPass, RejectRepeated, RejectSkipped, RejectReordered, RejectBlock, RejectIncomplete,
         AtBlock, AtBlockEnd, AtEnd
<1>2. CASE RejectRepeated \/ RejectSkipped \/ RejectReordered
  BY <1>1, <1>2, SamePassBlock DEF RejectRepeated, RejectSkipped, RejectReordered, AtBlock
<1>3. CASE RejectBlock
  <2>1. block < Len(replay)
    BY <1>3 DEF RejectBlock, AtBlockEnd, ImportInvariant
  <2>2. QED
    BY <1>1, <1>3, <2>1, SamePassBlock DEF RejectBlock
<1>4. CASE RejectIncomplete
  BY <1>1, <1>4, SamePassEnd DEF RejectIncomplete, AtEnd
<1>5. QED
  BY <1>2, <1>3, <1>4

(* An upsert of the file that was checked has no row without a key.        *)
LEMMA KeysAreSound ==
  ASSUME ImportInvariant, PlanInvariant, replay = scanned, AtRow, CurrentRow.key = NullKey
  PROVE  mode = "insert"
<1>1. block < Len(replay) /\ scanned # <<>> /\ mode \in Modes /\ row \in Nat
  BY PositionTyped DEF AtRow, ImportInvariant, PlanInvariant
<1>2. block + 1 \in DOMAIN replay /\ Len(Current.rows) \in Nat /\ Current.rows \in Seq(Row)
  BY <1>1, CurrentTyped DEF ImportInvariant
<1>3. row + 1 \in DOMAIN Current.rows
  BY <1>1, <1>2, LenProperties DEF AtRow
<1>4. mode # "upsert"
  <2>1. Current.name \in Placed(plan)
    BY PositionTyped DEF AtRow, ImportInvariant, IsNext, Placed
  <2>2. QED
    BY <1>1, <1>2, <1>3, <2>1, PlanFacts DEF Current, CurrentRow
<1>5. QED
  BY <1>1, <1>4, InputsAssumption

(* Every parent of the open table, itself apart, has all its rows.         *)
LEMMA ParentsAreWritten ==
  ASSUME ImportInvariant, PlanInvariant, replay = scanned, AtRow,
         NEW p \in Parents[Current.name], p # Current.name
  PROVE  store[p] = WrittenOver(base[p], replay, p)
<1>1. /\ expected \in Nat /\ expected + 1 \in DOMAIN plan
      /\ Current.name = plan[expected + 1] /\ why = "none" /\ scanned # <<>>
  BY PositionTyped DEF AtRow, ImportInvariant, PlanInvariant, IsNext
<1>2. p \in {plan[j] : j \in 1..(expected + 1 - 1)}
  BY <1>1, PlanFacts
<1>3. p \in Committed
  BY <1>1, <1>2 DEF Committed
<1>4. p \in Table /\ FitsFor(replay, p)
  <2>1. p \in Placed(plan)
    BY <1>1, <1>2 DEF Placed
  <2>2. QED
    BY <1>1, <2>1, PlanFits, ElementOfSeq, LenProperties DEF Placed, ImportInvariant, TypeOK
<1>5. QED
  BY <1>3, <1>4 DEF ImportInvariant, CommittedPrefix

(* Both properties are about the reason of a failure, which is kept with   *)
(* everything it speaks of until the next run.                             *)
Evidence == <<replay, scanned, plan, block, row, base, mode>>

LEMMA EvidenceKept ==
  ASSUME PreflightIsThorough, ForeignKeysSatisfiedByOrder, UNCHANGED <<stage, why, Evidence>>
  PROVE  PreflightIsThorough' /\ ForeignKeysSatisfiedByOrder'
  BY DEF PreflightIsThorough, ForeignKeysSatisfiedByOrder, Evidence, Current, CurrentRow,
         WrittenOver

LEMMA RefusalIsExplained ==
  ASSUME ImportInvariant, PlanInvariant, RefuseRow
  PROVE  PreflightIsThorough' /\ ForeignKeysSatisfiedByOrder'
<1>1. PICK reason \in {"null_key", "duplicate_key", "foreign_key"} :
        Refused(CurrentRow, reason) /\ Fail(reason)
  BY DEF RefuseRow
<1>2. /\ why' = reason /\ AtRow
      /\ UNCHANGED Evidence /\ CurrentRow' = CurrentRow /\ Current' = Current
  BY <1>1 DEF RefuseRow, Fail, Evidence, CurrentRow, Current
<1>3. PreflightIsThorough'
  BY <1>1, <1>2, KeysAreSound DEF PreflightIsThorough, Refused, Evidence
<1>4. ASSUME reason = "foreign_key", replay = scanned
      PROVE  \E p \in Parents[Current.name] :
               \/ p = Current.name
               \/ Given(CurrentRow) \notin KeysIn(WrittenOver(base[p], replay, p))
  <2>1. ~Uprooting(CurrentRow)
    <3>1. scanned # <<>> /\ block + 1 \in DOMAIN scanned /\ Current = scanned[block + 1]
      BY <1>2, <1>4, CurrentTyped DEF AtRow, ImportInvariant, PlanInvariant, Current
    <3>2. Current.name \in Placed(plan)
      BY <1>2, PositionTyped DEF AtRow, ImportInvariant, IsNext, Placed
    <3>3. Current.header = "fits"
      BY <3>1, <3>2, PlanFacts
    <3>4. Found(CurrentRow) \subseteq {CurrentRow.key}
      BY <3>3 DEF Found
    <3>5. QED
      BY <3>4 DEF Uprooting
  <2>2. PICK p \in Parents[Current.name] : Given(CurrentRow) \notin KeysIn(Visible(p))
    BY <1>1, <1>4, <2>1 DEF Refused, Dangling
  <2>3. CASE p # Current.name
    BY <1>2, <1>4, <2>2, <2>3, ParentsAreWritten DEF Visible
  <2>4. QED
    BY <2>2, <2>3
<1>5. ForeignKeysSatisfiedByOrder'
  BY <1>2, <1>4 DEF ForeignKeysSatisfiedByOrder, Evidence, WrittenOver, KeysIn, Given
<1>6. QED
  BY <1>3, <1>5

LEMMA ReasonsNext ==
  ImportInvariant /\ PlanInvariant /\ PreflightIsThorough /\ ForeignKeysSatisfiedByOrder
    /\ [Next]_vars => PreflightIsThorough' /\ ForeignKeysSatisfiedByOrder'
<1> SUFFICES ASSUME ImportInvariant, PlanInvariant, PreflightIsThorough,
                    ForeignKeysSatisfiedByOrder, [Next]_vars
             PROVE  PreflightIsThorough' /\ ForeignKeysSatisfiedByOrder'
  OBVIOUS
<1>1. CASE RejectRepeated \/ RejectSkipped \/ RejectReordered \/ RejectBlock \/ RejectIncomplete
  <2>1. replay # scanned
    BY <1>1, StructureIsSound
  <2>2. /\ UNCHANGED <<replay, scanned>>
        /\ why' \in {"structure", "duplicate_table", "order_changed", "incomplete"}
    BY <1>1 DEF RejectRepeated, RejectSkipped, RejectReordered, RejectBlock, RejectIncomplete, Fail
  <2>3. QED
    BY <2>1, <2>2 DEF PreflightIsThorough, ForeignKeysSatisfiedByOrder
<1>2. CASE RefuseRow
  BY <1>2, RefusalIsExplained
<1>3. CASE RejectFile \/ RejectValue \/ DatabaseFails \/ LoseCommitAnswer
  <2>1. why' \in {"preflight", "value", "database", "commit_unknown"}
    BY <1>3 DEF RejectFile, RejectValue, DatabaseFails, LoseCommitAnswer, Fail
  <2>2. QED
    BY <2>1 DEF PreflightIsThorough, ForeignKeysSatisfiedByOrder
<1>4. CASE ReplaceFile \/ UNCHANGED vars
  BY <1>4, EvidenceKept DEF ReplaceFile, vars, importer, Evidence
<1>5. ASSUME \/ \E m \in Modes, opts \in Choices : Start(m, opts)
             \/ AcceptFile \/ OpenReplay \/ SkipBlock \/ BeginTable \/ WriteRow \/ CommitTable
             \/ FinishReplay \/ Verify
      PROVE  stage' # "failed" /\ why' = "none"
  <2>1. stage \notin {"failed"} => why = "none"
    BY DEF ImportInvariant
  <2>2. CASE (\E m \in Modes, opts \in Choices : Start(m, opts)) \/ AcceptFile \/ OpenReplay
    BY <2>1, <2>2 DEF Start, AcceptFile, OpenReplay
  <2>3. CASE SkipBlock \/ BeginTable \/ WriteRow
    BY <2>1, <2>3 DEF SkipBlock, BeginTable, WriteRow, AtBlock, AtRow
  <2>4. CASE CommitTable \/ FinishReplay \/ Verify
    BY <2>1, <2>4 DEF CommitTable, FinishReplay, Verify, AtBlockEnd, AtEnd
  <2>5. QED
    BY <1>5, <2>2, <2>3, <2>4
<1>6. CASE \/ \E m \in Modes, opts \in Choices : Start(m, opts)
           \/ AcceptFile \/ OpenReplay \/ SkipBlock \/ BeginTable \/ WriteRow \/ CommitTable
           \/ FinishReplay \/ Verify
  BY <1>5, <1>6 DEF PreflightIsThorough, ForeignKeysSatisfiedByOrder
<1>7. QED
  BY <1>1, <1>2, <1>3, <1>4, <1>6 DEF Next, Run, Step

LEMMA ReasonsHold == Spec => [](PreflightIsThorough /\ ForeignKeysSatisfiedByOrder)
<1>1. Init => PreflightIsThorough /\ ForeignKeysSatisfiedByOrder
  BY DEF Init, PreflightIsThorough, ForeignKeysSatisfiedByOrder
<1>2. QED
  BY <1>1, ReasonsNext, ImportInvariantHolds, PlanInvariantHolds, PTL DEF Spec

(* The checks iter_document_tables repeats find nothing new in the file    *)
(* scan_document read: only a file replaced between the passes trips them. *)
THEOREM PreflightMissesNothing == Spec => []PreflightIsThorough
  BY ReasonsHold, PTL

(* A foreign key never breaks for the order in which order_table_names has *)
(* the tables written.                                                     *)
THEOREM OrderIsNeverTheReason == Spec => []ForeignKeysSatisfiedByOrder
  BY ReasonsHold, PTL
=============================================================================
