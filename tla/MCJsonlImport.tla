--------------------------- MODULE MCJsonlImport ---------------------------
(***************************************************************************)
(* An instance of JsonlImport: in the target, 1 <- 2 <- 3 and a self       *)
(* reference on 3; two runs with any mode and selection over a file that   *)
(* may be replaced once, between the passes or between the runs.           *)
(***************************************************************************)
EXTENDS JsonlImport, TLC

MCKey == {1, 2}
MCValue == {1, 2}
MCTable == {1, 2, 3}
MCParents == (1 :> {}) @@ (2 :> {1}) @@ (3 :> {2, 3})

R(k, v) == [key |-> k, val |-> v]
B(t, rs) == [name |-> t, header |-> "fits", rows |-> rs, whole |-> TRUE]
Empty == [k \in MCKey |-> Absent]

(* Parents with one row or two, children that refer to them or miss them,  *)
(* rows that repeat a key, refer to their own table, or cannot be decoded. *)
GoodDocuments ==
  {<<B(1, a), B(2, b), B(3, c)>> :
     a \in {<<R(1, 1), R(2, 2)>>, <<R(1, 1)>>},
     b \in {<<R(1, 2), R(2, 1)>>, <<R(2, BadValue)>>},
     c \in {<<R(1, 1)>>, <<R(2, 1), R(1, 1)>>}}

(* Tables out of order or twice, missing or without a key, with another    *)
(* key, a column too many or one left out, a block that breaks off, no     *)
(* table at all.                                                           *)
OddDocuments ==
  {<<B(1, <<R(1, 1)>>), B(3, <<R(1, 1)>>), B(2, <<R(1, 1)>>)>>,
   <<B(2, <<R(1, 1)>>), B(1, <<R(1, 1)>>)>>,
   <<B(1, <<R(1, 1)>>), B(1, <<R(2, 2)>>), B(2, <<R(1, 1)>>)>>,
   <<B(1, <<R(1, 2), R(1, 1)>>), B(2, <<R(1, 1)>>)>>,
   <<B(1, <<R(NullKey, 1)>>), B(2, <<>>)>>,
   <<[B(1, <<R(2, 1)>>) EXCEPT !.header = "other_key"], B(2, <<R(2, 1)>>)>>,
   <<B(1, <<R(1, 1)>>), [B(2, <<R(2, 1)>>) EXCEPT !.header = "unknown_column"]>>,
   <<B(1, <<R(1, Omitted), R(2, Omitted)>>), B(2, <<R(1, 1)>>)>>,
   <<B(1, <<R(1, 1)>>), [B(2, <<R(2, 1)>>) EXCEPT !.whole = FALSE]>>,
   <<B(1, <<R(2, BadValue)>>)>>,
   <<>>}
MCDocuments == GoodDocuments \cup OddDocuments

MCChoices ==
  {[include |-> {}, exclude |-> {}], [include |-> {}, exclude |-> {3}], [include |-> {1}, exclude |-> {}]}
MCStores ==
  {[t \in MCTable |-> Empty], [t \in MCTable |-> [k \in MCKey |-> IF k = 1 THEN 1 ELSE Absent]]}
BothModes == {"insert", "upsert"}
=============================================================================
