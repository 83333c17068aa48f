--------------------------- MODULE MCJsonlValues ---------------------------
(***************************************************************************)
(* Three zones: UTC, one to the east of it, and one whose clocks are put   *)
(* forward at hour 4 and back at hour 8.                                   *)
(***************************************************************************)
EXTENDS JsonlValues

MCZones == {"utc", "east", "summer"}
MCOffset ==
  [z \in MCZones |-> [i \in Hours |->
     CASE z = "utc" -> 0 [] z = "east" -> 2 [] z = "summer" -> IF i \in 4 .. 7 THEN 1 ELSE 0]]
MCOffsets == {0, 2, -1}
=============================================================================
