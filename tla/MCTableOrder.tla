---------------------------- MODULE MCTableOrder ----------------------------
(* All foreign-key graphs over a few tables.                               *)
EXTENDS TableOrder

MCTable == 1..4
MCSelections == {1..4, {1, 3, 4}}
=============================================================================
