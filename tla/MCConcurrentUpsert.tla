------------------------ MODULE MCConcurrentUpsert ------------------------
(* An instance of ConcurrentUpsert: blocks of up to three rows over two    *)
(* keys.                                                                   *)
EXTENDS ConcurrentUpsert

MCKey == {1, 2}
MCValue == {1, 2}
R(k, v) == [key |-> k, val |-> v]
ShortBlocks == {<<>>, <<R(1, 1)>>, <<R(1, 1), R(2, 1)>>, <<R(1, 1), R(1, 2)>>,
                <<R(1, 1), R(2, 1), R(1, 2)>>}
=============================================================================
