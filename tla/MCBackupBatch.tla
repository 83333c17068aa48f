--------------------------- MODULE MCBackupBatch ---------------------------
(* An instance of BackupBatch: the first and the third target have one     *)
(* name, the second is disabled, and the last has the first number of that *)
(* name for its own.                                                       *)
EXTENDS BackupBatch, TLC

CONSTANTS r1, r2, t1, t2, t3, t4
Runs == {r1, r2}
Targets == {t1, t2, t3, t4}
InOrder == <<t1, t2, t3, t4>>

Stem == (t1 :> "app") @@ (t2 :> "old") @@ (t3 :> "app") @@ (t4 :> "app-01")
Numbered(stem, n) == IF stem = "app" /\ n = 1 THEN <<"app-01", 0>> ELSE <<stem, n>>
Stems == [t \in Target |-> [n \in Number |-> Numbered(Stem[t], n)]]
FileNames == UNION {Names(t) : t \in Target}

Interchangeable == Permutations(Run)
=============================================================================
