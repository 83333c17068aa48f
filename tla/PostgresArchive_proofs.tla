----------------------- MODULE PostgresArchive_proofs -----------------------
(***************************************************************************)
(* Proofs about dumps and restores of PostgreSQL over the same files, for  *)
(* any number of runs and names.                                           *)
(***************************************************************************)
EXTENDS PostgresArchive, TLAPS

LEMMA InitInvariant == Init => ArchiveInvariant
<1> SUFFICES ASSUME Init PROVE ArchiveInvariant
  OBVIOUS
<1> USE DEF Init, Runs
<1>1. TypeOK
  BY DEF TypeOK, File, States, Places
<1>2. \A r \in Runs : RunKnows(r)
  BY DEF RunKnows
<1>3. \A r \in Dumps : DumpKnows(r)
  BY DEF DumpKnows
<1>4. \A r \in Restores : RestoreKnows(r)
  BY DEF RestoreKnows
<1>5. \A n \in Name : NameKnows(n)
  BY FilesAssumption DEF NameKnows
<1>6. files[UsersFile] # NoFile
  BY FilesAssumption DEF File, States
<1>7. QED
  BY <1>1, <1>2, <1>3, <1>4, <1>5, <1>6 DEF ArchiveInvariant

-----------------------------------------------------------------------------
(* A step of one run leaves the others what they know.                     *)

Kept(q) ==
  /\ stage'[q] = stage[q] /\ place'[q] = place[q] /\ path'[q] = path[q]
  /\ failing'[q] = failing[q] /\ held'[q] = held[q] /\ stuck'[q] = stuck[q]
  /\ q \in Dumps => temp'[q] = temp[q]
  /\ q \in Restores => fed'[q] = fed[q] /\ target'[q] = target[q] /\ listed'[q] = listed[q]

LEMMA KeptKnows ==
  ASSUME ArchiveInvariant, NEW q \in Runs, Kept(q),
         \A p \in Name \cup {UsersFile} : files[p] # NoFile => files'[p] # NoFile
  PROVE  /\ RunKnows(q)'
         /\ q \in Dumps => DumpKnows(q)'
         /\ q \in Restores => RestoreKnows(q)'
<1>1. RunKnows(q)'
  BY DEF ArchiveInvariant, Kept, RunKnows
<1>2. ASSUME q \in Dumps PROVE DumpKnows(q)'
  <2>1. DumpKnows(q)
    BY <1>2 DEF ArchiveInvariant
  <2>2. QED
    BY <1>2, <2>1 DEF Kept, DumpKnows
<1>3. ASSUME q \in Restores PROVE RestoreKnows(q)'
  <2>1. RestoreKnows(q) /\ path[q] \in Name \cup {UsersFile}
    BY <1>3 DEF ArchiveInvariant, TypeOK
  <2>2. QED
    BY <1>3, <2>1 DEF Kept, RestoreKnows
<1>4. QED
  BY <1>1, <1>2, <1>3

Beyond == {"clean", "end", "done", "killed"}

(* What a step of run r that publishes nothing has to be shown for.        *)
LEMMA StepInvariant ==
  ASSUME ArchiveInvariant, NEW r \in Runs, TypeOK', files' = files,
         \A q \in Runs \ {r} : Kept(q),
         RunKnows(r)', r \in Dumps => DumpKnows(r)', r \in Restores => RestoreKnows(r)',
         \/ stage[r] \notin Beyond
         \/ stage'[r] \in Beyond /\ path'[r] = path[r] /\ failing'[r] = failing[r]
  PROVE  ArchiveInvariant'
<1>1. ASSUME NEW q \in Runs
      PROVE  /\ RunKnows(q)'
             /\ q \in Dumps => DumpKnows(q)'
             /\ q \in Restores => RestoreKnows(q)'
  BY KeptKnows
<1>2. ASSUME NEW n \in Name PROVE NameKnows(n)'
  BY DEF ArchiveInvariant, NameKnows, Kept, Beyond, Runs
<1>3. QED
  BY <1>1, <1>2 DEF ArchiveInvariant, Runs

-----------------------------------------------------------------------------
(* The steps of a dump.                                                    *)

LEMMA BeginDumpInvariant ==
  ASSUME ArchiveInvariant, NEW r \in Dumps, NEW p \in Name, NEW where \in Places, BeginDump(r, p, where)
  PROVE  ArchiveInvariant'
<1> USE RunsAssumption, FilesAssumption DEF Runs
<1>0. TypeOK /\ RunKnows(r) /\ DumpKnows(r)
  BY DEF ArchiveInvariant
<1>1. TypeOK'
  <2>1. [by |-> r, state |-> "cut"] \in File
    BY DEF File, States
  <2>2. /\ stage' \in [Runs -> {"idle", "client", "copy", "remove_remote", "publish", "clean",
                              "read", "end", "done", "failed", "killed"}]
        /\ place' \in [Runs -> Places] /\ path' \in [Runs -> Name \cup {UsersFile}]
    BY <1>0 DEF TypeOK, BeginDump, Begin, Hold, Goto, restored
  <2>3. failing' \in [Runs -> BOOLEAN] /\ listed' \in [Restores -> BOOLEAN]
    BY <1>0 DEF TypeOK, BeginDump, Begin, Hold, Goto, restored
  <2>4. /\ temp' \in [Dumps -> File \cup {NoFile}] /\ fed' \in [Restores -> File \cup {NoFile}]
        /\ target' \in [Restores -> {"before", "part", "all"}]
        /\ files' \in [Name \cup {UsersFile} -> File \cup {NoFile}]
    BY <1>0, <2>1 DEF TypeOK, BeginDump, Begin, Hold, Goto, restored
  <2>5. /\ held' \in [Runs -> SUBSET {"remote", "pgpass"}]
        /\ stuck' \in [Runs -> SUBSET {"remote", "pgpass", "temp"}]
    BY <1>0 DEF TypeOK, BeginDump, Begin, Hold, Goto, restored
  <2>6. ASSUME NEW q \in Runs
        PROVE  /\ "pgpass" \in held'[q] => place'[q] = "local"
               /\ "remote" \in held'[q] => place'[q] = "mapped"
    BY <1>0 DEF TypeOK, RunKnows, Places, BeginDump, Begin, Hold, Goto, restored
  <2>7. QED
    BY <2>2, <2>3, <2>4, <2>5, <2>6 DEF TypeOK
<1>2. /\ stage'[r] = "client" /\ ~failing'[r] /\ path'[r] = p
      /\ temp'[r] = IF where = "mapped" THEN NoFile ELSE [by |-> r, state |-> "cut"]
  BY <1>0 DEF TypeOK, RunKnows, DumpKnows, Places, BeginDump, Begin, Hold, Goto, restored
<1>3. \A q \in Runs \ {r} : Kept(q)
  BY <1>0 DEF TypeOK, Kept, BeginDump, Begin, Hold, Goto, restored
<1>4. /\ files' = files
      /\ \/ stage[r] \notin Beyond
         \/ stage'[r] \in Beyond /\ path'[r] = path[r] /\ failing'[r] = failing[r]
  BY <1>0 DEF Beyond, TypeOK, BeginDump, Begin, Hold, Goto, restored
<1>5. RunKnows(r)'
  BY <1>2 DEF RunKnows
<1>6. DumpKnows(r)'
  BY <1>0, <1>2, <1>4 DEF DumpKnows, BeginDump, Begin, Hold, Goto, restored
<1>7. QED
  BY <1>1, <1>3, <1>4, <1>5, <1>6, StepInvariant

LEMMA ClientEndsInvariant ==
  ASSUME ArchiveInvariant, NEW r \in Dumps, ClientEnds(r)
  PROVE  ArchiveInvariant'
<1> USE RunsAssumption, FilesAssumption DEF Runs
<1>0. TypeOK /\ RunKnows(r) /\ DumpKnows(r)
  BY DEF ArchiveInvariant
<1>1. TypeOK'
  <2>1. [by |-> r, state |-> "whole"] \in File
    BY DEF File, States
  <2>2. /\ stage' \in [Runs -> {"idle", "client", "copy", "remove_remote", "publish", "clean",
                              "read", "end", "done", "failed", "killed"}]
        /\ place' \in [Runs -> Places] /\ path' \in [Runs -> Name \cup {UsersFile}]
    BY <1>0 DEF TypeOK, ClientEnds, Drop, Goto, restored
  <2>3. failing' \in [Runs -> BOOLEAN] /\ listed' \in [Restores -> BOOLEAN]
    BY <1>0 DEF TypeOK, ClientEnds, Drop, Goto, restored
  <2>4. /\ temp' \in [Dumps -> File \cup {NoFile}] /\ fed' \in [Restores -> File \cup {NoFile}]
        /\ target' \in [Restores -> {"before", "part", "all"}]
        /\ files' \in [Name \cup {UsersFile} -> File \cup {NoFile}]
    BY <1>0, <2>1 DEF TypeOK, ClientEnds, Drop, Goto, restored
  <2>5. /\ held' \in [Runs -> SUBSET {"remote", "pgpass"}]
        /\ stuck' \in [Runs -> SUBSET {"remote", "pgpass", "temp"}]
    BY <1>0 DEF TypeOK, ClientEnds, Drop, Goto, restored
  <2>6. ASSUME NEW q \in Runs
        PROVE  /\ "pgpass" \in held'[q] => place'[q] = "local"
               /\ "remote" \in held'[q] => place'[q] = "mapped"
    BY <1>0 DEF TypeOK, RunKnows, Places, ClientEnds, Drop, Goto, restored
  <2>7. QED
    BY <2>2, <2>3, <2>4, <2>5, <2>6 DEF TypeOK
<1>2. /\ path'[r] \in Name /\ ~failing'[r]
      /\ \/ stage'[r] = "copy" /\ place'[r] = "mapped" /\ temp'[r] = temp[r]
         \/ /\ stage'[r] = "publish" /\ temp'[r] \in {NoFile, [by |-> r, state |-> "whole"]}
            /\ held'[r] \subseteq stuck'[r]
  BY <1>0 DEF TypeOK, RunKnows, DumpKnows, Places, ClientEnds, Drop, Goto, restored
<1>3. \A q \in Runs \ {r} : Kept(q)
  BY <1>0 DEF TypeOK, Kept, ClientEnds, Drop, Goto, restored
<1>4. /\ files' = files
      /\ \/ stage[r] \notin Beyond
         \/ stage'[r] \in Beyond /\ path'[r] = path[r] /\ failing'[r] = failing[r]
  BY <1>0 DEF Beyond, TypeOK, ClientEnds, Drop, Goto, restored
<1>5. RunKnows(r)'
  BY <1>2 DEF RunKnows
<1>6. DumpKnows(r)'
  BY <1>0, <1>2, <1>4 DEF DumpKnows
<1>7. QED
  BY <1>1, <1>3, <1>4, <1>5, <1>6, StepInvariant

LEMMA ClientFailsInvariant ==
  ASSUME ArchiveInvariant, NEW r \in Dumps, ClientFails(r)
  PROVE  ArchiveInvariant'
<1> USE RunsAssumption, FilesAssumption DEF Runs
<1>0. TypeOK /\ RunKnows(r) /\ DumpKnows(r)
  BY DEF ArchiveInvariant
<1>1. TypeOK'
  <2>1. /\ stage' \in [Runs -> {"idle", "client", "copy", "remove_remote", "publish", "clean",
                              "read", "end", "done", "failed", "killed"}]
        /\ place' \in [Runs -> Places] /\ path' \in [Runs -> Name \cup {UsersFile}]
    BY <1>0 DEF TypeOK, ClientFails, Failing, Drop, Goto, restored
  <2>2. failing' \in [Runs -> BOOLEAN] /\ listed' \in [Restores -> BOOLEAN]
    BY <1>0 DEF TypeOK, ClientFails, Failing, Drop, Goto, restored
  <2>3. /\ temp' \in [Dumps -> File \cup {NoFile}] /\ fed' \in [Restores -> File \cup {NoFile}]
        /\ target' \in [Restores -> {"before", "part", "all"}]
        /\ files' \in [Name \cup {UsersFile} -> File \cup {NoFile}]
    BY <1>0 DEF TypeOK, ClientFails, Failing, Drop, Goto, restored
  <2>4. /\ held' \in [Runs -> SUBSET {"remote", "pgpass"}]
        /\ stuck' \in [Runs -> SUBSET {"remote", "pgpass", "temp"}]
    BY <1>0 DEF TypeOK, ClientFails, Failing, Drop, Goto, restored
  <2>5. ASSUME NEW q \in Runs
        PROVE  /\ "pgpass" \in held'[q] => place'[q] = "local"
               /\ "remote" \in held'[q] => place'[q] = "mapped"
    BY <1>0 DEF TypeOK, RunKnows, Places, ClientFails, Failing, Drop, Goto, restored
  <2>6. QED
    BY <2>1, <2>2, <2>3, <2>4, <2>5 DEF TypeOK
<1>2. /\ path'[r] \in Name /\ failing'[r] /\ temp'[r] = temp[r]
      /\ \/ stage'[r] = "remove_remote" /\ place'[r] = "mapped"
         \/ stage'[r] = "clean" /\ held'[r] \subseteq stuck'[r]
  <2>1. stage[r] = "client" /\ path'[r] = path[r] /\ path[r] \in Name /\ failing'[r] /\ temp'[r] = temp[r]
        /\ place'[r] = place[r]
    BY <1>0 DEF TypeOK, DumpKnows, ClientFails, Failing, Drop, Goto, restored
  <2>2. CASE place[r] = "mapped"
    BY <1>0, <2>1, <2>2 DEF TypeOK, ClientFails, Failing, Drop, Goto, restored
  <2>3. CASE place[r] # "mapped"
    <3>1. held[r] \subseteq {"pgpass"}
      BY <1>0, <2>3 DEF TypeOK
    <3>2. stage'[r] = "clean"
      BY <1>0, <2>3 DEF TypeOK, ClientFails, Goto
    <3>3. held'[r] \subseteq stuck'[r]
      BY <1>0, <2>3, <3>1 DEF TypeOK, ClientFails, Drop
    <3>4. QED
      BY <2>1, <3>2, <3>3
  <2>4. QED
    BY <2>2, <2>3
<1>3. \A q \in Runs \ {r} : Kept(q)
  BY <1>0 DEF TypeOK, Kept, ClientFails, Failing, Drop, Goto, restored
<1>4. /\ files' = files
      /\ \/ stage[r] \notin Beyond
         \/ stage'[r] \in Beyond /\ path'[r] = path[r] /\ failing'[r] = failing[r]
  BY <1>0 DEF Beyond, TypeOK, ClientFails, Failing, Drop, Goto, restored
<1>5. RunKnows(r)'
  BY <1>2 DEF RunKnows
<1>6. DumpKnows(r)'
  BY <1>0, <1>2, <1>4 DEF DumpKnows
<1>7. QED
  BY <1>1, <1>3, <1>4, <1>5, <1>6, StepInvariant

LEMMA CopyInvariant ==
  ASSUME ArchiveInvariant, NEW r \in Dumps, Copy(r)
  PROVE  ArchiveInvariant'
<1> USE RunsAssumption, FilesAssumption DEF Runs
<1>0. TypeOK /\ RunKnows(r) /\ DumpKnows(r)
  BY DEF ArchiveInvariant
<1>1. TypeOK'
  <2>1. {[by |-> r, state |-> "cut"], [by |-> r, state |-> "whole"]} \subseteq File
    BY DEF File, States
  <2>2. /\ stage' \in [Runs -> {"idle", "client", "copy", "remove_remote", "publish", "clean",
                              "read", "end", "done", "failed", "killed"}]
        /\ place' \in [Runs -> Places] /\ path' \in [Runs -> Name \cup {UsersFile}]
    BY <1>0 DEF TypeOK, Copy, Failing, Goto, restored
  <2>3. failing' \in [Runs -> BOOLEAN] /\ listed' \in [Restores -> BOOLEAN]
    BY <1>0 DEF TypeOK, Copy, Failing, Goto, restored
  <2>4. /\ temp' \in [Dumps -> File \cup {NoFile}] /\ fed' \in [Restores -> File \cup {NoFile}]
        /\ target' \in [Restores -> {"before", "part", "all"}]
        /\ files' \in [Name \cup {UsersFile} -> File \cup {NoFile}]
    BY <1>0, <2>1 DEF TypeOK, Copy, Failing, Goto, restored
  <2>5. /\ held' \in [Runs -> SUBSET {"remote", "pgpass"}]
        /\ stuck' \in [Runs -> SUBSET {"remote", "pgpass", "temp"}]
    BY <1>0 DEF TypeOK, Copy, Failing, Goto, restored
  <2>6. ASSUME NEW q \in Runs
        PROVE  /\ "pgpass" \in held'[q] => place'[q] = "local"
               /\ "remote" \in held'[q] => place'[q] = "mapped"
    BY <1>0 DEF TypeOK, RunKnows, Places, Copy, Failing, Goto, restored
  <2>7. QED
    BY <2>2, <2>3, <2>4, <2>5, <2>6 DEF TypeOK
<1>2. /\ path'[r] \in Name /\ stage'[r] = "remove_remote" /\ place'[r] = "mapped"
      /\ \/ temp'[r] = [by |-> r, state |-> "whole"]
         \/ failing'[r] /\ temp'[r] \in {temp[r], [by |-> r, state |-> "cut"]}
      /\ NoFile \notin {[by |-> r, state |-> "whole"], [by |-> r, state |-> "cut"]}
  <2>1. NoFile \notin {[by |-> r, state |-> "whole"], [by |-> r, state |-> "cut"]}
    BY DEF File, States
  <2>2. stage[r] = "copy" /\ path'[r] = path[r] /\ path[r] \in Name /\ place'[r] = place[r]
    BY <1>0 DEF TypeOK, DumpKnows, Copy, Goto
  <2>3. \/ temp'[r] = [by |-> r, state |-> "whole"]
        \/ failing'[r] /\ temp'[r] \in {temp[r], [by |-> r, state |-> "cut"]}
    BY <1>0 DEF TypeOK, Copy, Failing
  <2>4. QED
    BY <1>0, <2>1, <2>2, <2>3 DEF TypeOK, RunKnows, Copy, Goto
<1>3. \A q \in Runs \ {r} : Kept(q)
  BY <1>0 DEF TypeOK, Kept, Copy, Failing, Goto, restored
<1>4. /\ files' = files
      /\ \/ stage[r] \notin Beyond
         \/ stage'[r] \in Beyond /\ path'[r] = path[r] /\ failing'[r] = failing[r]
  BY <1>0 DEF Beyond, TypeOK, Copy, Failing, Goto, restored
<1>5. RunKnows(r)'
  BY <1>2 DEF RunKnows
<1>6. DumpKnows(r)'
  BY <1>0, <1>2, <1>4 DEF DumpKnows
<1>7. QED
  BY <1>1, <1>3, <1>4, <1>5, <1>6, StepInvariant

LEMMA CleanInvariant ==
  ASSUME ArchiveInvariant, NEW r \in Dumps, Clean(r)
  PROVE  ArchiveInvariant'
<1> USE RunsAssumption, FilesAssumption DEF Runs
<1>0. TypeOK /\ RunKnows(r) /\ DumpKnows(r)
  BY DEF ArchiveInvariant
<1>1. TypeOK'
  <2>1. /\ stage' \in [Runs -> {"idle", "client", "copy", "remove_remote", "publish", "clean",
                              "read", "end", "done", "failed", "killed"}]
        /\ place' \in [Runs -> Places] /\ path' \in [Runs -> Name \cup {UsersFile}]
    BY <1>0 DEF TypeOK, Clean, Goto, restored
  <2>2. failing' \in [Runs -> BOOLEAN] /\ listed' \in [Restores -> BOOLEAN]
    BY <1>0 DEF TypeOK, Clean, Goto, restored
  <2>3. /\ temp' \in [Dumps -> File \cup {NoFile}] /\ fed' \in [Restores -> File \cup {NoFile}]
        /\ target' \in [Restores -> {"before", "part", "all"}]
        /\ files' \in [Name \cup {UsersFile} -> File \cup {NoFile}]
    BY <1>0 DEF TypeOK, Clean, Goto, restored
  <2>4. /\ held' \in [Runs -> SUBSET {"remote", "pgpass"}]
        /\ stuck' \in [Runs -> SUBSET {"remote", "pgpass", "temp"}]
    BY <1>0 DEF TypeOK, Clean, Goto, restored
  <2>5. ASSUME NEW q \in Runs
        PROVE  /\ "pgpass" \in held'[q] => place'[q] = "local"
               /\ "remote" \in held'[q] => place'[q] = "mapped"
    BY <1>0 DEF TypeOK, RunKnows, Places, Clean, Goto, restored
  <2>6. QED
    BY <2>1, <2>2, <2>3, <2>4, <2>5 DEF TypeOK
<1>2. /\ path'[r] = path[r] /\ stage'[r] = "end" /\ failing'[r] = failing[r]
      /\ held'[r] \subseteq stuck'[r]
      /\ temp'[r] = NoFile \/ (temp'[r] = temp[r] /\ "temp" \in stuck'[r])
  <2>1. stage[r] = "clean" /\ path'[r] = path[r] /\ stage'[r] = "end" /\ failing'[r] = failing[r] /\ held'[r] = held[r]
    BY <1>0 DEF TypeOK, Clean, Goto, restored
  <2>2. held[r] \subseteq stuck[r] /\ stuck[r] \subseteq stuck'[r]
    BY <1>0, <2>1 DEF TypeOK, RunKnows, Clean
  <2>3. temp'[r] = NoFile \/ (temp'[r] = temp[r] /\ "temp" \in stuck'[r])
    <3>1. CASE temp' = [temp EXCEPT ![r] = NoFile]
      BY <1>0, <3>1 DEF TypeOK
    <3>2. CASE temp' = temp /\ stuck' = [stuck EXCEPT ![r] = @ \cup {"temp"}]
      BY <1>0, <3>2 DEF TypeOK
    <3>3. QED
      BY <3>1, <3>2 DEF Clean
  <2>4. QED
    BY <2>1, <2>2, <2>3
<1>3. \A q \in Runs \ {r} : Kept(q)
  BY <1>0 DEF TypeOK, Kept, Clean, Goto, restored
<1>4. /\ files' = files
      /\ \/ stage[r] \notin Beyond
         \/ stage'[r] \in Beyond /\ path'[r] = path[r] /\ failing'[r] = failing[r]
  BY <1>0 DEF Beyond, TypeOK, Clean, Goto, restored
<1>5. RunKnows(r)'
  BY <1>2 DEF RunKnows
<1>6. DumpKnows(r)'
  BY <1>0, <1>2, <1>4 DEF DumpKnows, Clean, Goto, restored
<1>7. QED
  BY <1>1, <1>3, <1>4, <1>5, <1>6, StepInvariant

(* The rename puts a whole archive under the name of its dump.             *)
LEMMA PublishInvariant ==
  ASSUME ArchiveInvariant, NEW r \in Dumps, Publish(r)
  PROVE  ArchiveInvariant'
<1> USE RunsAssumption, FilesAssumption DEF Runs
<1>0. /\ TypeOK /\ RunKnows(r) /\ DumpKnows(r)
      /\ stage[r] = "publish" /\ stage'[r] = "clean" /\ path[r] \in Name /\ ~failing[r]
      /\ UNCHANGED <<place, path, held, stuck, fed, target, listed>>
      /\ stage' = [stage EXCEPT ![r] = "clean"]
  BY DEF ArchiveInvariant, Publish, Goto, restored, DumpKnows, RunKnows, TypeOK
<1>1. ASSUME NEW q \in Runs \ {r} PROVE Kept(q)
  BY <1>0 DEF TypeOK, Kept, Publish, Failing, Goto, restored
<1>2. CASE /\ temp[r] # NoFile
           /\ files' = [files EXCEPT ![path[r]] = temp[r]]
           /\ temp' = [temp EXCEPT ![r] = NoFile]
           /\ UNCHANGED failing
  <2>1. temp[r] \in File /\ temp[r].by = r /\ temp[r].state = "whole"
    BY <1>0, <1>2 DEF TypeOK, DumpKnows
  <2>2. TypeOK'
    <3>1. files' \in [Name \cup {UsersFile} -> File \cup {NoFile}]
      BY <1>0, <1>2, <2>1 DEF TypeOK
    <3>2. temp' \in [Dumps -> File \cup {NoFile}] /\ failing' \in [Runs -> BOOLEAN]
      BY <1>0, <1>2 DEF TypeOK
    <3>3. stage' \in [Runs -> {"idle", "client", "copy", "remove_remote", "publish", "clean", "read",
                               "end", "done", "failed", "killed"}]
      BY <1>0 DEF TypeOK
    <3>4. QED
      BY <1>0, <3>1, <3>2, <3>3 DEF TypeOK
  <2>3. /\ files'[path[r]] = temp[r]
        /\ \A n \in Name \cup {UsersFile} : n # path[r] => files'[n] = files[n]
    BY <1>0, <1>2 DEF TypeOK
  <2>4. \A q \in Runs \ {r} : /\ RunKnows(q)' /\ (q \in Dumps => DumpKnows(q)')
                              /\ (q \in Restores => RestoreKnows(q)')
    BY <1>1, <1>2, <2>3, KeptKnows
  <2>5. temp'[r] = NoFile /\ failing'[r] = failing[r] /\ path'[r] = path[r]
    BY <1>0, <1>2 DEF TypeOK
  <2>6. RunKnows(r)'
    BY <1>0, <2>5 DEF RunKnows
  <2>7. DumpKnows(r)'
    BY <1>0, <1>2, <2>3, <2>5 DEF DumpKnows
  <2>8. ASSUME NEW n \in Name PROVE NameKnows(n)'
    <3>1. CASE n = path[r]
      BY <1>0, <2>1, <2>3, <2>5, <3>1 DEF NameKnows
    <3>2. CASE n # path[r] /\ files[n] # NoFile
      <4>1. NameKnows(n) /\ files'[n] = files[n]
        BY <2>3, <3>2 DEF ArchiveInvariant
      <4>2. files[n].by \in Runs \ {r}
        BY <1>0, <3>2, <4>1 DEF NameKnows
      <4>3. Kept(files[n].by)
        BY <1>1, <4>2
      <4>4. QED
        BY <3>2, <4>1, <4>3 DEF NameKnows, Kept
    <3>3. CASE n # path[r] /\ files[n] = NoFile
      BY <2>3, <3>3 DEF NameKnows
    <3>4. QED
      BY <3>1, <3>2, <3>3
  <2>9. files'[UsersFile] # NoFile
    BY <1>0, <2>3 DEF ArchiveInvariant
  <2>10. QED
    BY <2>2, <2>4, <2>6, <2>7, <2>8, <2>9 DEF ArchiveInvariant
<1>3. CASE Failing(r, TRUE) /\ UNCHANGED <<files, temp>>
  <2>1. failing'[r] /\ path'[r] = path[r] /\ temp'[r] = temp[r]
    BY <1>0, <1>3 DEF TypeOK, Failing
  <2>2. failing' \in [Runs -> BOOLEAN]
    BY <1>0, <1>3 DEF TypeOK, Failing
  <2>3. stage' \in [Runs -> {"idle", "client", "copy", "remove_remote", "publish", "clean", "read",
                             "end", "done", "failed", "killed"}]
    BY <1>0 DEF TypeOK
  <2>4. TypeOK'
    BY <1>0, <1>3, <2>2, <2>3 DEF TypeOK
  <2>5. RunKnows(r)' /\ DumpKnows(r)'
    BY <1>0, <2>1 DEF RunKnows, DumpKnows
  <2>6. stage[r] \notin Beyond
    BY <1>0 DEF Beyond
  <2>7. QED
    BY <1>1, <1>3, <2>4, <2>5, <2>6, StepInvariant
<1>4. QED
  BY <1>2, <1>3 DEF Publish

-----------------------------------------------------------------------------
(* The steps of a restore.                                                 *)

LEMMA BeginRestoreInvariant ==
  ASSUME ArchiveInvariant, NEW r \in Restores, NEW p \in Name \cup {UsersFile}, NEW where \in Places,
         BeginRestore(r, p, where)
  PROVE  ArchiveInvariant'
<1> USE RunsAssumption, FilesAssumption DEF Runs
<1>0. TypeOK /\ RunKnows(r) /\ RestoreKnows(r)
  BY DEF ArchiveInvariant
<1>1. /\ stage[r] = "idle" /\ UNCHANGED <<temp, held, stuck, fed, target, listed, files>>
      /\ stage' = [stage EXCEPT ![r] = IF files[p] = NoFile THEN "end" ELSE "read"]
      /\ path' = [path EXCEPT ![r] = p] /\ place' = [place EXCEPT ![r] = where]
      /\ failing' = [failing EXCEPT ![r] = @ \/ files[p] = NoFile]
  BY DEF BeginRestore, Begin, Failing, Goto, restored
<1>2. /\ path'[r] = p /\ held'[r] = {}
      /\ stage'[r] = IF files[p] = NoFile THEN "end" ELSE "read"
      /\ failing'[r] <=> files[p] = NoFile
  BY <1>0, <1>1 DEF TypeOK, RunKnows
<1>3. TypeOK'
  <2>1. /\ stage' \in [Runs -> {"idle", "client", "copy", "remove_remote", "publish", "clean",
                              "read", "end", "done", "failed", "killed"}]
        /\ place' \in [Runs -> Places] /\ path' \in [Runs -> Name \cup {UsersFile}]
    BY <1>0, <1>1 DEF TypeOK
  <2>2. failing' \in [Runs -> BOOLEAN]
    BY <1>0, <1>1 DEF TypeOK
  <2>3. ASSUME NEW q \in Runs
        PROVE  /\ "pgpass" \in held'[q] => place'[q] = "local"
               /\ "remote" \in held'[q] => place'[q] = "mapped"
    BY <1>0, <1>1, <1>2 DEF TypeOK
  <2>4. QED
    BY <1>0, <1>1, <2>1, <2>2, <2>3 DEF TypeOK
<1>4. \A q \in Runs \ {r} : Kept(q)
  BY <1>0, <1>1 DEF TypeOK, Kept
<1>5. RunKnows(r)' /\ RestoreKnows(r)'
  BY <1>0, <1>1, <1>2 DEF RunKnows, RestoreKnows
<1>6. stage[r] \notin Beyond /\ r \notin Dumps
  BY <1>1 DEF Beyond
<1>7. QED
  BY <1>1, <1>3, <1>4, <1>5, <1>6, StepInvariant

LEMMA ReadFailsInvariant ==
  ASSUME ArchiveInvariant, NEW r \in Restores, ReadFails(r)
  PROVE  ArchiveInvariant'
<1> USE RunsAssumption, FilesAssumption DEF Runs
<1>0. TypeOK /\ RunKnows(r) /\ RestoreKnows(r)
  BY DEF ArchiveInvariant
<1>1. /\ stage[r] = "read" /\ UNCHANGED <<place, path, temp, stuck, fed, target, listed, files>>
      /\ stage' = [stage EXCEPT ![r] = IF place[r] = "mapped" THEN "remove_remote" ELSE "end"]
      /\ held' = [held EXCEPT ![r] = @ \cup IF place[r] = "mapped" THEN {"remote"} ELSE {}]
      /\ failing' = [failing EXCEPT ![r] = @ \/ TRUE]
  BY DEF ReadFails, Reads, Hold, Failing, Goto, restored
<1>2. /\ stage'[r] = IF place[r] = "mapped" THEN "remove_remote" ELSE "end"
      /\ held'[r] = held[r] \cup IF place[r] = "mapped" THEN {"remote"} ELSE {}
      /\ failing'[r]
  BY <1>0, <1>1 DEF TypeOK
<1>3. TypeOK'
  <2>1. /\ stage' \in [Runs -> {"idle", "client", "copy", "remove_remote", "publish", "clean",
                              "read", "end", "done", "failed", "killed"}]
        /\ failing' \in [Runs -> BOOLEAN]
    BY <1>0, <1>1 DEF TypeOK
  <2>2. held' \in [Runs -> SUBSET {"remote", "pgpass"}]
    BY <1>0, <1>1 DEF TypeOK
  <2>3. ASSUME NEW q \in Runs
        PROVE  /\ "pgpass" \in held'[q] => place'[q] = "local"
               /\ "remote" \in held'[q] => place'[q] = "mapped"
    BY <1>0, <1>1 DEF TypeOK
  <2>4. QED
    BY <1>0, <1>1, <2>1, <2>2, <2>3 DEF TypeOK
<1>4. \A q \in Runs \ {r} : Kept(q)
  BY <1>0, <1>1 DEF TypeOK, Kept
<1>5. RunKnows(r)' /\ RestoreKnows(r)'
  BY <1>0, <1>1, <1>2 DEF RunKnows, RestoreKnows
<1>6. stage[r] \notin Beyond /\ r \notin Dumps
  BY <1>1 DEF Beyond
<1>7. QED
  BY <1>1, <1>3, <1>4, <1>5, <1>6, StepInvariant

LEMMA ListInvariant ==
  ASSUME ArchiveInvariant, NEW r \in Restores, List(r)
  PROVE  ArchiveInvariant'
<1> USE RunsAssumption, FilesAssumption DEF Runs
<1>0. TypeOK /\ RunKnows(r) /\ RestoreKnows(r)
  BY DEF ArchiveInvariant
<1> DEFINE damaged == Input(r).state = "damaged"
<1>1. /\ stage[r] = "read" /\ UNCHANGED <<place, path, temp, stuck, fed, target, files>>
      /\ stage' = [stage EXCEPT ![r] = IF place[r] = "mapped" THEN "remove_remote"
                                       ELSE IF damaged THEN "end" ELSE "read"]
      /\ held' = [held EXCEPT ![r] = @ \cup IF place[r] = "mapped" THEN {"remote"} ELSE {}]
      /\ failing' = [failing EXCEPT ![r] = @ \/ damaged]
      /\ listed' = [listed EXCEPT ![r] = ~damaged]
  BY DEF List, Hold, Failing, Goto
<1> HIDE DEF damaged
<1>2. /\ stage'[r] = IF place[r] = "mapped" THEN "remove_remote"
                     ELSE IF damaged THEN "end" ELSE "read"
      /\ held'[r] = held[r] \cup IF place[r] = "mapped" THEN {"remote"} ELSE {}
      /\ failing'[r] <=> damaged
      /\ listed'[r] <=> ~damaged
  BY <1>0, <1>1 DEF TypeOK, RunKnows
<1>3. TypeOK'
  <2>1. /\ stage' \in [Runs -> {"idle", "client", "copy", "remove_remote", "publish", "clean",
                              "read", "end", "done", "failed", "killed"}]
    BY <1>0, <1>1 DEF TypeOK
  <2>2. held' \in [Runs -> SUBSET {"remote", "pgpass"}]
    BY <1>0, <1>1 DEF TypeOK
  <2>3. ASSUME NEW q \in Runs
        PROVE  /\ "pgpass" \in held'[q] => place'[q] = "local"
               /\ "remote" \in held'[q] => place'[q] = "mapped"
    BY <1>0, <1>1 DEF TypeOK
  <2>4. failing' \in [Runs -> BOOLEAN] /\ listed' \in [Restores -> BOOLEAN]
    BY <1>0, <1>1 DEF TypeOK, damaged
  <2>5. QED
    BY <1>0, <1>1, <2>1, <2>2, <2>3, <2>4 DEF TypeOK
<1>4. \A q \in Runs \ {r} : Kept(q)
  BY <1>0, <1>1 DEF TypeOK, Kept
<1>5. RunKnows(r)' /\ RestoreKnows(r)'
  BY <1>0, <1>1, <1>2 DEF RunKnows, RestoreKnows
<1>6. stage[r] \notin Beyond /\ r \notin Dumps
  BY <1>1 DEF Beyond
<1>7. QED
  BY <1>1, <1>3, <1>4, <1>5, <1>6, StepInvariant

LEMMA RestoreStepInvariant ==
  ASSUME ArchiveInvariant, NEW r \in Restores, Restore(r)
  PROVE  ArchiveInvariant'
<1> USE RunsAssumption, FilesAssumption DEF Runs
<1>0. TypeOK /\ RunKnows(r) /\ RestoreKnows(r) /\ path[r] \in Name \cup {UsersFile}
  BY DEF ArchiveInvariant, TypeOK
<1>1. /\ stage[r] = "read" /\ UNCHANGED <<place, path, temp, listed, files>>
      /\ stage' = [stage EXCEPT ![r] = IF place[r] = "mapped" THEN "remove_remote" ELSE "end"]
      /\ failing' = [failing EXCEPT ![r] = @ \/ target'[r] # "all"]
      /\ fed' = [fed EXCEPT ![r] = Input(r)]
  BY DEF Restore, Reads, Failing, Goto
<1>2. Input(r) \in File /\ (path[r] \in Name => Input(r).state = "whole")
  <2>1. files[path[r]] # NoFile /\ files[path[r]] \in File
    BY <1>0, <1>1 DEF RestoreKnows, TypeOK
  <2>2. path[r] \in Name => NameKnows(path[r])
    BY DEF ArchiveInvariant
  <2>3. QED
    BY <2>1, <2>2 DEF NameKnows, Input
<1>3. PICK much \in {"before", "part", "all"} :
        /\ target' = [target EXCEPT ![r] = much]
        /\ much = "all" => Input(r).state = "whole"
        /\ much # "before" => Input(r).state # "damaged"
  <2>1. Input(r).state \in States
    BY <1>2 DEF File
  <2>2. CASE Input(r).state = "whole"
    BY <2>2 DEF Restore
  <2>3. CASE Input(r).state = "cut"
    BY <2>3 DEF Restore
  <2>4. CASE Input(r).state = "damaged"
    BY <2>4 DEF Restore
  <2>5. QED
    BY <2>1, <2>2, <2>3, <2>4 DEF States
<1>4. /\ stage'[r] = IF place[r] = "mapped" THEN "remove_remote" ELSE "end"
      /\ fed'[r] = Input(r) /\ target'[r] = much
      /\ failing'[r] <=> much # "all"
  BY <1>0, <1>1, <1>3 DEF TypeOK, RunKnows
<1>5. /\ held' \in [Runs -> SUBSET {"remote", "pgpass"}]
      /\ stuck' \in [Runs -> SUBSET {"remote", "pgpass", "temp"}]
      /\ \A q \in Runs \ {r} : held'[q] = held[q] /\ stuck'[q] = stuck[q]
      /\ "pgpass" \in held'[r] => place'[r] = "local"
      /\ "remote" \in held'[r] => place'[r] = "mapped"
      /\ place[r] # "mapped" => held'[r] \subseteq stuck'[r]
  <2>1. held[r] \subseteq stuck[r]
    BY <1>0, <1>1 DEF RunKnows
  <2>2. CASE held' = [held EXCEPT ![r] = @ \cup {"remote"}] /\ stuck' = stuck /\ place[r] = "mapped"
    BY <1>0, <1>1, <2>2 DEF TypeOK
  <2>3. CASE UNCHANGED <<held, stuck>> /\ place[r] # "mapped"
    BY <1>0, <1>1, <2>1, <2>3 DEF TypeOK
  <2>4. CASE /\ held' = [held EXCEPT ![r] = @ \cup {"pgpass"}] /\ place[r] = "local"
             /\ stuck' = [stuck EXCEPT ![r] = @ \cup {"pgpass"}]
    BY <1>0, <1>1, <2>1, <2>4 DEF TypeOK
  <2>5. place[r] \in Places
    BY <1>0 DEF TypeOK
  <2>6. QED
    BY <2>2, <2>3, <2>4, <2>5 DEF Restore, Hold, Places
<1>6. TypeOK'
  <2>1. /\ stage' \in [Runs -> {"idle", "client", "copy", "remove_remote", "publish", "clean",
                              "read", "end", "done", "failed", "killed"}]
        /\ failing' \in [Runs -> BOOLEAN]
    BY <1>0, <1>1 DEF TypeOK
  <2>2. /\ fed' \in [Restores -> File \cup {NoFile}]
        /\ target' \in [Restores -> {"before", "part", "all"}]
    BY <1>0, <1>1, <1>2, <1>3 DEF TypeOK
  <2>3. ASSUME NEW q \in Runs
        PROVE  /\ "pgpass" \in held'[q] => place'[q] = "local"
               /\ "remote" \in held'[q] => place'[q] = "mapped"
    BY <1>0, <1>1, <1>5 DEF TypeOK
  <2>4. QED
    BY <1>0, <1>1, <1>5, <2>1, <2>2, <2>3 DEF TypeOK
<1>7. \A q \in Runs \ {r} : Kept(q)
  BY <1>0, <1>1, <1>3, <1>5 DEF TypeOK, Kept
<1>8. RunKnows(r)'
  BY <1>0, <1>1, <1>4, <1>5 DEF RunKnows
<1>9. RestoreKnows(r)'
  <2>1. Input(r) # NoFile
    BY <1>2
  <2>2. QED
    BY <1>0, <1>1, <1>2, <1>3, <1>4, <2>1 DEF RestoreKnows
<1>10. stage[r] \notin Beyond /\ r \notin Dumps
  BY <1>1 DEF Beyond
<1>11. QED
  BY <1>1, <1>6, <1>7, <1>8, <1>9, <1>10, StepInvariant

-----------------------------------------------------------------------------
(* The steps of both, and of the user.                                     *)

LEMMA RemoveRemoteInvariant ==
  ASSUME ArchiveInvariant, NEW r \in Runs, RemoveRemote(r)
  PROVE  ArchiveInvariant'
<1> USE RunsAssumption, FilesAssumption DEF Runs
<1>0. /\ TypeOK /\ RunKnows(r) /\ (r \in Dumps => DumpKnows(r)) /\ (r \in Restores => RestoreKnows(r))
      /\ stage[r] = "remove_remote" /\ place[r] = "mapped"
  BY DEF ArchiveInvariant, RemoveRemote, RunKnows
<1> DEFINE next(raised) == IF ~failing[r] /\ ~raised THEN AfterRemoval(r)
                           ELSE IF r \in Dumps THEN "clean" ELSE "end"
<1>1. PICK raised \in BOOLEAN :
        /\ UNCHANGED <<place, path, temp, fed, target, listed, files>>
        /\ stage' = [stage EXCEPT ![r] = next(raised)]
        /\ failing' = [failing EXCEPT ![r] = @ \/ raised]
        /\ \/ held' = [held EXCEPT ![r] = @ \ {"remote"}] /\ UNCHANGED stuck
           \/ stuck' = [stuck EXCEPT ![r] = @ \cup {"remote"}] /\ UNCHANGED held
  BY DEF RemoveRemote, Failing, Drop, Goto, restored
<1>2. AfterRemoval(r) = IF r \in Dumps THEN "publish"
                        ELSE IF listed[r] /\ target[r] = "before" THEN "read" ELSE "end"
  BY DEF AfterRemoval
<1>3. next(raised) \in {"publish", "read", "clean", "end"}
  BY <1>2
<1>4. stage'[r] = next(raised) /\ (failing'[r] <=> failing[r] \/ raised)
  BY <1>0, <1>1 DEF TypeOK
<1>5. /\ held' \in [Runs -> SUBSET {"remote", "pgpass"}]
      /\ stuck' \in [Runs -> SUBSET {"remote", "pgpass", "temp"}]
      /\ \A q \in Runs \ {r} : held'[q] = held[q] /\ stuck'[q] = stuck[q]
      /\ \A q \in Runs : held'[q] \subseteq held[q]
      /\ held'[r] \subseteq stuck'[r]
  <2>1. held[r] \subseteq {"remote"}
    BY <1>0 DEF TypeOK
  <2>2. CASE held' = [held EXCEPT ![r] = @ \ {"remote"}] /\ UNCHANGED stuck
    BY <1>0, <2>1, <2>2 DEF TypeOK
  <2>3. CASE stuck' = [stuck EXCEPT ![r] = @ \cup {"remote"}] /\ UNCHANGED held
    BY <1>0, <2>1, <2>3 DEF TypeOK
  <2>4. QED
    BY <1>1, <2>2, <2>3
<1>6. TypeOK'
  <2> HIDE DEF next
  <2>1. /\ stage' \in [Runs -> {"idle", "client", "copy", "remove_remote", "publish", "clean",
                              "read", "end", "done", "failed", "killed"}]
    BY <1>0, <1>1, <1>3 DEF TypeOK
  <2>2. failing' \in [Runs -> BOOLEAN]
    BY <1>0, <1>1 DEF TypeOK
  <2>3. ASSUME NEW q \in Runs
        PROVE  /\ "pgpass" \in held'[q] => place'[q] = "local"
               /\ "remote" \in held'[q] => place'[q] = "mapped"
    BY <1>0, <1>1, <1>5 DEF TypeOK
  <2>4. QED
    BY <1>0, <1>1, <1>5, <2>1, <2>2, <2>3 DEF TypeOK
<1>7. \A q \in Runs \ {r} : Kept(q)
  <2> HIDE DEF next
  <2>1. QED
    BY <1>0, <1>1, <1>5 DEF TypeOK, Kept
<1>8. RunKnows(r)'
  BY <1>0, <1>1, <1>2, <1>4, <1>5 DEF RunKnows
<1>9. ASSUME r \in Dumps PROVE DumpKnows(r)'
  BY <1>0, <1>1, <1>2, <1>4, <1>9 DEF DumpKnows
<1>10. ASSUME r \in Restores PROVE RestoreKnows(r)'
  BY <1>0, <1>1, <1>2, <1>4, <1>10 DEF RestoreKnows
<1>11. stage[r] \notin Beyond
  BY <1>0 DEF Beyond
<1>12. QED
  BY <1>1, <1>6, <1>7, <1>8, <1>9, <1>10, <1>11, StepInvariant

LEMMA EndsInvariant ==
  ASSUME ArchiveInvariant, NEW r \in Runs, End(r) \/ Kill(r)
  PROVE  ArchiveInvariant'
<1> USE RunsAssumption DEF Runs
<1>0. /\ TypeOK /\ RunKnows(r) /\ (r \in Dumps => DumpKnows(r)) /\ (r \in Restores => RestoreKnows(r))
  BY DEF ArchiveInvariant
<1>1. PICK s \in {"failed", "done", "killed"} :
        /\ UNCHANGED <<place, path, failing, temp, held, stuck, fed, target, listed, files>>
        /\ stage' = [stage EXCEPT ![r] = s]
        /\ s # "killed" => stage[r] = "end"
        /\ s = "failed" => failing[r]
        /\ s = "done" => ~failing[r]
        /\ stage[r] # "idle"
  BY DEF End, Kill, Goto, restored
<1>2. stage'[r] = s
  BY <1>0, <1>1 DEF TypeOK
<1>3. TypeOK'
  <2>1. stage' \in [Runs -> {"idle", "client", "copy", "remove_remote", "publish", "clean",
                           "read", "end", "done", "failed", "killed"}]
    BY <1>0, <1>1 DEF TypeOK
  <2>2. QED
    BY <1>0, <1>1, <2>1 DEF TypeOK
<1>4. \A q \in Runs \ {r} : Kept(q)
  BY <1>0, <1>1 DEF TypeOK, Kept
<1>5. RunKnows(r)'
  BY <1>0, <1>1, <1>2 DEF RunKnows
<1>6. ASSUME r \in Dumps PROVE DumpKnows(r)'
  BY <1>0, <1>1, <1>2, <1>6 DEF DumpKnows
<1>7. ASSUME r \in Restores PROVE RestoreKnows(r)'
  BY <1>0, <1>1, <1>2, <1>7 DEF RestoreKnows
<1>8. CASE s # "failed"
  BY <1>1, <1>2, <1>3, <1>4, <1>5, <1>6, <1>7, <1>8, StepInvariant DEF Beyond
<1>9. CASE s = "failed"
  <2>1. ASSUME NEW n \in Name PROVE NameKnows(n)'
    <3>1. NameKnows(n)
      BY DEF ArchiveInvariant
    <3>2. files[n] # NoFile => files[n].by \in Runs \ {r}
      BY <1>1, <1>9, <3>1 DEF NameKnows
    <3>3. QED
      BY <1>1, <1>4, <3>1, <3>2 DEF NameKnows, Kept
  <2>2. \A q \in Runs : /\ RunKnows(q)' /\ (q \in Dumps => DumpKnows(q)')
                        /\ (q \in Restores => RestoreKnows(q)')
    BY <1>1, <1>4, <1>5, <1>6, <1>7, KeptKnows
  <2>3. files'[UsersFile] # NoFile
    BY <1>1 DEF ArchiveInvariant
  <2>4. QED
    BY <1>3, <2>1, <2>2, <2>3 DEF ArchiveInvariant
<1>10. QED
  BY <1>8, <1>9

LEMMA ReplaceUsersFileInvariant ==
  ASSUME ArchiveInvariant, ReplaceUsersFile
  PROVE  ArchiveInvariant'
<1> USE RunsAssumption, FilesAssumption DEF Runs
<1>0. TypeOK /\ files[UsersFile] # NoFile
  BY DEF ArchiveInvariant
<1>1. PICK s \in States : files' = [files EXCEPT ![UsersFile].state = s]
  BY DEF ReplaceUsersFile
<1>2. UNCHANGED <<stage, place, path, failing, temp, held, stuck, fed, target, listed>>
  BY DEF ReplaceUsersFile, restored
<1>3. files[UsersFile] \in File /\ files'[UsersFile] = [files[UsersFile] EXCEPT !.state = s]
  BY <1>0, <1>1 DEF TypeOK
<1>4. files'[UsersFile] \in File
  BY <1>3 DEF File, States
<1>5. \A n \in Name : files'[n] = files[n]
  BY <1>0, <1>1 DEF TypeOK
<1>6. files' \in [Name \cup {UsersFile} -> File \cup {NoFile}]
  <2>1. DOMAIN files' = Name \cup {UsersFile} /\ files' = [n \in Name \cup {UsersFile} |-> files'[n]]
    BY <1>0, <1>1 DEF TypeOK
  <2>2. \A n \in Name : files'[n] \in File \cup {NoFile}
    BY <1>0, <1>5 DEF TypeOK
  <2>3. QED
    BY <1>4, <2>1, <2>2
<1>7. TypeOK'
  BY <1>0, <1>2, <1>6 DEF TypeOK
<1>8. \A q \in Runs : Kept(q)
  BY <1>2 DEF Kept
<1>9. \A q \in Runs : /\ RunKnows(q)' /\ (q \in Dumps => DumpKnows(q)')
                      /\ (q \in Restores => RestoreKnows(q)')
  BY <1>4, <1>5, <1>8, KeptKnows
<1>10. \A n \in Name : NameKnows(n)'
  BY <1>2, <1>5 DEF ArchiveInvariant, NameKnows
<1>11. QED
  BY <1>4, <1>7, <1>9, <1>10 DEF ArchiveInvariant

LEMMA NextInvariant == ArchiveInvariant /\ [Next]_vars => ArchiveInvariant'
<1> SUFFICES ASSUME ArchiveInvariant, [Next]_vars PROVE ArchiveInvariant'
  OBVIOUS
<1>1. ASSUME NEW r \in Dumps,
             \/ \E p \in Name, where \in Places : BeginDump(r, p, where)
             \/ ClientEnds(r) \/ ClientFails(r) \/ Copy(r) \/ Publish(r) \/ Clean(r)
      PROVE  ArchiveInvariant'
  BY <1>1, BeginDumpInvariant, ClientEndsInvariant, ClientFailsInvariant, CopyInvariant,
     PublishInvariant, CleanInvariant
<1>2. ASSUME NEW r \in Restores,
             \/ \E p \in Name \cup {UsersFile}, where \in Places : BeginRestore(r, p, where)
             \/ ReadFails(r) \/ List(r) \/ Restore(r)
      PROVE  ArchiveInvariant'
  BY <1>2, BeginRestoreInvariant, ReadFailsInvariant, ListInvariant, RestoreStepInvariant
<1>3. CASE UNCHANGED vars
  <2> USE <1>3 DEF vars
  <2>1. TypeOK'
    BY DEF ArchiveInvariant, TypeOK
  <2>2. \A q \in Runs : RunKnows(q)'
    BY DEF ArchiveInvariant, RunKnows
  <2>3. \A q \in Dumps : DumpKnows(q)'
    BY DEF ArchiveInvariant, DumpKnows
  <2>4. \A q \in Restores : RestoreKnows(q)'
    BY DEF ArchiveInvariant, RestoreKnows
  <2>5. (\A n \in Name : NameKnows(n)') /\ files'[UsersFile] # NoFile
    BY DEF ArchiveInvariant, NameKnows
  <2>6. QED
    BY <2>1, <2>2, <2>3, <2>4, <2>5 DEF ArchiveInvariant
<1>4. QED
  BY <1>1, <1>2, <1>3, RemoveRemoteInvariant, EndsInvariant, ReplaceUsersFileInvariant DEF Next

-----------------------------------------------------------------------------
(* The theorems.                                                           *)

(* What the stages of dumps and restores know of their files, for any      *)
(* number of runs and names: the inductive invariant.                      *)
THEOREM ArchiveInvariantHolds == Spec => []ArchiveInvariant
  BY InitInvariant, NextInvariant, PTL DEF Spec

(* A run that ends by itself leaves no temporary, no password file and no  *)
(* copy in a container but those it could not remove: the finally clauses  *)
(* of dump.py and restore.py.                                              *)
THEOREM EndedRunsLeaveNothing == Spec => []NoResidue
<1>1. ArchiveInvariant => NoResidue
  BY DEF ArchiveInvariant, NoResidue, RunKnows, DumpKnows, Runs
<1>2. QED
  BY <1>1, ArchiveInvariantHolds, PTL

(* A dump that succeeds has published, one that fails has not; a restore   *)
(* that succeeds has restored one whole archive: dump_database and         *)
(* restore_database, side by side.                                         *)
THEOREM ReportsTrue == Spec => []ReportsAreTrue
<1>1. ASSUME ArchiveInvariant PROVE DumpReportIsTrue
  <2> SUFFICES ASSUME NEW r \in Dumps
      PROVE  /\ stage[r] = "done" => files[path[r]] # NoFile /\ path[files[path[r]].by] = path[r]
             /\ stage[r] = "failed" => \A n \in Name : files[n] # NoFile => files[n].by # r
    BY DEF DumpReportIsTrue
  <2>1. RunKnows(r) /\ DumpKnows(r) /\ \A n \in Name : NameKnows(n)
    BY <1>1 DEF ArchiveInvariant, Runs
  <2>2. QED
    BY <2>1 DEF RunKnows, DumpKnows, NameKnows
<1>2. ASSUME ArchiveInvariant PROVE RestoreReportIsTrue
  BY <1>2 DEF ArchiveInvariant, RestoreReportIsTrue, RestoreKnows, RunKnows, Runs
<1>3. ArchiveInvariant => ReportsAreTrue
  BY <1>1, <1>2 DEF ReportsAreTrue, ArchiveInvariant
<1>4. QED
  BY <1>3, ArchiveInvariantHolds, PTL

(* Every name only ever changes from nothing, or one whole archive, to     *)
(* another whole archive: what the temporary file and the rename of        *)
(* dump_database are for.                                                  *)
THEOREM ImplementsArtifacts == Spec => ImplementsAtomicArtifacts
<1> DEFINE shown == [n \in Name |-> files[n]]
<1>1. Init => Artifacts!Init
  BY FilesAssumption DEF Init, Artifacts!Init
<1>2. ASSUME ArchiveInvariant, [Next]_vars PROVE [Artifacts!Next]_shown
  <2>1. CASE files' = files
    BY <2>1
  <2>2. CASE ReplaceUsersFile
    <3>1. \A n \in Name : files'[n] = files[n]
      BY <1>2, <2>2, FilesAssumption DEF ReplaceUsersFile, ArchiveInvariant, TypeOK
    <3>2. QED
      BY <3>1
  <2>3. ASSUME NEW r \in Dumps, Publish(r), files' # files PROVE Artifacts!Next
    <3>1. /\ temp[r] # NoFile /\ temp[r].state = "whole" /\ path[r] \in Name
          /\ files' = [files EXCEPT ![path[r]] = temp[r]]
      BY <1>2, <2>3 DEF Publish, ArchiveInvariant, DumpKnows
    <3>2. shown'[path[r]] = temp[r] /\ \A n \in Name \ {path[r]} : shown'[n] = shown[n]
      BY <1>2, <3>1 DEF ArchiveInvariant, TypeOK
    <3>3. IsWholeArchive(shown'[path[r]])
      BY <3>1, <3>2 DEF IsWholeArchive
    <3>4. shown' = [shown EXCEPT ![path[r]] = shown'[path[r]]]
      BY <3>1, <3>2
    <3>5. QED
      BY <3>1, <3>3, <3>4 DEF Artifacts!Next, Artifacts!Publish
  <2>4. \/ files' = files \/ ReplaceUsersFile \/ \E r \in Dumps : Publish(r)
    BY <1>2 DEF Next, vars, restored, BeginDump, ClientEnds, ClientFails, Copy, Clean, BeginRestore,
                ReadFails, List, Restore, RemoveRemote, End, Kill
  <2>5. QED
    BY <2>1, <2>2, <2>3, <2>4
<1>3. QED
  BY <1>1, <1>2, ArchiveInvariantHolds, PTL DEF Spec, ImplementsAtomicArtifacts, Artifacts!Spec

=============================================================================
