---------------------------- MODULE Scripts_proofs ----------------------------
(***************************************************************************)
(* Proofs about the scripts that work in runs: the batch backup, for any   *)
(* number of runs that overlap, any configuration and any file names; and  *)
(* the installer, for any number of runs at the same clients, any command  *)
(* lines, any setups and any number of failures.                           *)
(***************************************************************************)
EXTENDS BackupBatch, Installer, SequenceTheorems, TLAPS

-----------------------------------------------------------------------------
(* Lists of results.                                                       *)

LEMMA EmptyLists == Lists(<<>>, 0)
<1>1. DOMAIN <<>> = {} /\ 1 .. 0 = {}
  OBVIOUS
<1>2. [i \in {} |-> 0] \in [{} -> {}]
  OBVIOUS
<1>3. QED
  BY <1>1, <1>2, Zenon DEF Lists

(* A target that is skipped adds nothing.                                  *)
LEMMA SkipLists ==
  ASSUME NEW m \in Seq(Result), NEW n \in Nat, Lists(m, n), Config[n + 1] \notin Enabled
  PROVE  Lists(m, n + 1)
<1>1. PICK at \in [DOMAIN m -> 1 .. n] :
        /\ \A i, j \in DOMAIN m : i < j => at[i] < at[j]
        /\ \A p \in 1 .. n : Config[p] \in Enabled <=> \E i \in DOMAIN m : at[i] = p
        /\ \A i \in DOMAIN m : m[i].target = Config[at[i]]
  BY DEF Lists
<1>2. at \in [DOMAIN m -> 1 .. n + 1] /\ \A i \in DOMAIN m : at[i] # n + 1
  BY <1>1
<1>3. \A p \in 1 .. n + 1 : Config[p] \in Enabled <=> \E i \in DOMAIN m : at[i] = p
  BY <1>1, <1>2
<1>4. QED
  BY <1>1, <1>2, <1>3 DEF Lists

(* One that is not adds its result.                                        *)
LEMMA AppendLists ==
  ASSUME NEW m \in Seq(Result), NEW n \in Nat, Lists(m, n), NEW e \in Result,
         Config[n + 1] \in Enabled, e.target = Config[n + 1]
  PROVE  Lists(Append(m, e), n + 1)
<1>1. PICK at \in [DOMAIN m -> 1 .. n] :
        /\ \A i, j \in DOMAIN m : i < j => at[i] < at[j]
        /\ \A p \in 1 .. n : Config[p] \in Enabled <=> \E i \in DOMAIN m : at[i] = p
        /\ \A i \in DOMAIN m : m[i].target = Config[at[i]]
  BY DEF Lists
<1> DEFINE longer == Append(m, e)
           beyond == [i \in DOMAIN longer |-> IF i \in DOMAIN m THEN at[i] ELSE n + 1]
<1>2. /\ DOMAIN m = 1 .. Len(m) /\ Len(m) \in Nat /\ DOMAIN longer = 1 .. Len(m) + 1
      /\ \A i \in DOMAIN m : longer[i] = m[i]
      /\ longer[Len(m) + 1] = e
  OBVIOUS
<1>3. /\ \A i \in DOMAIN m : beyond[i] = at[i] /\ beyond[i] \in 1 .. n
      /\ beyond[Len(m) + 1] = n + 1
  BY <1>1, <1>2
<1>4. beyond \in [DOMAIN longer -> 1 .. n + 1]
  BY <1>2, <1>3
<1> HIDE DEF longer, beyond
<1>5. \A i, j \in DOMAIN longer : i < j => beyond[i] < beyond[j]
  BY <1>1, <1>2, <1>3
<1>6. \A p \in 1 .. n + 1 : Config[p] \in Enabled <=> \E i \in DOMAIN longer : beyond[i] = p
  <2>1. ASSUME NEW p \in 1 .. n
        PROVE  Config[p] \in Enabled <=> \E i \in DOMAIN longer : beyond[i] = p
    <3>1. \A i \in DOMAIN longer : beyond[i] = p => i \in DOMAIN m /\ at[i] = p
      BY <1>2, <1>3
    <3>2. \A i \in DOMAIN m : at[i] = p => i \in DOMAIN longer /\ beyond[i] = p
      BY <1>2, <1>3
    <3>3. QED
      BY <1>1, <3>1, <3>2
  <2>2. \E i \in DOMAIN longer : beyond[i] = n + 1
    BY <1>2, <1>3
  <2>3. QED
    BY <2>1, <2>2
<1>7. \A i \in DOMAIN longer : longer[i].target = Config[beyond[i]]
  BY <1>1, <1>2, <1>3
<1>8. Lists(longer, n + 1)
  BY <1>4, <1>5, <1>6, <1>7 DEF Lists
<1>9. QED
  BY <1>8 DEF longer

-----------------------------------------------------------------------------
(* File names.                                                             *)

LEMMA NamesAreFiles == \A t \in Target : Names(t) \subseteq File
  BY NameAssumption DEF Names

LEMMA PlainName == \A t \in Target : Plain(t) \in File \cap Names(t)
<1>1. 0 \in Number
  BY NumberAssumption DEF Number
<1>2. QED
  BY <1>1, NamesAreFiles DEF Plain, Names

-----------------------------------------------------------------------------
(* What every step leaves alone.                                           *)

StepOf(r) == (\E mode \in Modes : Start(r, mode)) \/ Step(r) \/ Fail(r) \/ Kill(r) \/ Orphan(r)

Kept(q) ==
  /\ phase'[q] = phase[q] /\ resume'[q] = resume[q] /\ dir'[q] = dir[q]
  /\ position'[q] = position[q] /\ destination'[q] = destination[q] /\ results'[q] = results[q]

LEMMA Frame ==
  ASSUME TypeOK, NEW r \in Run, StepOf(r)
  PROVE  /\ \A q \in Run \ {r} : Kept(q)
         /\ phase'[r] # "idle"
         /\ phase[r] # "idle" => dir' = dir /\ resume' = resume
         /\ \/ files' = files
            \/ phase[r] \in {"dumping", "orphaned"} /\ Publish(r)
<1> USE DEF TypeOK, Kept, Enter, settings, disk, Active
<1>1. CASE \E mode \in Modes : Start(r, mode)
  BY <1>1 DEF Start
<1>2. CASE MakeDirectory(r)
  BY <1>2 DEF MakeDirectory
<1>3. CASE Skip(r) \/ Reuse(r)
  BY <1>3 DEF Skip, Reuse, Planning, Advance, Record
<1>4. CASE Plan(r)
  BY <1>4 DEF Plan, Planning
<1>5. CASE Dumped(r)
  BY <1>5 DEF Dumped, Advance, Record
<1>6. CASE DumpFailed(r)
  BY <1>6 DEF DumpFailed, Advance, Record
<1>7. CASE NameManifest(r) \/ OpenManifest(r) \/ WriteManifest(r)
  BY <1>7 DEF NameManifest, OpenManifest, WriteManifest
<1>8. CASE Fail(r) \/ Kill(r) \/ Orphan(r)
  BY <1>8 DEF Fail, Kill, Orphan
<1>9. QED
  BY <1>1, <1>2, <1>3, <1>4, <1>5, <1>6, <1>7, <1>8 DEF StepOf, Step

(* A directory once shared stays shared; a file once there stays there,    *)
(* and unless the directory is shared it stays as it is.                   *)
LEMMA DirectoriesGrow ==
  ASSUME BatchInvariant, NEW r \in Run, StepOf(r)
  PROVE  /\ \A d \in Number : UsedOnce(d)' => UsedOnce(d)
         /\ \A d \in Number, f \in File : files[d][f] # NoFile =>
              files'[d][f] # NoFile /\ (UsedOnce(d)' => files'[d][f] = files[d][f])
         /\ \A d \in Number, f \in File :
              files'[d][f] # files[d][f] => dir[r] = d /\ dir'[r] = d /\ phase[r] # "idle"
         /\ files' \in [Number -> [File -> Target \cup {NoFile}]]
         /\ \A d \in Number, f \in File : files'[d][f] # NoFile => f \in Names(files'[d][f])
<1>1. /\ \A q \in Run \ {r} : Kept(q)
      /\ phase'[r] # "idle"
      /\ phase[r] # "idle" => dir' = dir /\ resume' = resume
      /\ \/ files' = files
         \/ phase[r] \in {"dumping", "orphaned"} /\ Publish(r)
  BY Frame DEF BatchInvariant
<1>2. \A d \in Number : UsedOnce(d)' => UsedOnce(d)
  BY <1>1 DEF UsedOnce, Kept
<1>3. CASE files' = files
  BY <1>2, <1>3 DEF BatchInvariant, DiskKnows, TypeOK
<1>4. CASE phase[r] \in {"dumping", "orphaned"} /\ Publish(r)
  <2>1. /\ RunKnows(r) /\ position[r] <= Len(Config) /\ Current(r) \in Enabled
        /\ destination[r] \in File \cap Names(Current(r))
        /\ UsedOnce(dir[r]) => files[dir[r]][destination[r]] = NoFile
    BY <1>4 DEF BatchInvariant, RunKnows
  <2>2. dir[r] \in Number /\ files \in [Number -> [File -> Target \cup {NoFile}]]
    BY DEF BatchInvariant, TypeOK
  <2>3. Current(r) \in Target /\ Current(r) # NoFile
    BY <2>1, ConfigAssumption, NoFileAssumption
  <2>4. files' = [files EXCEPT ![dir[r]][destination[r]] = Current(r)]
    BY <1>4 DEF Publish
  <2>5. files' \in [Number -> [File -> Target \cup {NoFile}]]
    BY <2>1, <2>2, <2>3, <2>4
  <2>6. \A d \in Number, f \in File :
          files'[d][f] = IF d = dir[r] /\ f = destination[r] THEN Current(r) ELSE files[d][f]
    BY <2>1, <2>2, <2>4
  <2>7. \A d \in Number, f \in File : files[d][f] # NoFile => f \in Names(files[d][f])
    BY DEF BatchInvariant, DiskKnows
  <2>8. dir'[r] = dir[r] /\ phase[r] # "idle"
    BY <1>1, <1>4
  <2>9. QED
    BY <1>2, <2>1, <2>3, <2>5, <2>6, <2>7, <2>8
<1>5. QED
  BY <1>1, <1>3, <1>4

LEMMA StillHolds ==
  ASSUME BatchInvariant, NEW r \in Run, StepOf(r), NEW d \in Number, NEW result, Holds(d, result)
  PROVE  Holds(d, result)'
BY DirectoriesGrow DEF Holds, Backup

LEMMA KeptKnows ==
  ASSUME BatchInvariant, NEW r \in Run, StepOf(r), NEW q \in Run \ {r}
  PROVE  RunKnows(q)'
<1>1. Kept(q) /\ phase'[r] # "idle"
  BY Frame DEF BatchInvariant
<1>2. RunKnows(q) /\ dir[q] \in Number
  BY DEF BatchInvariant, TypeOK
<1>3. PICK d \in Number : d = dir[q] /\ d = dir'[q]
  BY <1>1, <1>2 DEF Kept
<1>4. \A i \in DOMAIN results[q] : Holds(d, results[q][i])
  BY <1>2, <1>3 DEF RunKnows
<1>5. ASSUME NEW m, m = results[q], NEW i \in DOMAIN m PROVE Holds(d, m[i])'
  BY <1>4, <1>5, StillHolds
<1>6. (\A i \in DOMAIN results[q] : Holds(d, results[q][i]))'
  BY <1>1, <1>5 DEF Kept, Holds, Backup
<1>7. /\ ~UsedOnce(d) => ~UsedOnce(d)'
      /\ \A f \in File : files'[d][f] # files[d][f] => dir'[r] = d
  BY DirectoriesGrow
<1>8. phase[q] \in {"dumping", "orphaned"} /\ UsedOnce(d)' => files'[d][destination[q]] = NoFile
  <2>1. SUFFICES ASSUME phase[q] \in {"dumping", "orphaned"}, UsedOnce(d)'
                 PROVE  files'[d][destination[q]] = NoFile
    OBVIOUS
  <2>2. destination[q] \in File /\ files[d][destination[q]] = NoFile
    BY <1>2, <1>3, <1>7, <2>1 DEF RunKnows
  <2>3. dir'[r] # d
    BY <1>1, <1>3, <2>1 DEF UsedOnce, Kept
  <2>4. QED
    BY <1>7, <2>2, <2>3
<1>9. Current(q)' = Current(q)
  BY <1>1 DEF Current, Kept
<1>10. Lists(results[q], position[q] - 1)'
  BY <1>1, <1>2 DEF RunKnows, Kept, Lists
<1>11. QED
  BY <1>1, <1>2, <1>3, <1>6, <1>7, <1>8, <1>9, <1>10 DEF RunKnows, Kept, Holds, Backup

(* The results of the run that acts: either they stay as they are, or the  *)
(* one of its current target is added.                                     *)
ResultsKnown(r) ==
  /\ Lists(results[r], position[r] - 1)
  /\ \A i \in DOMAIN results[r] : Holds(dir[r], results[r][i])
  /\ resume[r] => ~UsedOnce(dir[r])

LEMMA SameResults ==
  ASSUME BatchInvariant, NEW r \in Run, StepOf(r), phase[r] # "idle",
         results'[r] = results[r], position'[r] = position[r]
  PROVE  ResultsKnown(r)'
<1>1. RunKnows(r) /\ dir[r] \in Number /\ dir' = dir /\ resume' = resume
  BY Frame DEF BatchInvariant, TypeOK
<1>2. PICK d \in Number : d = dir[r] /\ d = dir'[r]
  BY <1>1
<1>3. ASSUME NEW m, m = results[r], NEW i \in DOMAIN m PROVE Holds(d, m[i])'
  BY <1>1, <1>2, <1>3, StillHolds DEF RunKnows
<1>4. (\A i \in DOMAIN results[r] : Holds(d, results[r][i]))'
  BY <1>3 DEF Holds, Backup
<1>5. ~UsedOnce(d) => ~UsedOnce(d)'
  BY DirectoriesGrow
<1>6. Lists(results[r], position[r] - 1)'
  BY <1>1 DEF RunKnows, Lists
<1>7. QED
  BY <1>1, <1>2, <1>4, <1>5, <1>6 DEF ResultsKnown, RunKnows

LEMMA SkippedResults ==
  ASSUME BatchInvariant, NEW r \in Run, StepOf(r), phase[r] # "idle",
         results'[r] = results[r], position'[r] = position[r] + 1, Current(r) \notin Enabled
  PROVE  ResultsKnown(r)'
<1>1. RunKnows(r) /\ dir[r] \in Number /\ dir' = dir /\ resume' = resume
  BY Frame DEF BatchInvariant, TypeOK
<1>2. PICK d \in Number : d = dir[r] /\ d = dir'[r]
  BY <1>1
<1>3. ASSUME NEW m, m = results[r], NEW i \in DOMAIN m PROVE Holds(d, m[i])'
  BY <1>1, <1>2, <1>3, StillHolds DEF RunKnows
<1>4. (\A i \in DOMAIN results[r] : Holds(d, results[r][i]))'
  BY <1>3 DEF Holds, Backup
<1>5. ~UsedOnce(d) => ~UsedOnce(d)'
  BY DirectoriesGrow
<1>6. PICK n \in Nat : n = position[r] - 1 /\ position'[r] - 1 = n + 1
  <2>1. Len(Config) \in Nat /\ position[r] \in 1 .. Len(Config) + 1
    BY ConfigAssumption DEF BatchInvariant, TypeOK
  <2>2. position[r] - 1 \in Nat /\ position'[r] - 1 = (position[r] - 1) + 1
    BY <2>1
  <2>3. QED
    BY <2>2
<1>7. results[r] \in Seq(Result) /\ Lists(results[r], n) /\ Config[n + 1] \notin Enabled
  BY <1>1, <1>6 DEF BatchInvariant, TypeOK, RunKnows, Current
<1>8. Lists(results[r], n + 1)
  BY <1>7, SkipLists
<1>9. Lists(results[r], position[r] - 1)'
  BY <1>6, <1>8 DEF Lists
<1>10. QED
  BY <1>1, <1>2, <1>4, <1>5, <1>9 DEF ResultsKnown, RunKnows

LEMMA RecordedResults ==
  ASSUME BatchInvariant, NEW r \in Run, StepOf(r), phase[r] # "idle",
         NEW e \in Result, results'[r] = Append(results[r], e), position'[r] = position[r] + 1,
         Current(r) \in Enabled, e.target = Current(r), NEW d \in Number, d = dir[r], Holds(d, e)'
  PROVE  ResultsKnown(r)'
<1>1. RunKnows(r) /\ dir[r] \in Number /\ dir' = dir /\ resume' = resume /\ dir'[r] = d
  BY Frame DEF BatchInvariant, TypeOK
<1>2. PICK m \in Seq(Result) : m = results[r]
  BY DEF BatchInvariant, TypeOK
<1>3. ASSUME NEW i \in DOMAIN m PROVE Holds(d, m[i])'
  BY <1>1, <1>2, StillHolds DEF RunKnows
<1>4. \A i \in DOMAIN Append(m, e) : (i \in DOMAIN m /\ Append(m, e)[i] = m[i]) \/ Append(m, e)[i] = e
  OBVIOUS
<1>5. (\A i \in DOMAIN Append(m, e) : Holds(d, Append(m, e)[i]))'
  BY <1>3, <1>4 DEF Holds, Backup
<1>6. (\A i \in DOMAIN results[r] : Holds(d, results[r][i]))'
  BY <1>2, <1>5 DEF Holds, Backup
<1>7. ~UsedOnce(d) => ~UsedOnce(d)'
  BY DirectoriesGrow
<1>8. PICK n \in Nat : n = position[r] - 1 /\ position'[r] - 1 = n + 1
  <2>1. Len(Config) \in Nat /\ position[r] \in 1 .. Len(Config) + 1
    BY ConfigAssumption DEF BatchInvariant, TypeOK
  <2>2. position[r] - 1 \in Nat /\ position'[r] - 1 = (position[r] - 1) + 1
    BY <2>1
  <2>3. QED
    BY <2>2
<1>9. Lists(m, n) /\ Config[n + 1] \in Enabled /\ e.target = Config[n + 1]
  BY <1>1, <1>2, <1>8 DEF BatchInvariant, TypeOK, RunKnows, Current
<1>10. Lists(Append(m, e), n + 1)
  BY <1>9, AppendLists
<1>11. Lists(results[r], position[r] - 1)'
  <2>1. PICK longer : longer = Append(m, e)
    OBVIOUS
  <2>2. results'[r] = longer /\ position'[r] - 1 = n + 1 /\ Lists(longer, n + 1)
    BY <1>2, <1>8, <1>10, <2>1
  <2>3. QED
    BY <2>2 DEF Lists
<1>12. QED
  BY <1>1, <1>6, <1>7, <1>11 DEF ResultsKnown, RunKnows

-----------------------------------------------------------------------------
(* What the run that acts knows, action by action.                         *)

LEMMA StartKnows ==
  ASSUME BatchInvariant, NEW r \in Run, NEW mode \in Modes, Start(r, mode)
  PROVE  RunKnows(r)'
<1>1. TypeOK /\ RunKnows(r) /\ phase[r] = "idle"
  BY DEF BatchInvariant, Start
<1>2. PICK d \in Number : /\ IF mode = "resume" THEN d \in dirs ELSE FirstFree(d, dirs)
                          /\ dir' = [dir EXCEPT ![r] = d]
  BY DEF Start
<1>3. dir'[r] = d /\ phase'[r] = "starting" /\ (resume'[r] <=> mode = "resume")
  BY <1>1, <1>2 DEF TypeOK, Start, Enter
<1>4. results'[r] = <<>> /\ position'[r] = 1
  BY <1>1 DEF RunKnows, Start
<1>5. Lists(results[r], position[r] - 1)'
  BY <1>4, EmptyLists
<1>6. resume'[r] => ~UsedOnce(dir[r])'
  <2>1. SUFFICES ASSUME mode = "resume" PROVE ~UsedOnce(d)'
    BY <1>3
  <2>2. PICK q \in Run : dir[q] = d /\ phase[q] # "idle"
    BY <1>2, <2>1 DEF BatchInvariant, DiskKnows
  <2>3. q # r /\ dir'[q] = d /\ phase'[q] # "idle"
    BY <1>1, <1>2, <2>2 DEF TypeOK, Start, Enter
  <2>4. QED
    BY <1>3, <2>3 DEF UsedOnce
<1>7. QED
  BY <1>3, <1>4, <1>5, <1>6 DEF RunKnows

(* Steps that leave the results alone and lead to no dump.                 *)
LEMMA QuietKnows ==
  ASSUME BatchInvariant, NEW r \in Run,
         \/ MakeDirectory(r) \/ NameManifest(r) \/ OpenManifest(r) \/ WriteManifest(r)
         \/ Fail(r) \/ Kill(r) \/ Orphan(r)
  PROVE  RunKnows(r)'
<1>1. TypeOK /\ RunKnows(r) /\ StepOf(r)
  BY DEF BatchInvariant, StepOf, Step
<1> USE DEF TypeOK, Enter, settings, disk, Active
<1>2. /\ phase[r] # "idle" /\ results' = results /\ position' = position /\ destination' = destination
      /\ dir' = dir
  BY <1>1 DEF MakeDirectory, NameManifest, OpenManifest, WriteManifest, Fail, Kill, Orphan
<1>3. phase'[r] # "idle"
  BY <1>1, Frame
<1>4. /\ phase'[r] = "orphaned" => phase[r] = "dumping" /\ files' = files
      /\ phase'[r] # "dumping"
  BY <1>1 DEF MakeDirectory, NameManifest, OpenManifest, WriteManifest, Fail, Kill, Orphan
<1>5. /\ phase'[r] \in {"opening", "writing", "complete", "incomplete"} => position[r] = Len(Config) + 1
      /\ phase'[r] = "complete" => \A i \in DOMAIN results[r] : results[r][i].status # "Failed"
  <2>1. CASE NameManifest(r)
    <3>1. Len(Config) \in Nat
      BY ConfigAssumption
    <3>2. QED
      BY <1>1, <2>1, <3>1 DEF NameManifest
  <2>2. CASE MakeDirectory(r) \/ OpenManifest(r) \/ WriteManifest(r) \/ Fail(r) \/ Kill(r) \/ Orphan(r)
    BY <1>1, <2>2 DEF RunKnows, MakeDirectory, OpenManifest, WriteManifest, Fail, Kill, Orphan
  <2>3. QED
    BY <2>1, <2>2
<1>6. ResultsKnown(r)'
  BY <1>1, <1>2, SameResults
<1>7. phase'[r] = "orphaned" =>
        /\ position[r] <= Len(Config) /\ Current(r)' \in Enabled
        /\ destination'[r] \in File \cap Names(Current(r)')
        /\ UsedOnce(dir[r])' => files'[dir'[r]][destination'[r]] = NoFile
  <2>1. SUFFICES ASSUME phase'[r] = "orphaned" PROVE
        /\ position[r] <= Len(Config) /\ Current(r)' \in Enabled
        /\ destination'[r] \in File \cap Names(Current(r)')
        /\ UsedOnce(dir[r])' => files'[dir'[r]][destination'[r]] = NoFile
    OBVIOUS
  <2>2. PICK d \in Number : d = dir[r] /\ d = dir'[r]
    BY <1>1, <1>2
  <2>3. UsedOnce(d)' => UsedOnce(d)
    BY <1>1, DirectoriesGrow
  <2>4. UsedOnce(d) => files[d][destination[r]] = NoFile
    BY <1>1, <1>4, <2>1, <2>2 DEF RunKnows
  <2>5. QED
    BY <1>1, <1>2, <1>4, <2>1, <2>2, <2>3, <2>4 DEF RunKnows, Current
<1>8. QED
  BY <1>2, <1>3, <1>4, <1>5, <1>6, <1>7 DEF RunKnows, ResultsKnown

LEMMA SkipKnows ==
  ASSUME BatchInvariant, NEW r \in Run, Skip(r)
  PROVE  RunKnows(r)'
<1>1. TypeOK /\ StepOf(r) /\ phase[r] # "idle"
  BY DEF BatchInvariant, StepOf, Step, Skip, Planning
<1>2. /\ phase'[r] = "planning" /\ results'[r] = results[r] /\ position'[r] = position[r] + 1
      /\ Current(r) \notin Enabled
  BY <1>1 DEF TypeOK, Skip, Planning, Advance, Enter
<1>3. ResultsKnown(r)'
  BY <1>1, <1>2, SkippedResults
<1>4. QED
  BY <1>2, <1>3 DEF RunKnows, ResultsKnown

LEMMA ReuseKnows ==
  ASSUME BatchInvariant, NEW r \in Run, Reuse(r)
  PROVE  RunKnows(r)'
<1>1. TypeOK /\ RunKnows(r) /\ StepOf(r) /\ phase[r] # "idle"
  BY DEF BatchInvariant, StepOf, Step, Reuse, Planning
<1>2. PICK d \in Number : d = dir[r]
  BY <1>1 DEF TypeOK
<1>3. PICK t \in Target : t = Current(r)
  BY ConfigAssumption DEF Reuse
<1>4. PICK e : e = [target |-> t, status |-> "Reused", file |-> Plain(t)]
  OBVIOUS
<1>5. Plain(t) \in File \cap Names(t)
  BY PlainName
<1>6. /\ e \in Result /\ e.target = t /\ e.file = Plain(t)
  BY <1>4, <1>5 DEF Result
<1>7. /\ phase'[r] = "planning" /\ position'[r] = position[r] + 1
      /\ Current(r) \in Enabled /\ files' = files /\ resume[r] /\ files[d][Plain(t)] # NoFile
  BY <1>1, <1>2, <1>3 DEF TypeOK, Reuse, Planning, Advance, Enter, disk, Reusable, Present
<1>8. results'[r] = Append(results[r], e)
  BY <1>1, <1>3, <1>4 DEF TypeOK, Reuse, Record
<1>9. ~UsedOnce(d)'
  BY <1>1, <1>2, <1>7, DirectoriesGrow DEF RunKnows
<1>10. Holds(d, e)'
  BY <1>1, <1>5, <1>6, <1>7, <1>9, DirectoriesGrow DEF Holds, Backup
<1>11. ResultsKnown(r)'
  BY <1>1, <1>2, <1>3, <1>6, <1>7, <1>8, <1>10, RecordedResults
<1>12. QED
  BY <1>7, <1>11 DEF RunKnows, ResultsKnown

LEMMA PlanKnows ==
  ASSUME BatchInvariant, NEW r \in Run, Plan(r)
  PROVE  RunKnows(r)'
<1>1. TypeOK /\ RunKnows(r) /\ StepOf(r) /\ phase[r] # "idle"
  BY DEF BatchInvariant, StepOf, Step, Plan, Planning
<1>2. PICK d \in Number : d = dir[r] /\ d = dir'[r]
  BY <1>1 DEF TypeOK, Plan, settings
<1>3. PICK n \in Number :
        /\ IF resume[r] THEN n = 0
           ELSE FirstFree(n, {i \in Number : Present(r, Name[Current(r)][i])})
        /\ destination' = [destination EXCEPT ![r] = Name[Current(r)][n]]
  BY DEF Plan
<1>4. /\ phase'[r] = "dumping" /\ results'[r] = results[r] /\ position'[r] = position[r]
      /\ position[r] <= Len(Config) /\ Current(r) \in Enabled /\ files' = files
  BY <1>1 DEF TypeOK, Plan, Planning, Enter, disk
<1>5. /\ destination'[r] = Name[Current(r)][n]
      /\ destination'[r] \in File \cap Names(Current(r))
  <2>1. Current(r) \in Target
    BY <1>4, ConfigAssumption
  <2>2. QED
    BY <1>1, <1>3, <2>1, NamesAreFiles DEF TypeOK, Names
<1>6. Current(r)' = Current(r)
  BY <1>4 DEF Current
<1>7. UsedOnce(d)' => files[d][destination'[r]] = NoFile
  <2>1. UsedOnce(d)' => ~resume[r]
    BY <1>1, <1>2, DirectoriesGrow DEF RunKnows
  <2>2. QED
    BY <1>2, <1>3, <1>5, <2>1 DEF FirstFree, Present
<1>8. ResultsKnown(r)'
  BY <1>1, <1>4, SameResults
<1>9. QED
  BY <1>2, <1>4, <1>5, <1>6, <1>7, <1>8 DEF RunKnows, ResultsKnown

LEMMA DumpKnows ==
  ASSUME BatchInvariant, NEW r \in Run, Dumped(r) \/ DumpFailed(r)
  PROVE  RunKnows(r)'
<1>1. TypeOK /\ RunKnows(r) /\ StepOf(r) /\ phase[r] = "dumping"
  BY DEF BatchInvariant, StepOf, Step, Dumped, DumpFailed
<1>2. PICK d \in Number : d = dir[r]
  BY <1>1 DEF TypeOK
<1>3. PICK t \in Target : t = Current(r)
  BY <1>1, ConfigAssumption DEF RunKnows
<1>4. Current(r) \in Enabled /\ destination[r] \in File \cap Names(t)
  BY <1>1, <1>3 DEF RunKnows
<1>5. CASE Dumped(r)
  <2>1. PICK f \in File : f = destination[r]
    BY <1>4
  <2>2. PICK e : e = [target |-> t, status |-> "Succeeded", file |-> f]
    OBVIOUS
  <2>3. e \in Result /\ e.target = t /\ e.file = f
    BY <2>2 DEF Result
  <2>4. /\ phase'[r] = "planning" /\ position'[r] = position[r] + 1
        /\ results'[r] = Append(results[r], e)
    BY <1>1, <1>3, <1>5, <2>1, <2>2 DEF TypeOK, Dumped, Advance, Record, Enter
  <2>5. files'[d][f] = t /\ t # NoFile
    BY <1>1, <1>2, <1>3, <1>5, <2>1, NoFileAssumption DEF TypeOK, Dumped, Publish
  <2>6. Holds(d, e)'
    BY <1>4, <2>1, <2>3, <2>5 DEF Holds, Backup
  <2>7. ResultsKnown(r)'
    BY <1>1, <1>2, <1>3, <1>4, <2>3, <2>4, <2>6, RecordedResults
  <2>8. QED
    BY <2>4, <2>7 DEF RunKnows, ResultsKnown
<1>6. CASE DumpFailed(r) /\ continueOnError[r]
  <2>1. PICK e : e = [target |-> t, status |-> "Failed", file |-> NoFile]
    OBVIOUS
  <2>2. e \in Result /\ e.target = t /\ e.status = "Failed"
    BY <2>1 DEF Result
  <2>3. /\ phase'[r] = "planning" /\ position'[r] = position[r] + 1
        /\ results'[r] = Append(results[r], e)
    BY <1>1, <1>3, <1>6, <2>1 DEF TypeOK, DumpFailed, Advance, Record, Enter
  <2>4. Holds(d, e)'
    BY <2>2 DEF Holds, Backup
  <2>5. ResultsKnown(r)'
    BY <1>1, <1>2, <1>3, <1>4, <2>2, <2>3, <2>4, RecordedResults
  <2>6. QED
    BY <2>3, <2>5 DEF RunKnows, ResultsKnown
<1>7. CASE DumpFailed(r) /\ ~continueOnError[r]
  <2>1. phase'[r] = "failed" /\ results'[r] = results[r] /\ position'[r] = position[r]
    BY <1>1, <1>7 DEF TypeOK, DumpFailed, Enter
  <2>2. ResultsKnown(r)'
    BY <1>1, <2>1, SameResults
  <2>3. QED
    BY <2>1, <2>2 DEF RunKnows, ResultsKnown
<1>8. QED
  BY <1>5, <1>6, <1>7

LEMMA AllKnow ==
  ASSUME BatchInvariant, NEW r \in Run, StepOf(r)
  PROVE  \A q \in Run : RunKnows(q)'
<1>1. RunKnows(r)'
  BY StartKnows, QuietKnows, SkipKnows, ReuseKnows, PlanKnows, DumpKnows DEF StepOf, Step
<1>2. ASSUME NEW q \in Run \ {r} PROVE RunKnows(q)'
  BY KeptKnows
<1>3. QED
  BY <1>1, <1>2

-----------------------------------------------------------------------------
(* The disk.                                                               *)

LEMMA DiskStep ==
  ASSUME BatchInvariant, NEW r \in Run, StepOf(r)
  PROVE  /\ DiskKnows'
         /\ dirs' \subseteq Number
         /\ manifests' \in [Number -> [Number -> {NoFile, Torn} \cup Seq(Result)]]
<1>1. TypeOK /\ RunKnows(r) /\ DiskKnows
  BY DEF BatchInvariant
<1>2. dirs' = dirs \/ (dirs' = dirs \cup {dir[r]} /\ phase[r] # "idle")
  BY DEF StepOf, Step, Start, MakeDirectory, Skip, Reuse, Plan, Dumped, DumpFailed, NameManifest,
         OpenManifest, WriteManifest, Fail, Kill, Orphan, disk
<1>3. \/ manifests' = manifests
      \/ \E m \in {<<>>, Torn, results[r]} :
           /\ m = results[r] => m = <<>> \/ phase[r] = "writing"
           /\ manifests' = [manifests EXCEPT ![dir[r]][number[r]] = m]
  <2>1. CASE OpenManifest(r)
    BY <2>1 DEF OpenManifest
  <2>2. CASE WriteManifest(r) \/ (Fail(r) /\ manifests' # manifests)
    BY <2>2 DEF WriteManifest, Filled, Fail
  <2>3. QED
    BY <2>1, <2>2 DEF StepOf, Step, Start, MakeDirectory, Skip, Reuse, Plan, Dumped, DumpFailed,
                      NameManifest, Fail, Kill, Orphan, disk
<1>4. ASSUME NEW d \in Number, NEW n \in Number, NEW m, m = manifests'[d][n]
      PROVE  /\ m \in {NoFile, Torn} \cup Seq(Result)
             /\ Written(m) => Lists(m, Len(Config)) /\ \A i \in DOMAIN m : Holds(d, m[i])'
  <2>1. CASE m = manifests[d][n]
    <3>1. m \in {NoFile, Torn} \cup Seq(Result)
      BY <1>1, <2>1 DEF TypeOK
    <3>2. Written(m) => Lists(m, Len(Config)) /\ \A i \in DOMAIN m : Holds(d, m[i])
      BY <1>1, <2>1 DEF DiskKnows
    <3>3. QED
      BY <3>1, <3>2, StillHolds
  <2>2. CASE m \in {<<>>, Torn}
    <3>1. <<>> \in Seq(Result) /\ ~Written(m)
      BY <2>2 DEF Written
    <3>2. QED
      BY <2>2, <3>1
  <2>3. CASE m = results[r] /\ phase[r] = "writing" /\ d = dir[r]
    <3>1. m \in Seq(Result)
      BY <1>1, <2>3 DEF TypeOK
    <3>2. position[r] - 1 = Len(Config)
      BY <1>1, <2>3, ConfigAssumption DEF RunKnows
    <3>3. Lists(m, Len(Config)) /\ \A i \in DOMAIN m : Holds(d, m[i])
      BY <1>1, <2>3, <3>2 DEF RunKnows
    <3>4. QED
      BY <3>1, <3>3, StillHolds
  <2>4. QED
    <3>1. CASE manifests' = manifests
      BY <1>4, <2>1, <3>1
    <3>2. ASSUME NEW v \in {<<>>, Torn, results[r]}, v = results[r] => v = <<>> \/ phase[r] = "writing",
                 manifests' = [manifests EXCEPT ![dir[r]][number[r]] = v]
          PROVE  m = manifests[d][n] \/ (m = v /\ d = dir[r])
      BY <1>1, <1>4, <3>2 DEF TypeOK
    <3>3. QED
      BY <1>3, <2>1, <2>2, <2>3, <3>1, <3>2
<1>5. manifests' \in [Number -> [Number -> {NoFile, Torn} \cup Seq(Result)]]
  <2> DEFINE Held == {NoFile, Torn} \cup Seq(Result)
  <2>1. manifests \in [Number -> [Number -> Held]] /\ dir[r] \in Number /\ number[r] \in Number
    BY <1>1 DEF TypeOK
  <2>2. {<<>>, Torn, results[r]} \subseteq Held
    BY <1>1 DEF TypeOK
  <2>3. PICK v \in Held : manifests' = manifests \/ manifests' = [manifests EXCEPT ![dir[r]][number[r]] = v]
    BY <1>3, <2>2
  <2> HIDE DEF Held
  <2>4. manifests' \in [Number -> [Number -> Held]]
    BY <2>1, <2>3
  <2>5. QED
    BY <2>4 DEF Held
<1>6. ASSUME NEW d \in Number, NEW n \in Number
      PROVE  Written(manifests[d][n])' =>
               /\ Lists(manifests[d][n], Len(Config))'
               /\ (\A i \in DOMAIN manifests[d][n] : Holds(d, manifests[d][n][i]))'
  <2>1. PICK m : m = manifests'[d][n]
    OBVIOUS
  <2>2. Written(m) => Lists(m, Len(Config)) /\ \A i \in DOMAIN m : Holds(d, m[i])'
    BY <1>4, <2>1
  <2>3. Written(manifests[d][n])' <=> Written(m)
    BY <2>1 DEF Written
  <2>4. Lists(manifests[d][n], Len(Config))' <=> Lists(m, Len(Config))
    BY <2>1 DEF Lists
  <2>5. (\A i \in DOMAIN m : Holds(d, m[i])')
           => (\A i \in DOMAIN manifests[d][n] : Holds(d, manifests[d][n][i]))'
    BY <2>1 DEF Holds, Backup
  <2>6. QED
    BY <2>2, <2>3, <2>4, <2>5
<1>7. \A d \in dirs' : \E q \in Run : dir'[q] = d /\ phase'[q] # "idle"
  <2>1. ASSUME NEW d \in dirs' PROVE \E q \in Run : dir[q] = d /\ phase[q] # "idle"
    BY <1>1, <1>2 DEF DiskKnows
  <2>2. ASSUME NEW q \in Run, phase[q] # "idle" PROVE dir'[q] = dir[q] /\ phase'[q] # "idle"
    BY <1>1, <2>2, Frame DEF Kept
  <2>3. QED
    BY <2>1, <2>2
<1>8. \A d \in Number, f \in File : files'[d][f] # NoFile => f \in Names(files'[d][f])
  BY DirectoriesGrow
<1>9. dirs' \subseteq Number
  BY <1>1, <1>2 DEF TypeOK
<1>10. QED
  BY <1>5, <1>6, <1>7, <1>8, <1>9 DEF DiskKnows

-----------------------------------------------------------------------------
(* The inductive invariant.                                                *)

LEMMA InitInvariant == Init => BatchInvariant
<1> SUFFICES ASSUME Init PROVE BatchInvariant
  OBVIOUS
<1>1. TypeOK
  <2>1. 0 \in Number /\ 1 \in 1 .. Len(Config) + 1 /\ <<>> \in Seq(Result)
    BY NumberAssumption, ConfigAssumption DEF Number
  <2>2. QED
    BY <2>1 DEF Init, TypeOK
<1>2. DiskKnows
  BY DEF Init, DiskKnows, Written
<1>3. \A r \in Run : RunKnows(r)
  <2>1. ASSUME NEW r \in Run
        PROVE  /\ phase[r] = "idle" /\ position[r] = 1 /\ results[r] = <<>>
               /\ Lists(results[r], position[r] - 1) /\ DOMAIN results[r] = {}
    BY EmptyLists DEF Init
  <2>2. QED
    BY <2>1 DEF RunKnows
<1>4. QED
  BY <1>1, <1>2, <1>3 DEF BatchInvariant

LEMMA TypesStep ==
  ASSUME BatchInvariant, NEW r \in Run, StepOf(r)
  PROVE  TypeOK'
<1>1. TypeOK /\ RunKnows(r)
  BY DEF BatchInvariant
<1>2. phase' \in [Run -> Active \cup {"idle", "orphaned", "complete", "incomplete", "failed", "killed"}]
  <2> USE <1>1 DEF TypeOK, Enter, Active
  <2>1. CASE \E mode \in Modes : Start(r, mode)
    BY <2>1 DEF Start
  <2>2. CASE MakeDirectory(r) \/ Plan(r) \/ NameManifest(r) \/ OpenManifest(r) \/ WriteManifest(r)
    BY <2>2 DEF MakeDirectory, Plan, NameManifest, OpenManifest, WriteManifest
  <2>3. CASE Skip(r) \/ Reuse(r) \/ Dumped(r) \/ DumpFailed(r)
    BY <2>3 DEF Skip, Reuse, Dumped, DumpFailed, Advance
  <2>4. CASE Fail(r) \/ Kill(r) \/ Orphan(r)
    BY <2>4 DEF Fail, Kill, Orphan
  <2>5. QED
    BY <2>1, <2>2, <2>3, <2>4 DEF StepOf, Step
<1>3. resume' \in [Run -> BOOLEAN] /\ continueOnError' \in [Run -> BOOLEAN] /\ dir' \in [Run -> Number]
  <2>1. CASE \E mode \in Modes : Start(r, mode)
    BY <1>1, <2>1 DEF TypeOK, Start
  <2>2. CASE UNCHANGED settings
    BY <1>1, <2>2 DEF TypeOK, settings
  <2>3. QED
    BY <2>1, <2>2 DEF StepOf, Step, MakeDirectory, Skip, Reuse, Plan, Dumped, DumpFailed,
                      NameManifest, OpenManifest, WriteManifest, Fail, Kill, Orphan
<1>4. number' \in [Run -> Number]
  <2>1. CASE NameManifest(r)
    BY <1>1, <2>1 DEF TypeOK, NameManifest
  <2>2. CASE UNCHANGED number
    BY <1>1, <2>2 DEF TypeOK
  <2>3. QED
    BY <2>1, <2>2 DEF StepOf, Step, Start, MakeDirectory, Skip, Reuse, Plan, Dumped, DumpFailed,
                      OpenManifest, WriteManifest, Fail, Kill, Orphan
<1>5. position' \in [Run -> 1 .. Len(Config) + 1]
  <2>1. CASE UNCHANGED position
    BY <1>1, <2>1 DEF TypeOK
  <2>2. CASE position[r] <= Len(Config) /\ position' = [position EXCEPT ![r] = @ + 1]
    BY <1>1, <2>2, ConfigAssumption DEF TypeOK
  <2>3. QED
    BY <1>1, <2>1, <2>2 DEF RunKnows, Advance, Planning, StepOf, Step, Start, MakeDirectory, Skip, Reuse,
         Plan, Dumped, DumpFailed, NameManifest, OpenManifest, WriteManifest, Fail, Kill, Orphan
<1>6. destination' \in [Run -> File \cup {NoFile}]
  <2>1. CASE Plan(r)
    <3>1. Current(r) \in Target
      BY <2>1, ConfigAssumption DEF Plan
    <3>2. QED
      BY <1>1, <2>1, <3>1, NamesAreFiles DEF TypeOK, Plan, Names
  <2>2. CASE UNCHANGED destination
    BY <1>1, <2>2 DEF TypeOK
  <2>3. QED
    BY <2>1, <2>2 DEF StepOf, Step, Start, MakeDirectory, Skip, Reuse, Dumped, DumpFailed,
         NameManifest, OpenManifest, WriteManifest, Fail, Kill, Orphan
<1>7. results' \in [Run -> Seq(Result)]
  <2>1. ASSUME NEW status, NEW f, Current(r) \in Target, Record(r, status, f),
               \/ status \in {"Succeeded", "Reused"} /\ f \in File
               \/ status = "Failed" /\ f = NoFile
        PROVE  results' \in [Run -> Seq(Result)]
    <3>1. PICK e : e = [target |-> Current(r), status |-> status, file |-> f]
      OBVIOUS
    <3>2. e \in Result
      BY <2>1, <3>1 DEF Result
    <3>3. results' = [results EXCEPT ![r] = Append(@, e)]
      BY <2>1, <3>1 DEF Record
    <3>4. QED
      BY <1>1, <3>2, <3>3 DEF TypeOK
  <2>2. CASE Reuse(r)
    <3>1. Current(r) \in Target
      BY <2>2, ConfigAssumption DEF Reuse
    <3>2. Plain(Current(r)) \in File
      BY <3>1, PlainName
    <3>3. QED
      BY <2>1, <2>2, <3>1, <3>2 DEF Reuse
  <2>3. CASE Dumped(r) \/ DumpFailed(r)
    <3>1. Current(r) \in Target /\ destination[r] \in File
      BY <1>1, <2>3, ConfigAssumption DEF RunKnows, Dumped, DumpFailed
    <3>2. CASE UNCHANGED results
      BY <1>1, <3>2 DEF TypeOK
    <3>3. QED
      BY <2>1, <2>3, <3>1, <3>2 DEF Dumped, DumpFailed
  <2>4. CASE UNCHANGED results
    BY <1>1, <2>4 DEF TypeOK
  <2>5. QED
    BY <2>2, <2>3, <2>4 DEF StepOf, Step, Start, MakeDirectory, Skip, Plan, NameManifest, OpenManifest,
         WriteManifest, Fail, Kill, Orphan
<1>8. QED
  BY <1>2, <1>3, <1>4, <1>5, <1>6, <1>7, DirectoriesGrow, DiskStep DEF TypeOK

LEMMA NextInvariant == BatchInvariant /\ [Next]_vars => BatchInvariant'
<1> SUFFICES ASSUME BatchInvariant, [Next]_vars PROVE BatchInvariant'
  OBVIOUS
<1>1. CASE \E r \in Run : StepOf(r)
  BY <1>1, TypesStep, DiskStep, AllKnow DEF BatchInvariant
<1>2. CASE UNCHANGED vars
  <2> USE <1>2 DEF vars
  <2>1. TypeOK'
    BY DEF BatchInvariant, TypeOK
  <2>2. DiskKnows'
    BY DEF BatchInvariant, DiskKnows, Written, Lists, Holds, Backup, UsedOnce
  <2>3. ASSUME NEW r \in Run PROVE RunKnows(r)'
    <3>1. RunKnows(r)
      BY DEF BatchInvariant
    <3>2. /\ Lists(results[r], position[r] - 1)' <=> Lists(results[r], position[r] - 1)
          /\ Current(r)' = Current(r)
      BY DEF Lists, Current
    <3>3. /\ UsedOnce(dir[r])' <=> UsedOnce(dir[r])
          /\ (\A i \in DOMAIN results[r] : Holds(dir[r], results[r][i]))'
                <=> \A i \in DOMAIN results[r] : Holds(dir[r], results[r][i])
      BY DEF Holds, Backup, UsedOnce
    <3>4. QED
      BY <3>1, <3>2, <3>3 DEF RunKnows
  <2>4. QED
    BY <2>1, <2>2, <2>3 DEF BatchInvariant
<1>3. QED
  BY <1>1, <1>2 DEF Next, StepOf

-----------------------------------------------------------------------------
(* The theorems.                                                           *)

(* What a run knows at each of its phases of its results, its next file    *)
(* and its directory, for any number of runs that overlap: the inductive   *)
(* invariant.                                                              *)
THEOREM BatchInvariantHolds == Spec => []BatchInvariant
  BY InitInvariant, NextInvariant, PTL DEF Spec

(* A written manifest lists the enabled targets, each once and in order,   *)
(* and names a backup of each that has not failed; a run that reports      *)
(* success has one of every enabled target in its directory.  What         *)
(* run_backups writes and returns, for any configuration, whatever fails   *)
(* or is killed.                                                           *)
THEOREM BatchReportsTrue == Spec => []ReportsAreTrue
<1>1. BatchInvariant => ManifestsAreTrue
  BY DEF BatchInvariant, DiskKnows, ManifestsAreTrue, Holds
<1>2. ASSUME BatchInvariant PROVE SuccessMeansBackedUp
  <2>1. SUFFICES ASSUME NEW r \in Run, phase[r] = "complete", NEW t \in Enabled
                 PROVE  \E f \in Names(t) : Backup(dir[r], t, f)
    BY DEF SuccessMeansBackedUp
  <2>2. RunKnows(r) /\ t \in Target
    BY <1>2, ConfigAssumption DEF BatchInvariant
  <2>3. Lists(results[r], Len(Config)) /\ Len(Config) \in Nat
    BY <2>1, <2>2, ConfigAssumption DEF RunKnows
  <2>4. PICK p \in 1 .. Len(Config) : t = Config[p]
    BY <2>1, ConfigAssumption
  <2>5. PICK i \in DOMAIN results[r] : results[r][i].target = t
    BY <2>3, <2>4 DEF Lists
  <2>6. Backup(dir[r], t, results[r][i].file)
    BY <2>1, <2>2, <2>5 DEF RunKnows, Holds
  <2>7. QED
    BY <2>6 DEF Backup
<1>3. BatchInvariant => ReportsAreTrue
  BY <1>1, <1>2 DEF ReportsAreTrue, BatchInvariant
<1>4. QED
  BY <1>3, BatchInvariantHolds, PTL

(* In a directory that one run has for itself no dump takes the file of    *)
(* an earlier one: output_path with its numbers, for any two targets whose *)
(* file names collide.                                                     *)
THEOREM NoBackupIsReplaced == Spec => NothingIsReplaced
<1>1. ASSUME BatchInvariant, [Next]_vars
      PROVE  [\A d \in Number : UsedOnce(d)' =>
                 \A f \in File : files[d][f] # NoFile => files'[d][f] = files[d][f]]_vars
  <2>1. CASE UNCHANGED vars
    BY <2>1
  <2>2. CASE \E r \in Run : StepOf(r)
    BY <1>1, <2>2, DirectoriesGrow
  <2>3. QED
    BY <1>1, <2>1, <2>2 DEF Next, StepOf
<1>2. QED
  BY <1>1, BatchInvariantHolds, PTL DEF Spec, NothingIsReplaced

-----------------------------------------------------------------------------
(* The installer: what its runs know, and keep to.                         *)

(* The stages of a run that works at its clients; those at which it        *)
(* replaces a skill.                                                       *)
Replacing == {"copy", "look", "move", "place", "undo", "restore", "clean", "tidy"}
InWork == {"working", "rmtree"} \cup Replacing

(* The clients a run still has before it.                                  *)
Listed(s) == {s[i] : i \in DOMAIN s}
Remaining(r) == Listed(todo[r])
Apart(s) == \A i, j \in DOMAIN s : s[i] = s[j] => i = j

(* select_targets finds something to do, and it does so each time.         *)
Selectable(r) ==
  /\ Requested(r) \subseteq available \/ (line[r].asked = {} /\ ~line[r].strict)
  /\ Requested(r) \cap available # {}

(* The course of a run: the clients it selected, those it has before it,   *)
(* and who has an outcome.                                                 *)
CourseOf(r) ==
  /\ Apart(targets[r])
  /\ TargetSet(r) # {} => Selectable(r)
  /\ stage[r] \notin {"idle", "refused"} \/ (\E c \in Clients : outcome[r][c] # "none") => Selectable(r)
  /\ stage[r] = "planning" =>
       \A c \in Clients : /\ outcome[r][c] \in {"none", "skipped"}
                          /\ c \in TargetSet(r) => outcome[r][c] = "none"
                          /\ c \in Requested(r) /\ outcome[r][c] = "none" => c \in TargetSet(r)
  /\ stage[r] \in InWork =>
       \A c \in Clients : /\ c \in Requested(r) /\ outcome[r][c] = "none" => c \in Remaining(r)
                          /\ c \in Remaining(r) => outcome[r][c] = "none"
  /\ stage[r] \in {"ok", "failed"} => \A c \in Requested(r) : outcome[r][c] # "none"
  /\ stage[r] \in Replacing \cup {"rmtree"} => todo[r] # <<>> /\ Changes(r)
  /\ stage[r] \in Replacing => line[r].command = "apply"
  /\ stage[r] = "rmtree" => line[r].command = "remove"
  /\ stage[r] = "crashed" => Changes(r)
  /\ asset = "plugin" => stage[r] \notin Replacing \cup {"rmtree", "crashed"}
  /\ asset = "skill" /\ stage[r] = "planning" => todo[r] = targets[r]

(* Where the run may not have changed a client, and nobody else has.       *)
Before(r, c) ==
  stage[r] \in {"planning", "refused"} \/ ~Changes(r) \/ (stage[r] \notin {"idle", "crashed"} /\ c \notin TargetSet(r))

-----------------------------------------------------------------------------
(* The plugin.                                                             *)
Plans ==
  {<<>>, <<"uninstall">>, <<"install">>, <<"update">>, <<"uninstall", "install">>,
   <<"register", "install">>, <<"register", "update">>}
IsPlanned(r, c) ==
  /\ Changes(r) /\ c \in TargetSet(r)
  /\ stage[r] = "working" \/ (stage[r] = "planning" /\ c \notin Remaining(r))

MarketsOffer ==
  /\ market["grok"] = "none"
  /\ \A c \in {"claude", "codex"} : plugin[c] \in {"none", market[c]}

PlanAt(r, c) ==
  /\ plan[r][c] \in {<<"uninstall">>, <<"uninstall", "install">>} /\ line[r].command # "remove" =>
       c = "grok" /\ had[r][c] = "other"
  /\ plan[r][c] \in {<<"register", "install">>, <<"register", "update">>} => c # "grok"
  /\ IsPlanned(r, c) /\ plan[r][c] = <<>> =>
       line[r].command = "remove" /\ (alone[r][c] => plugin[c] = "none")
  /\ IsPlanned(r, c) /\ line[r].command = "apply" /\ c = "codex" => market[c] # "other"
  /\ outcome[r][c] = "applied" /\ c = "codex" => market[c] # "other"
  /\ alone[r][c] =>
       /\ outcome[r][c] \in {"applied", "installed"} => plugin[c] # "none"
       /\ outcome[r][c] \in {"removed", "absent"} => plugin[c] = "none"
       /\ Before(r, c) => plugin[c] = had[r][c]
PlansOf(r) == \A c \in Clients : PlanAt(r, c)

NobodyRemoves == \A r \in Runs : line[r].command # "remove"
PluginStays ==
  /\ plugin["grok"] = "other" => \A r \in Runs : had[r]["grok"] = "other"
  /\ NobodyRemoves =>
       /\ \A r \in Runs, c \in {"claude", "codex"} : had[r][c] # "none" => plugin[c] # "none"
       /\ plugin["grok"] = "none" => \A r \in Runs : \E q \in Runs : had[q]["grok"] # "ours"

PluginTyped ==
  /\ plan \in [Runs -> [Clients -> Plans]]
  /\ sent \in [Runs -> 0 .. 2]
  /\ had \in [Runs -> [Clients -> Origins]]
  /\ market \in [Clients -> Origins] /\ plugin \in [Clients -> Origins]
PluginInvariant ==
  asset = "plugin" => MarketsOffer /\ PluginStays /\ \A r \in Runs : PlansOf(r)

-----------------------------------------------------------------------------
(* The skill.                                                              *)

(* Staging and backup directories, by stage.                               *)
Copies(r) == {Dir(r, TRUE), Dir(r, FALSE)}
BesideOf(r) ==
  /\ staging[r] \in Copies(r) \cup {Nothing}
  /\ stage[r] \in {"look", "move", "place"} => staging[r] = Dir(r, TRUE)
  /\ stage[r] \in {"undo", "restore"} => staging[r] # Nothing
  /\ stage[r] \notin {"look", "move", "place", "undo", "restore", "clean"} => staging[r] = Nothing
  /\ stage[r] \notin {"place", "undo", "restore", "clean", "tidy"} => backup[r] = Nothing

(* The skill has been published.                                           *)
Placed(r) == stage[r] = "tidy" \/ (stage[r] = "clean" /\ staging[r] = Nothing)

(* A run that nobody disturbs at the client at hand: the skill is what it  *)
(* was, or is in the backup, or the new one.                               *)
Undone(r, c) == backup[r] = Nothing /\ dest[c] = found[r][c]
MovedAway(r, c) == Exists(backup[r]) /\ backup[r] = found[r][c] /\ dest[c] = Nothing
SkillNow(r, c) ==
  /\ stage[r] \in {"copy", "look", "move"} => Undone(r, c)
  /\ stage[r] \in {"place", "undo"} => Undone(r, c) \/ MovedAway(r, c)
  /\ stage[r] = "restore" => MovedAway(r, c)
  /\ stage[r] = "clean" /\ ~Placed(r) => Undone(r, c)
  /\ Placed(r) => dest[c] = Dir(r, TRUE)
SkillAt(r, c) ==
  /\ outcome[r][c] \in {"applied", "installed"} => dest[c].is = "dir"
  /\ outcome[r][c] = "applied" => dest[c] = Dir(r, TRUE)
  /\ outcome[r][c] \in {"removed", "absent"} => dest[c].is # "dir"
  /\ outcome[r][c] = "failed" /\ line[r].command = "apply" => dest[c] = found[r][c]
  /\ Before(r, c) => dest[c] = found[r][c]
  /\ stage[r] \in InWork /\ c \in Remaining(r) =>
       IF stage[r] \in Replacing \cup {"rmtree"} /\ c = Client(r) THEN SkillNow(r, c)
       ELSE dest[c] = found[r][c]
SkillOf(r) == \A c \in Clients : alone[r][c] => SkillAt(r, c)

(* Of the skill a whole directory is kept where no run is about to delete  *)
(* it.                                                                     *)
KeptSafe(c) ==
  \/ dest[c].is = "dir"
  \/ \E q \in Runs : ~Placed(q) /\ todo[q] # <<>> /\ Client(q) = c /\ backup[q].is = "dir"
  \/ \E l \in left : l.client = c /\ l.is = "backup" /\ l.entry.is = "dir"
IsWhole(e) == e.is = "dir" => e.whole
SkillStays ==
  NobodyRemoves =>
    /\ \A c \in Clients : IsWhole(dest[c])
    /\ \A r \in Runs : IsWhole(backup[r])
    /\ \A l \in left : l.is = "backup" => IsWhole(l.entry)
    /\ \A r \in Runs, c \in Clients : found[r][c].is = "dir" => KeptSafe(c)

SkillInvariant ==
  /\ \A r \in Runs : BesideOf(r)
  /\ asset = "skill" => SkillStays /\ \A r \in Runs : SkillOf(r)
  /\ asset = "plugin" => \A c \in Clients : dest[c] = Nothing

InstallInvariant ==
  /\ RunTypeOK /\ PluginTyped /\ SkillTypeOK
  /\ \A r \in Runs : CourseOf(r)
  /\ PluginInvariant /\ SkillInvariant
  /\ ResidueIsExplained

-----------------------------------------------------------------------------
(* The clients of a run.                                                   *)

(* Two lists of different clients, one behind the other.                   *)
LEMMA ListsTogether ==
  ASSUME NEW s \in Seq(Clients), NEW t \in Seq(Clients), Apart(s), Apart(t),
         Listed(s) \cap Listed(t) = {}
  PROVE  s \o t \in Seq(Clients) /\ Apart(s \o t) /\ Listed(s \o t) = Listed(s) \cup Listed(t)
<1> DEFINE u == s \o t
<1>1. /\ u \in Seq(Clients) /\ Len(u) = Len(s) + Len(t)
      /\ \A i \in 1 .. Len(u) : u[i] = IF i <= Len(s) THEN s[i] ELSE t[i - Len(s)]
  BY ConcatProperties
<1>2. /\ Len(s) \in Nat /\ Len(t) \in Nat
      /\ DOMAIN s = 1 .. Len(s) /\ DOMAIN t = 1 .. Len(t) /\ DOMAIN u = 1 .. Len(u)
  BY <1>1, LenProperties
<1> HIDE DEF u
<1>3. ASSUME NEW i \in DOMAIN u
      PROVE  \/ i \in DOMAIN s /\ u[i] = s[i]
             \/ i - Len(s) \in DOMAIN t /\ u[i] = t[i - Len(s)]
  BY <1>1, <1>2
<1>4. /\ \A i \in DOMAIN s : i \in DOMAIN u /\ u[i] = s[i]
      /\ \A i \in DOMAIN t : i + Len(s) \in DOMAIN u /\ u[i + Len(s)] = t[i]
  BY <1>1, <1>2
<1>5. Listed(u) = Listed(s) \cup Listed(t)
  BY <1>3, <1>4 DEF Listed
<1>6. ASSUME NEW i \in DOMAIN u, NEW j \in DOMAIN u, u[i] = u[j] PROVE i = j
  <2>1. \A k \in DOMAIN s, l \in DOMAIN t : s[k] # t[l]
    BY DEF Listed
  <2>2. CASE i \in DOMAIN s /\ j \in DOMAIN s
    BY <1>4, <1>6, <2>2 DEF Apart
  <2>3. CASE i \notin DOMAIN s /\ j \notin DOMAIN s
    <3>1. i - Len(s) = j - Len(s)
      BY <1>3, <1>6, <2>3 DEF Apart
    <3> QED BY <1>2, <3>1
  <2>4. CASE (i \in DOMAIN s) # (j \in DOMAIN s)
    BY <1>3, <1>4, <1>6, <2>1, <2>4
  <2> QED BY <2>2, <2>3, <2>4
<1> QED BY <1>1, <1>5, <1>6 DEF u, Apart

(* InOrder lists a set of clients, each once.                              *)
LEMMA InOrderLists ==
  ASSUME NEW S \in SUBSET Clients
  PROVE  /\ InOrder(S) \in Seq(Clients) /\ Apart(InOrder(S)) /\ Listed(InOrder(S)) = S
         /\ InOrder(S) = <<>> <=> S = {}
<1> DEFINE Only(c) == IF c \in S THEN <<c>> ELSE <<>>
           two == Only("claude") \o Only("codex")
<1>1. ASSUME NEW c \in Clients
      PROVE  Only(c) \in Seq(Clients) /\ Apart(Only(c)) /\ Listed(Only(c)) = S \cap {c}
  <2>1. CASE c \in S
    BY <2>1 DEF Apart, Listed
  <2>2. CASE c \notin S
    BY <2>2 DEF Apart, Listed
  <2> QED BY <2>1, <2>2
<1> HIDE DEF Only
<1>2. two \in Seq(Clients) /\ Apart(two) /\ Listed(two) = S \cap {"claude", "codex"}
  BY <1>1, ListsTogether DEF Clients
<1> HIDE DEF two
<1>3. InOrder(S) = two \o Only("grok")
  BY DEF InOrder, Only, two
<1>4. InOrder(S) \in Seq(Clients) /\ Apart(InOrder(S)) /\ Listed(InOrder(S)) = S
  <2>1. Listed(two) \cap Listed(Only("grok")) = {} /\ Only("grok") \in Seq(Clients)
    BY <1>1, <1>2 DEF Clients
  <2>2. Listed(two) \cup Listed(Only("grok")) = S
    BY <1>1, <1>2 DEF Clients
  <2>3. Apart(Only("grok"))
    BY <1>1 DEF Clients
  <2> DEFINE third == Only("grok")
  <2> HIDE DEF third
  <2>4. two \o third \in Seq(Clients) /\ Apart(two \o third) /\ Listed(two \o third) = S
    BY <1>2, <2>1, <2>2, <2>3, ListsTogether DEF third
  <2> QED BY <1>3, <2>4 DEF third
<1>5. InOrder(S) = <<>> <=> Listed(InOrder(S)) = {}
  BY <1>4, LenProperties, EmptySeq DEF Listed
<1> QED BY <1>4, <1>5

(* What is left of the clients of a run that has some left.                *)
LEMMA RemainingClients ==
  ASSUME RunTypeOK, NEW r \in Runs, Apart(targets[r]), todo[r] # <<>>
  PROVE  /\ Client(r) \in Clients /\ Client(r) \in TargetSet(r) /\ Client(r) \in Remaining(r)
         /\ Tail(todo[r]) \in Seq(Clients)
         /\ Listed(Tail(todo[r])) = Remaining(r) \ {Client(r)}
         /\ \E n \in 0 .. Len(targets[r]) : Tail(todo[r]) = SubSeq(targets[r], n + 1, Len(targets[r]))
<1> DEFINE all == targets[r]
<1>1. PICK n \in 0 .. Len(all) : todo[r] = SubSeq(all, n + 1, Len(all))
  BY DEF RunTypeOK
<1>2. all \in Seq(Clients) /\ Len(all) \in Nat /\ DOMAIN all = 1 .. Len(all) /\ todo[r] \in Seq(Clients)
  BY LenProperties DEF RunTypeOK
<1>3. /\ Len(todo[r]) = Len(all) - n /\ DOMAIN todo[r] = 1 .. Len(all) - n
      /\ \A i \in 1 .. Len(all) - n : todo[r][i] = all[n + i]
  <2>1. PICK lo \in Nat, hi \in Nat : lo = n + 1 /\ hi = Len(all) /\ n = lo - 1 /\ lo <= hi + 1
    <3>1. n + 1 \in Nat /\ n = (n + 1) - 1 /\ n + 1 <= Len(all) + 1
      BY <1>1, <1>2
    <3> QED BY <1>2, <3>1
  <2>2. \A i \in lo .. hi : all[i] \in Clients
    BY <1>1, <1>2, <2>1
  <2>3. todo[r] = SubSeq(all, lo, hi)
    BY <1>1, <2>1
  <2>4. /\ Len(todo[r]) = IF lo <= hi THEN hi - lo + 1 ELSE 0
        /\ \A i \in 1 .. hi - lo + 1 : todo[r][i] = all[lo + i - 1]
    BY <2>1, <2>2, <2>3, SubSeqProperties
  <2>5. Len(todo[r]) = hi - lo + 1
    BY <2>1, <2>4
  <2>6. hi - lo + 1 = Len(all) - n /\ \A i \in 1 .. hi - lo + 1 : lo + i - 1 = n + i
    BY <2>1
  <2>7. DOMAIN todo[r] = 1 .. Len(todo[r])
    BY <1>2, LenProperties
  <2>8. \A i \in 1 .. hi - lo + 1 : todo[r][i] = all[n + i]
    BY <2>4, <2>6
  <2> QED BY <2>5, <2>6, <2>7, <2>8
<1>4. n < Len(all)
  BY <1>1, <1>2, <1>3
<1>5. Client(r) = all[n + 1] /\ Client(r) = todo[r][1]
  BY <1>2, <1>3, <1>4 DEF Client
<1>6. /\ Tail(todo[r]) \in Seq(Clients)
      /\ Len(Tail(todo[r])) = Len(all) - n - 1
      /\ \A i \in 1 .. Len(all) - n - 1 : Tail(todo[r])[i] = all[n + 1 + i] /\ Tail(todo[r])[i] = todo[r][i + 1]
  BY <1>2, <1>3, <1>4
<1>7. Client(r) \in Clients /\ Client(r) \in TargetSet(r) /\ Client(r) \in Remaining(r)
  <2>1. 1 \in DOMAIN todo[r] /\ n + 1 \in DOMAIN all
    BY <1>2, <1>3, <1>4
  <2>2. Client(r) \in Clients
    BY <1>2, <1>5, <2>1
  <2>3. Client(r) \in TargetSet(r)
    BY <1>5, <2>1 DEF TargetSet
  <2>4. Client(r) \in Remaining(r)
    BY <1>5, <2>1 DEF Remaining, Listed
  <2> QED BY <2>2, <2>3, <2>4
<1>8. Listed(Tail(todo[r])) = Remaining(r) \ {Client(r)}
  <2>1. ASSUME NEW i \in 1 .. Len(all) - n - 1
        PROVE  Tail(todo[r])[i] \in Remaining(r) /\ Tail(todo[r])[i] # Client(r)
    <3>1. i + 1 \in DOMAIN todo[r] /\ n + 1 + i \in DOMAIN all /\ n + 1 \in DOMAIN all /\ n + 1 + i # n + 1
      BY <1>2, <1>3, <1>4
    <3> QED BY <1>5, <1>6, <3>1 DEF Apart, Remaining, Listed
  <2>2. ASSUME NEW i \in 1 .. Len(all) - n, todo[r][i] # Client(r)
        PROVE  i - 1 \in 1 .. Len(all) - n - 1 /\ Tail(todo[r])[i - 1] = todo[r][i]
    BY <1>2, <1>5, <1>6, <2>2
  <2>3. DOMAIN Tail(todo[r]) = 1 .. Len(all) - n - 1 /\ DOMAIN todo[r] = 1 .. Len(all) - n
    BY <1>2, <1>3, <1>6, LenProperties
  <2>4. Listed(Tail(todo[r])) \subseteq Remaining(r) \ {Client(r)}
    BY <2>1, <2>3 DEF Listed
  <2>5. Remaining(r) \ {Client(r)} \subseteq Listed(Tail(todo[r]))
    BY <2>2, <2>3 DEF Remaining, Listed
  <2> QED BY <2>4, <2>5
<1>9. n + 1 \in 0 .. Len(all) /\ Tail(todo[r]) = SubSeq(all, n + 2, Len(all))
  <2>1. SubSeq(all, n + 2, Len(all)) \in Seq(Clients) /\ Len(SubSeq(all, n + 2, Len(all))) = Len(all) - n - 1
    BY <1>2, <1>4
  <2>2. \A i \in 1 .. Len(all) - n - 1 : SubSeq(all, n + 2, Len(all))[i] = Tail(todo[r])[i]
    BY <1>2, <1>4, <1>6
  <2>3. Tail(todo[r]) = SubSeq(all, n + 2, Len(all))
    BY <1>6, <2>1, <2>2, SeqEqual
  <2> QED BY <1>2, <1>4, <2>3
<1>10. \E m \in 0 .. Len(all) : Tail(todo[r]) = SubSeq(all, m + 1, Len(all))
  <2>1. n + 2 = (n + 1) + 1
    BY <1>1
  <2> QED BY <1>9, <2>1
<1> QED BY <1>6, <1>7, <1>8, <1>10

-----------------------------------------------------------------------------
(* The course of a run, whatever it manages.                               *)

(* What a step of one run leaves of the types.                             *)
LEMMA RunTyping ==
  ASSUME RunTypeOK, NEW r \in Runs, options' = options,
         NEW s \in Stages, stage' = [stage EXCEPT ![r] = s],
         NEW all \in Seq(Clients), targets' = [targets EXCEPT ![r] = all],
         Listed(all) \subseteq available \cap Requested(r),
         NEW rest \in Seq(Clients), todo' = [todo EXCEPT ![r] = rest],
         \E n \in 0 .. Len(all) : rest = SubSeq(all, n + 1, Len(all)),
         NEW o \in [Clients -> Outcomes], outcome' = [outcome EXCEPT ![r] = o],
         alone' \in [Runs -> [Clients -> BOOLEAN]], faults' \in 0 .. MaxFaults
  PROVE  RunTypeOK'
<1>1. /\ stage' \in [Runs -> Stages] /\ targets' \in [Runs -> Seq(Clients)]
      /\ todo' \in [Runs -> Seq(Clients)] /\ outcome' \in [Runs -> [Clients -> Outcomes]]
  BY DEF RunTypeOK
<1>2. Options'
  BY DEF RunTypeOK, Options, options
<1>3. ASSUME NEW q \in Runs
      PROVE  /\ TargetSet(q)' \subseteq (available \cap Requested(q))'
             /\ \E n \in 0 .. Len(targets'[q]) : todo'[q] = SubSeq(targets'[q], n + 1, Len(targets'[q]))
  <2>1. CASE q = r
    BY <2>1 DEF RunTypeOK, TargetSet, Requested, Listed, options
  <2>2. CASE q # r
    <3>1. targets'[q] = targets[q] /\ todo'[q] = todo[q]
      BY <2>2 DEF RunTypeOK
    <3>2. TargetSet(q)' = TargetSet(q)
      BY <3>1 DEF TargetSet
    <3>3. Requested(q)' = Requested(q) /\ available' = available
      BY DEF Requested, options
    <3> QED BY <3>1, <3>2, <3>3 DEF RunTypeOK
  <2> QED BY <2>1, <2>2
<1> QED BY <1>1, <1>2, <1>3 DEF RunTypeOK

(* A run selects its clients.                                              *)
LEMMA SelectingKeepsCourse ==
  ASSUME RunTypeOK, NEW r \in Runs, CourseOf(r), SelectTargets(r)
  PROVE  /\ RunTypeOK' /\ CourseOf(r)'
         /\ stage'[r] \in {"planning", "refused"}
         /\ stage'[r] = "planning" => todo'[r] = targets'[r]
         /\ \A c \in Clients : outcome'[r][c] \in {"none", "skipped"} /\ alone'[r][c]
<1> DEFINE missing == Requested(r) \ available
           ready == InOrder(Requested(r) \ missing)
           skipped == [c \in Clients |-> IF c \in missing THEN "skipped" ELSE "none"]
<1>1. Requested(r) \in SUBSET Clients /\ available \in SUBSET Clients
  BY SetupsAssumption, CommandLinesAssumption DEF RunTypeOK, Options, Requested, IsCommandLine
<1>2. /\ ready \in Seq(Clients) /\ Apart(ready) /\ Listed(ready) = Requested(r) \cap available
      /\ ready = <<>> <=> Requested(r) \cap available = {}
  <2>1. Requested(r) \ missing = Requested(r) \cap available
    OBVIOUS
  <2> QED BY <1>1, <2>1, InOrderLists
<1> HIDE DEF ready
<1>3. alone' \in [Runs -> [Clients -> BOOLEAN]] /\ \A c \in Clients : alone'[r][c]
  BY DEF SelectTargets, RunTypeOK
<1>4. options' = options /\ faults' = faults /\ faults' \in 0 .. MaxFaults
  BY DEF SelectTargets, RunTypeOK, options
<1>5. CASE ~Selectable(r)
  <2>1. /\ stage' = [stage EXCEPT ![r] = "refused"]
        /\ UNCHANGED <<targets, todo, outcome>>
    BY <1>2, <1>5 DEF SelectTargets, Selectable, Goto, ready
  <2>2. \A c \in Clients : outcome[r][c] = "none"
    BY <1>5 DEF CourseOf
  <2>3. stage'[r] = "refused"
    BY <2>1 DEF RunTypeOK
  <2>4. RunTypeOK'
    <3>1. /\ targets' = [targets EXCEPT ![r] = targets[r]] /\ todo' = [todo EXCEPT ![r] = todo[r]]
          /\ outcome' = [outcome EXCEPT ![r] = outcome[r]]
      BY <2>1 DEF RunTypeOK
    <3>2. /\ targets[r] \in Seq(Clients) /\ todo[r] \in Seq(Clients) /\ outcome[r] \in [Clients -> Outcomes]
          /\ Listed(targets[r]) \subseteq available \cap Requested(r)
          /\ \E n \in 0 .. Len(targets[r]) : todo[r] = SubSeq(targets[r], n + 1, Len(targets[r]))
      BY DEF RunTypeOK, Listed, TargetSet
    <3> QED BY <1>3, <1>4, <2>1, <3>1, <3>2, RunTyping DEF Stages
  <2>5. CourseOf(r)'
    <3>1. Selectable(r)' = Selectable(r)
      BY <1>4 DEF Selectable, Requested, options
    <3>2. Apart(targets[r])' /\ TargetSet(r)' = {}
      BY <1>5, <2>1 DEF CourseOf, TargetSet
    <3>3. \A c \in Clients : outcome'[r][c] = "none"
      BY <2>1, <2>2
    <3> QED BY <1>5, <2>3, <3>1, <3>2, <3>3 DEF CourseOf, InWork, Replacing
  <2> QED BY <1>3, <2>1, <2>2, <2>3, <2>4, <2>5
<1>6. CASE Selectable(r)
  <2>1. /\ stage' = [stage EXCEPT ![r] = "planning"]
        /\ targets' = [targets EXCEPT ![r] = ready] /\ todo' = [todo EXCEPT ![r] = ready]
        /\ outcome' = [outcome EXCEPT ![r] = skipped]
    BY <1>2, <1>6 DEF SelectTargets, Selectable, Goto, ready
  <2>2. stage'[r] = "planning" /\ targets'[r] = ready /\ todo'[r] = ready /\ outcome'[r] = skipped
    BY <2>1 DEF RunTypeOK
  <2>3. RunTypeOK'
    <3>1. skipped \in [Clients -> Outcomes]
      BY DEF Outcomes
    <3>2. 0 \in 0 .. Len(ready) /\ ready = SubSeq(ready, 0 + 1, Len(ready))
      BY <1>2, SubSeqFull, LenProperties
    <3> HIDE DEF skipped
    <3> QED BY <1>2, <1>3, <1>4, <2>1, <3>1, <3>2, RunTyping DEF Stages
  <2>4. TargetSet(r)' = Requested(r) \cap available /\ Requested(r)' = Requested(r)
    BY <1>2, <1>4, <2>2 DEF TargetSet, Listed, Requested, options
  <2>5. CourseOf(r)'
    BY <1>2, <1>4, <1>6, <2>2, <2>4
       DEF CourseOf, Selectable, Requested, Changes, InWork, Replacing, options
  <2> QED BY <1>3, <2>2, <2>3, <2>5
<1> QED BY <1>5, <1>6

(* A run's options and targets stay what they are.                         *)
SameCourse(r) ==
  /\ TargetSet(r)' = TargetSet(r) /\ Requested(r)' = Requested(r) /\ Changes(r)' = Changes(r)
  /\ Selectable(r)' = Selectable(r) /\ asset' = asset /\ line' = line /\ available' = available
LEMMA SameTargets ==
  ASSUME NEW r \in Runs, options' = options, targets' = targets
  PROVE  SameCourse(r)
BY DEF SameCourse, TargetSet, Requested, Changes, Selectable, options

(* A run has an outcome for a client and goes on with the next.            *)
LEMMA DeliveringKeepsCourse ==
  ASSUME RunTypeOK, NEW r \in Runs, CourseOf(r), options' = options, targets' = targets,
         stage[r] \in InWork, todo[r] # <<>>, NEW result \in Outcomes \ {"none"}, NextClient(r, result),
         alone' \in [Runs -> [Clients -> BOOLEAN]], faults' \in 0 .. MaxFaults
  PROVE  /\ RunTypeOK' /\ CourseOf(r)' /\ stage'[r] = "working"
         /\ Client(r) \in Clients /\ Client(r) \in TargetSet(r) /\ Client(r) \in Remaining(r)
         /\ Remaining(r)' = Remaining(r) \ {Client(r)}
         /\ outcome'[r] = [outcome[r] EXCEPT ![Client(r)] = result]
<1>1. /\ Client(r) \in Clients /\ Client(r) \in TargetSet(r) /\ Client(r) \in Remaining(r)
      /\ Tail(todo[r]) \in Seq(Clients)
      /\ Listed(Tail(todo[r])) = Remaining(r) \ {Client(r)}
      /\ \E n \in 0 .. Len(targets[r]) : Tail(todo[r]) = SubSeq(targets[r], n + 1, Len(targets[r]))
  BY RemainingClients DEF CourseOf
<1>2. /\ stage' = [stage EXCEPT ![r] = "working"] /\ stage'[r] = "working"
      /\ todo' = [todo EXCEPT ![r] = Tail(todo[r])] /\ todo'[r] = Tail(todo[r])
      /\ outcome' = [outcome EXCEPT ![r] = [outcome[r] EXCEPT ![Client(r)] = result]]
      /\ outcome'[r] = [outcome[r] EXCEPT ![Client(r)] = result]
  BY DEF NextClient, Goto, RunTypeOK
<1>3. outcome'[r] \in [Clients -> Outcomes]
  BY <1>1, <1>2 DEF RunTypeOK
<1>4. RunTypeOK'
  <2>1. targets' = [targets EXCEPT ![r] = targets[r]] /\ targets[r] \in Seq(Clients)
        /\ Listed(targets[r]) \subseteq available \cap Requested(r)
    BY DEF RunTypeOK, Listed, TargetSet
  <2> QED BY <1>1, <1>2, <1>3, <2>1, RunTyping DEF Stages
<1>5. Remaining(r)' = Remaining(r) \ {Client(r)}
  BY <1>1, <1>2 DEF Remaining
<1>6. \A c \in Clients : outcome'[r][c] = IF c = Client(r) THEN result ELSE outcome[r][c]
  BY <1>1, <1>2 DEF RunTypeOK
<1>7. CourseOf(r)'
  <2>1. SameCourse(r)
    BY SameTargets
  <2>2. Apart(targets[r])' /\ Selectable(r)
    BY DEF CourseOf, InWork, Replacing
  <2>3. \A c \in Clients : /\ c \in Requested(r) /\ outcome'[r][c] = "none" => c \in Remaining(r)'
                           /\ c \in Remaining(r)' => outcome'[r][c] = "none"
    BY <1>5, <1>6 DEF CourseOf
  <2> QED BY <1>2, <2>1, <2>2, <2>3 DEF CourseOf, InWork, Replacing, SameCourse
<1> QED BY <1>1, <1>2, <1>4, <1>5, <1>7

(* A run goes on to another stage, at the same client if it is at one.     *)
Moves(r, s) ==
  \/ stage[r] \in InWork /\ s \in InWork
  \/ s \in {"idle", "refused"}
  \/ asset = "skill" /\ todo[r] # <<>> /\ Changes(r) /\ s = "crashed"
  \/ asset = "skill" /\ stage[r] = "planning" /\ s = "working"
  \/ stage[r] = "working" /\ todo[r] = <<>> /\ s \in {"ok", "failed"}
LEMMA MovingKeepsCourse ==
  ASSUME RunTypeOK, NEW r \in Runs, CourseOf(r), options' = options, UNCHANGED <<targets, todo, outcome>>,
         NEW s \in Stages, Goto(r, s), Moves(r, s),
         s \in Replacing \cup {"rmtree"} => asset = "skill" /\ todo[r] # <<>> /\ Changes(r),
         s \in Replacing => line[r].command = "apply",
         s = "rmtree" => line[r].command = "remove",
         alone' \in [Runs -> [Clients -> BOOLEAN]], faults' \in 0 .. MaxFaults
  PROVE  /\ RunTypeOK' /\ CourseOf(r)' /\ stage'[r] = s
         /\ todo[r] # <<>> => Client(r) \in Clients /\ Client(r) \in TargetSet(r) /\ Client(r) \in Remaining(r)
         /\ Remaining(r)' = Remaining(r)
<1>1. todo[r] # <<>> => Client(r) \in Clients /\ Client(r) \in TargetSet(r) /\ Client(r) \in Remaining(r)
  BY RemainingClients DEF CourseOf
<1>2. stage' = [stage EXCEPT ![r] = s] /\ stage'[r] = s
  BY DEF Goto, RunTypeOK
<1>3. RunTypeOK'
  <2>1. /\ targets' = [targets EXCEPT ![r] = targets[r]] /\ todo' = [todo EXCEPT ![r] = todo[r]]
        /\ outcome' = [outcome EXCEPT ![r] = outcome[r]]
    BY DEF RunTypeOK
  <2>2. /\ targets[r] \in Seq(Clients) /\ todo[r] \in Seq(Clients) /\ outcome[r] \in [Clients -> Outcomes]
        /\ Listed(targets[r]) \subseteq available \cap Requested(r)
        /\ \E n \in 0 .. Len(targets[r]) : todo[r] = SubSeq(targets[r], n + 1, Len(targets[r]))
    BY DEF RunTypeOK, Listed, TargetSet
  <2> QED BY <1>2, <2>1, <2>2, RunTyping
<1>4. Remaining(r)' = Remaining(r) /\ SameCourse(r)
  BY SameTargets DEF Remaining
<1>5. CourseOf(r)'
  <2>1. Apart(targets[r])' /\ (s \notin {"idle", "refused"} => Selectable(r))
    BY <1>1 DEF CourseOf, InWork, Replacing, Moves
  <2>2. todo[r] = <<>> => Remaining(r) = {}
    BY DEF Remaining, Listed
  <2>3. s \in InWork =>
          \A c \in Clients : /\ c \in Requested(r) /\ outcome[r][c] = "none" => c \in Remaining(r)
                             /\ c \in Remaining(r) => outcome[r][c] = "none"
    <3>1. CASE stage[r] = "planning" /\ asset = "skill"
      <4>1. Remaining(r) = TargetSet(r)
        BY <3>1 DEF CourseOf, Remaining, TargetSet, Listed
      <4> QED BY <3>1, <4>1 DEF CourseOf
    <3>2. CASE stage[r] \in InWork
      BY <3>2 DEF CourseOf
    <3> QED BY <3>1, <3>2 DEF Moves, InWork, Replacing
  <2>4. s \in {"ok", "failed"} => \A c \in Requested(r) : outcome[r][c] # "none"
    <3>1. Requested(r) \subseteq Clients
      BY CommandLinesAssumption DEF RunTypeOK, Options, Requested, IsCommandLine
    <3> QED BY <2>2, <3>1 DEF CourseOf, Moves, InWork, Replacing
  <2>5. s # "planning"
    BY DEF Moves, InWork, Replacing
  <2> QED BY <1>2, <1>4, <2>1, <2>3, <2>4, <2>5 DEF CourseOf, InWork, Replacing, SameCourse, Moves
<1> QED BY <1>1, <1>2, <1>3, <1>4, <1>5

(* A client is planned for.                                                *)
LEMMA PlanningKeepsCourse ==
  ASSUME RunTypeOK, NEW r \in Runs, CourseOf(r), options' = options, UNCHANGED <<targets, outcome, stage>>,
         stage[r] = "planning", asset = "plugin", todo[r] # <<>>,
         todo' = [todo EXCEPT ![r] = Tail(@)],
         alone' \in [Runs -> [Clients -> BOOLEAN]], faults' \in 0 .. MaxFaults
  PROVE  /\ RunTypeOK' /\ CourseOf(r)'
         /\ Client(r) \in Clients /\ Client(r) \in TargetSet(r)
         /\ Remaining(r)' = Remaining(r) \ {Client(r)}
<1>1. /\ Client(r) \in Clients /\ Client(r) \in TargetSet(r)
      /\ Tail(todo[r]) \in Seq(Clients)
      /\ Listed(Tail(todo[r])) = Remaining(r) \ {Client(r)}
      /\ \E n \in 0 .. Len(targets[r]) : Tail(todo[r]) = SubSeq(targets[r], n + 1, Len(targets[r]))
  BY RemainingClients DEF CourseOf
<1>2. todo' = [todo EXCEPT ![r] = Tail(todo[r])] /\ todo'[r] = Tail(todo[r])
  BY DEF RunTypeOK
<1>3. RunTypeOK'
  <2>1. /\ targets' = [targets EXCEPT ![r] = targets[r]] /\ stage' = [stage EXCEPT ![r] = "planning"]
        /\ outcome' = [outcome EXCEPT ![r] = outcome[r]]
    BY DEF RunTypeOK
  <2>2. /\ targets[r] \in Seq(Clients) /\ outcome[r] \in [Clients -> Outcomes]
        /\ Listed(targets[r]) \subseteq available \cap Requested(r)
    BY DEF RunTypeOK, Listed, TargetSet
  <2> QED BY <1>1, <1>2, <2>1, <2>2, RunTyping DEF Stages
<1>4. SameCourse(r) /\ Remaining(r)' = Remaining(r) \ {Client(r)}
  BY <1>1, <1>2, SameTargets DEF Remaining
<1>5. CourseOf(r)'
  BY <1>4 DEF CourseOf, InWork, Replacing, SameCourse
<1> QED BY <1>1, <1>3, <1>4, <1>5

(* All clients are planned for.                                            *)
LEMMA PlannedKeepsCourse ==
  ASSUME RunTypeOK, NEW r \in Runs, CourseOf(r), Planned(r), asset = "plugin"
  PROVE  /\ RunTypeOK' /\ CourseOf(r)' /\ stage'[r] = "working" /\ Remaining(r)' = TargetSet(r)
<1>1. /\ options' = options /\ UNCHANGED <<targets, outcome, alone, faults>> /\ stage[r] = "planning"
      /\ stage' = [stage EXCEPT ![r] = "working"] /\ stage'[r] = "working"
      /\ todo' = [todo EXCEPT ![r] = targets[r]] /\ todo'[r] = targets[r]
  BY DEF Planned, Goto, RunTypeOK, options
<1>2. RunTypeOK'
  <2>1. targets' = [targets EXCEPT ![r] = targets[r]] /\ outcome' = [outcome EXCEPT ![r] = outcome[r]]
    BY <1>1 DEF RunTypeOK
  <2>2. /\ targets[r] \in Seq(Clients) /\ outcome[r] \in [Clients -> Outcomes]
        /\ Listed(targets[r]) \subseteq available \cap Requested(r)
        /\ alone' \in [Runs -> [Clients -> BOOLEAN]] /\ faults' \in 0 .. MaxFaults
    BY <1>1 DEF RunTypeOK, Listed, TargetSet
  <2>3. 0 \in 0 .. Len(targets[r]) /\ targets[r] = SubSeq(targets[r], 0 + 1, Len(targets[r]))
    BY <2>2, SubSeqFull, LenProperties
  <2> QED BY <1>1, <2>1, <2>2, <2>3, RunTyping DEF Stages
<1>3. Remaining(r)' = TargetSet(r) /\ SameCourse(r)
  BY <1>1, SameTargets DEF Remaining, TargetSet, Listed
<1>4. CourseOf(r)'
  BY <1>1, <1>3 DEF CourseOf, InWork, Replacing, SameCourse
<1> QED BY <1>1, <1>2, <1>3, <1>4

-----------------------------------------------------------------------------
(* The other runs.                                                         *)

(* A step of one run leaves the others where they are: it changes what a   *)
(* client has only where the others are no longer alone, and no            *)
(* marketplace of Codex is registered from elsewhere.                      *)
Elsewhere(r) ==
  /\ options' = options
  /\ \A q \in Runs \ {r} :
       /\ targets'[q] = targets[q] /\ stage'[q] = stage[q] /\ todo'[q] = todo[q]
       /\ outcome'[q] = outcome[q]
       /\ plan'[q] = plan[q] /\ had'[q] = had[q]
       /\ staging'[q] = staging[q] /\ backup'[q] = backup[q] /\ found'[q] = found[q]
       /\ \A c \in Clients :
            alone'[q][c] => alone[q][c] /\ plugin'[c] = plugin[c] /\ dest'[c] = dest[c]
  /\ market'["codex"] = "other" => market["codex"] = "other"

LEMMA ElsewhereKeeps ==
  ASSUME NEW r \in Runs, NEW q \in Runs \ {r}, Elsewhere(r), CourseOf(q)
  PROVE  /\ CourseOf(q)'
         /\ PlansOf(q) => PlansOf(q)'
         /\ BesideOf(q) => BesideOf(q)'
         /\ SkillOf(q) => SkillOf(q)'
<1>1. /\ TargetSet(q)' = TargetSet(q) /\ Requested(q)' = Requested(q) /\ Changes(q)' = Changes(q)
      /\ Selectable(q)' = Selectable(q) /\ Remaining(q)' = Remaining(q) /\ Client(q)' = Client(q)
      /\ asset' = asset /\ line' = line /\ available' = available
  BY DEF Elsewhere, TargetSet, Requested, Changes, Selectable, Remaining, Client, options
<1>2. /\ targets'[q] = targets[q] /\ stage'[q] = stage[q] /\ todo'[q] = todo[q]
      /\ outcome'[q] = outcome[q] /\ plan'[q] = plan[q] /\ had'[q] = had[q]
      /\ staging'[q] = staging[q] /\ backup'[q] = backup[q] /\ found'[q] = found[q]
  BY DEF Elsewhere
<1>3. \A c \in Clients : alone'[q][c] => alone[q][c] /\ plugin'[c] = plugin[c] /\ dest'[c] = dest[c]
  BY DEF Elsewhere
<1>4. CourseOf(q)'
  BY <1>1, <1>2 DEF CourseOf, Apart
<1>5. \A c \in Clients : Before(q, c)' = Before(q, c) /\ IsPlanned(q, c)' = IsPlanned(q, c)
  BY <1>1, <1>2 DEF Before, IsPlanned
<1>6. PlansOf(q) => PlansOf(q)'
  <2>1. market'["codex"] = "other" => market["codex"] = "other"
    BY DEF Elsewhere
  <2> QED BY <1>1, <1>2, <1>3, <1>5, <2>1 DEF PlansOf, PlanAt
<1>7. BesideOf(q) => BesideOf(q)'
  BY <1>2 DEF BesideOf
<1>8. SkillOf(q) => SkillOf(q)'
  <2>1. Placed(q)' = Placed(q)
    BY <1>2 DEF Placed
  <2>2. ASSUME NEW c \in Clients, alone[q][c] => SkillAt(q, c), alone'[q][c] PROVE SkillAt(q, c)'
    <3>1. dest'[c] = dest[c] /\ SkillAt(q, c)
      BY <1>3, <2>2
    <3>2. Undone(q, c)' = Undone(q, c) /\ MovedAway(q, c)' = MovedAway(q, c)
      BY <1>2, <3>1 DEF Undone, MovedAway, Exists
    <3> QED BY <1>1, <1>2, <1>5, <2>1, <3>1, <3>2 DEF SkillAt, SkillNow, Dir, InWork, Replacing
  <2> QED BY <2>2 DEF SkillOf
<1> QED BY <1>4, <1>6, <1>7, <1>8

-----------------------------------------------------------------------------
(* The steps of a run that manages the plugin.                             *)

(* What is left to show of such a step.                                    *)
LEMMA PluginStepSuffices ==
  ASSUME InstallInvariant, NEW r \in Runs, asset = "plugin", UNCHANGED skillVars,
         faults' \in {faults, faults - 1},
         RunTypeOK', PluginTyped', Elsewhere(r), CourseOf(r)',
         MarketsOffer', PluginStays', PlansOf(r)'
  PROVE  InstallInvariant'
<1>1. asset' = "plugin" /\ UNCHANGED <<dest, staging, backup, doomed, left, found>>
  BY DEF Elsewhere, options, skillVars
<1>2. \A q \in Runs \ {r} : CourseOf(q)' /\ PlansOf(q)' /\ BesideOf(q)'
  BY ElsewhereKeeps DEF InstallInvariant, PluginInvariant, SkillInvariant
<1>3. BesideOf(r)'
  <2>1. stage[r] \notin Replacing /\ stage'[r] \notin Replacing
    BY <1>1 DEF InstallInvariant, CourseOf
  <2>2. staging[r] = Nothing /\ backup[r] = Nothing
    BY <2>1 DEF InstallInvariant, SkillInvariant, BesideOf, Replacing
  <2> QED BY <1>1, <2>1, <2>2 DEF BesideOf, Replacing
<1>4. SkillTypeOK'
  BY <1>1 DEF InstallInvariant, SkillTypeOK
<1>5. ResidueIsExplained'
  <2>1. faults \in Nat /\ faults <= MaxFaults /\ MaxFaults \in Nat
    BY MaxFaultsAssumption DEF InstallInvariant, RunTypeOK
  <2>2. faults < MaxFaults => faults' < MaxFaults
    BY <2>1
  <2> QED BY <1>1, <2>2 DEF InstallInvariant, ResidueIsExplained
<1> QED BY <1>1, <1>2, <1>3, <1>4, <1>5 DEF InstallInvariant, PluginInvariant, SkillInvariant

(* A step that changes no client and no plan.                              *)
LEMMA PluginStaysSame ==
  ASSUME InstallInvariant, NEW r \in Runs, asset = "plugin", options' = options,
         UNCHANGED <<market, plugin, had, plan>>
  PROVE  PluginStays' /\ MarketsOffer'
BY DEF InstallInvariant, PluginInvariant, PluginStays, MarketsOffer, NobodyRemoves, options

LEMMA BeginPluginKeeps ==
  ASSUME InstallInvariant, NEW r \in Runs, asset = "plugin", UNCHANGED skillVars, BeginPlugin(r)
  PROVE  InstallInvariant'
<1>1. /\ RunTypeOK /\ CourseOf(r) /\ SelectTargets(r) /\ PluginTyped
      /\ options' = options /\ faults' = faults /\ UNCHANGED <<market, plugin>>
      /\ plan' = [plan EXCEPT ![r] = Unplanned] /\ sent' = [sent EXCEPT ![r] = 0]
      /\ had' = [had EXCEPT ![r] = plugin]
  BY DEF InstallInvariant, BeginPlugin, SelectTargets, options
<1>2. /\ RunTypeOK' /\ CourseOf(r)'
      /\ stage'[r] \in {"planning", "refused"}
      /\ stage'[r] = "planning" => todo'[r] = targets'[r]
      /\ \A c \in Clients : outcome'[r][c] \in {"none", "skipped"} /\ alone'[r][c]
  BY <1>1, SelectingKeepsCourse
<1>3. PluginTyped'
  BY <1>1 DEF PluginTyped, Unplanned, Plans
<1>4. Elsewhere(r)
  BY <1>1 DEF Elsewhere, SelectTargets, Goto, RunTypeOK, PluginTyped, skillVars
<1>5. MarketsOffer'
  BY <1>1 DEF InstallInvariant, PluginInvariant, MarketsOffer
<1>6. PluginStays'
  <2>1. line' = line
    BY <1>1 DEF options
  <2>2. \A q \in Runs : had'[q] = IF q = r THEN plugin ELSE had[q]
    BY <1>1 DEF PluginTyped
  <2>3. PluginStays
    BY DEF InstallInvariant, PluginInvariant
  <2> QED BY <1>1, <2>1, <2>2, <2>3 DEF PluginStays, NobodyRemoves, Clients
<1>7. PlansOf(r)'
  <2>1. had'[r] = plugin' /\ \A c \in Clients : plan'[r][c] = <<>>
    BY <1>1 DEF PluginTyped, Unplanned
  <2>2. \A c \in Clients : ~IsPlanned(r, c)'
    BY <1>2 DEF IsPlanned, Remaining, TargetSet, Listed
  <2> QED BY <1>2, <2>1, <2>2 DEF PlansOf, PlanAt
<1> QED BY <1>1, <1>2, <1>3, <1>4, <1>5, <1>6, <1>7, PluginStepSuffices

(* A step that changes no client, no plan and not what is known of one.    *)
LEMMA PlansStaySame ==
  ASSUME InstallInvariant, NEW r \in Runs, asset = "plugin", options' = options, targets' = targets,
         UNCHANGED <<market, plugin, had, plan, alone, outcome>>,
         \A c \in Clients : /\ IsPlanned(r, c)' => IsPlanned(r, c)
                            /\ Before(r, c)' => Before(r, c)
  PROVE  PlansOf(r)'
<1>1. PlansOf(r) /\ line' = line
  BY DEF InstallInvariant, PluginInvariant, options
<1> QED BY <1>1 DEF PlansOf, PlanAt

(* The run is refused, before it has changed anything.                     *)
LEMMA RefusingKeeps ==
  ASSUME InstallInvariant, NEW r \in Runs, asset = "plugin", UNCHANGED skillVars, UNCHANGED pluginVars,
         options' = options, UNCHANGED <<targets, todo, outcome, alone>>, Fault \/ faults' = faults,
         Goto(r, "refused"), stage[r] = "planning" \/ ~Changes(r)
  PROVE  InstallInvariant'
<1>1. RunTypeOK /\ CourseOf(r) /\ PluginTyped /\ UNCHANGED <<market, plugin, had, plan, sent>>
  BY DEF InstallInvariant, pluginVars
<1>2. faults' \in {faults, faults - 1} /\ faults' \in 0 .. MaxFaults
  BY <1>1, MaxFaultsAssumption DEF RunTypeOK, Fault
<1>3. alone' \in [Runs -> [Clients -> BOOLEAN]]
  BY <1>1 DEF RunTypeOK
<1>4. RunTypeOK' /\ CourseOf(r)' /\ stage'[r] = "refused"
  BY <1>1, <1>2, <1>3, MovingKeepsCourse DEF Moves, Stages, InWork, Replacing
<1>5. Elsewhere(r)
  BY <1>1 DEF Elsewhere, Goto, RunTypeOK, skillVars
<1>6. PluginTyped' /\ PluginStays' /\ MarketsOffer'
  BY <1>1, PluginStaysSame DEF PluginTyped
<1>7. PlansOf(r)'
  <2>1. \A c \in Clients : ~IsPlanned(r, c)' /\ Before(r, c)
    BY <1>4 DEF IsPlanned, Before
  <2> QED BY <1>1, <2>1, PlansStaySame
<1> QED BY <1>2, <1>4, <1>5, <1>6, <1>7, PluginStepSuffices

(* A client is asked, and planned for.                                     *)
LEMMA PlanClientKeeps ==
  ASSUME InstallInvariant, NEW r \in Runs, asset = "plugin", UNCHANGED skillVars, PlanClient(r)
  PROVE  InstallInvariant'
<1>1. /\ RunTypeOK /\ CourseOf(r) /\ PluginTyped /\ PlansOf(r) /\ MarketsOffer /\ PluginStays
      /\ options' = options /\ UNCHANGED <<targets, outcome, alone, sent, market, plugin, had>>
      /\ stage[r] = "planning" /\ todo[r] # <<>> /\ line[r].command # "list"
      /\ alone' \in [Runs -> [Clients -> BOOLEAN]]
  BY DEF InstallInvariant, PluginInvariant, PlanClient, At, RunTypeOK, options
<1>2. \/ /\ Plannable(r, Client(r)) /\ plan' = [plan EXCEPT ![r][Client(r)] = PlanOf(r, Client(r))]
         /\ todo' = [todo EXCEPT ![r] = Tail(@)] /\ UNCHANGED <<stage, faults>>
      \/ Goto(r, "refused") /\ UNCHANGED <<plan, todo>> /\ (Fault \/ faults' = faults)
  BY DEF PlanClient
<1>3. CASE Goto(r, "refused") /\ UNCHANGED <<plan, todo>> /\ (Fault \/ faults' = faults)
  BY <1>1, <1>3, RefusingKeeps DEF pluginVars
<1>4. CASE /\ Plannable(r, Client(r)) /\ plan' = [plan EXCEPT ![r][Client(r)] = PlanOf(r, Client(r))]
           /\ todo' = [todo EXCEPT ![r] = Tail(@)] /\ UNCHANGED <<stage, faults>>
  <2>1. faults' \in 0 .. MaxFaults
    BY <1>1, <1>4 DEF RunTypeOK
  <2>0. PICK c \in Clients : c = Client(r)
    BY <1>1, <1>4, <2>1, PlanningKeepsCourse
  <2>2. RunTypeOK' /\ CourseOf(r)' /\ c \in TargetSet(r) /\ Remaining(r)' = Remaining(r) \ {c}
    BY <1>1, <1>4, <2>0, <2>1, PlanningKeepsCourse
  <2> DEFINE p == PlanOf(r, c)
  <2>3. /\ p \in Plans
        /\ p \in {<<"uninstall">>, <<"uninstall", "install">>} /\ line[r].command # "remove" =>
             c = "grok" /\ had[r][c] = "other"
        /\ p \in {<<"register", "install">>, <<"register", "update">>} => c # "grok"
        /\ p = <<>> => line[r].command = "remove" /\ plugin[c] = "none"
    <3>1. CASE line[r].command = "remove"
      BY <3>1 DEF PlanOf, Plans
    <3>2. CASE line[r].command # "remove" /\ c = "grok"
      <4>1. plugin[c] \in {"none", "ours", "other"}
        BY <1>1, <1>4, <2>0, <2>2, <3>2 DEF PluginTyped, Origins, Plannable
      <4>2. plugin[c] = "other" => had[r][c] = "other"
        BY <1>1, <3>2 DEF PluginStays
      <4> QED BY <3>2, <4>1, <4>2 DEF PlanOf, Plans
    <3>3. CASE line[r].command # "remove" /\ c # "grok"
      BY <3>3 DEF PlanOf, Plans
    <3> QED BY <3>1, <3>2, <3>3
  <2>4. line[r].command = "apply" /\ c = "codex" => market[c] # "other"
    BY <1>4, <2>0 DEF Plannable
  <2> HIDE DEF p
  <2>5. plan' = [plan EXCEPT ![r][c] = p]
    BY <1>4, <2>0 DEF p
  <2>6. PluginTyped'
    BY <1>1, <2>2, <2>3, <2>5 DEF PluginTyped
  <2>7. /\ plan'[r][c] = p /\ \A d \in Clients \ {c} : plan'[r][d] = plan[r][d]
        /\ \A q \in Runs \ {r} : plan'[q] = plan[q]
    BY <1>1, <2>2, <2>5 DEF PluginTyped
  <2>8. Elsewhere(r)
    BY <1>1, <1>4, <2>7 DEF Elsewhere, RunTypeOK, skillVars
  <2>9. MarketsOffer' /\ PluginStays'
    BY <1>1 DEF MarketsOffer, PluginStays, NobodyRemoves, options
  <2>10. PlansOf(r)'
    <3>1. SameCourse(r) /\ stage' = stage
      BY <1>1, <1>4, SameTargets
    <3>2. \A d \in Clients : Before(r, d)' = Before(r, d)
      BY <3>1 DEF Before, SameCourse
    <3>3. PlanAt(r, c)'
      BY <1>1, <2>2, <2>3, <2>4, <2>7, <3>1, <3>2 DEF PlansOf, PlanAt, SameCourse
    <3>4. ASSUME NEW d \in Clients \ {c} PROVE PlanAt(r, d)'
      <4>1. IsPlanned(r, d)' = IsPlanned(r, d)
        BY <2>2, <3>1 DEF IsPlanned, SameCourse
      <4> QED BY <1>1, <2>7, <3>1, <3>2, <4>1 DEF PlansOf, PlanAt, SameCourse
    <3> QED BY <3>3, <3>4 DEF PlansOf
  <2> QED BY <1>4, <2>2, <2>6, <2>8, <2>9, <2>10, PluginStepSuffices
<1> QED BY <1>2, <1>3, <1>4

(* All are planned for.                                                    *)
LEMMA AllPlannedKeeps ==
  ASSUME InstallInvariant, NEW r \in Runs, asset = "plugin", UNCHANGED skillVars, Planned(r)
  PROVE  InstallInvariant'
<1>1. /\ RunTypeOK /\ CourseOf(r) /\ PluginTyped
      /\ options' = options /\ UNCHANGED <<targets, outcome, alone, faults, plan, sent, market, plugin, had>>
      /\ stage[r] = "planning" /\ (todo[r] = <<>> \/ line[r].command = "list")
  BY DEF InstallInvariant, Planned, pluginVars, options
<1>2. RunTypeOK' /\ CourseOf(r)' /\ stage'[r] = "working" /\ Remaining(r)' = TargetSet(r)
  BY <1>1, PlannedKeepsCourse
<1>3. Elsewhere(r)
  BY <1>1 DEF Elsewhere, Planned, Goto, RunTypeOK, skillVars
<1>4. PluginTyped' /\ PluginStays' /\ MarketsOffer'
  BY <1>1, PluginStaysSame DEF PluginTyped
<1>5. PlansOf(r)'
  <2>1. SameCourse(r)
    BY <1>1, SameTargets
  <2>2. \A c \in Clients : Before(r, c)' => Before(r, c)
    BY <1>1, <1>2, <2>1 DEF Before, SameCourse
  <2>3. \A c \in Clients : IsPlanned(r, c)' => IsPlanned(r, c)
    BY <1>1, <2>1 DEF IsPlanned, SameCourse, Remaining, Listed, Changes
  <2> QED BY <1>1, <2>2, <2>3, PlansStaySame
<1> QED BY <1>1, <1>2, <1>3, <1>4, <1>5, PluginStepSuffices

(* A client has its outcome, and nothing is changed by that.               *)
LEMMA DeliveringPluginKeeps ==
  ASSUME InstallInvariant, NEW r \in Runs, asset = "plugin", UNCHANGED skillVars,
         At(r, "working"), NEW result \in Outcomes \ {"none"}, NextClient(r, result),
         options' = options, UNCHANGED <<targets, alone, plan, market, plugin, had>>,
         sent' \in [Runs -> 0 .. 2], Fault \/ faults' = faults,
         result = "applied" /\ Client(r) = "codex" => market["codex"] # "other",
         alone[r][Client(r)] => /\ result \in {"applied", "installed"} => plugin[Client(r)] # "none"
                                /\ result \in {"removed", "absent"} => plugin[Client(r)] = "none"
  PROVE  InstallInvariant'
<1>1. /\ RunTypeOK /\ CourseOf(r) /\ PluginTyped /\ PlansOf(r) /\ stage[r] = "working" /\ todo[r] # <<>>
  BY DEF InstallInvariant, PluginInvariant, At
<1>2. faults' \in {faults, faults - 1} /\ faults' \in 0 .. MaxFaults
  BY <1>1, MaxFaultsAssumption DEF RunTypeOK, Fault
<1>3. alone' \in [Runs -> [Clients -> BOOLEAN]]
  BY <1>1 DEF RunTypeOK
<1>4. /\ RunTypeOK' /\ CourseOf(r)' /\ stage'[r] = "working" /\ Client(r) \in Clients
      /\ outcome'[r] = [outcome[r] EXCEPT ![Client(r)] = result]
  BY <1>1, <1>2, <1>3, DeliveringKeepsCourse DEF InWork
<1>5. Elsewhere(r)
  BY <1>1 DEF Elsewhere, NextClient, Goto, RunTypeOK, skillVars
<1>6. PluginTyped' /\ PluginStays' /\ MarketsOffer'
  BY <1>1, PluginStaysSame DEF PluginTyped
<1>7. PlansOf(r)'
  <2>1. SameCourse(r)
    BY SameTargets
  <2>2. \A c \in Clients : Before(r, c)' = Before(r, c) /\ IsPlanned(r, c)' = IsPlanned(r, c)
    BY <1>1, <1>4, <2>1 DEF Before, IsPlanned, SameCourse
  <2>3. \A c \in Clients : outcome'[r][c] = IF c = Client(r) THEN result ELSE outcome[r][c]
    BY <1>1, <1>4 DEF RunTypeOK
  <2>4. ASSUME NEW c \in Clients PROVE PlanAt(r, c)'
    <3>1. PlanAt(r, c) /\ outcome'[r][c] = IF c = Client(r) THEN result ELSE outcome[r][c]
      BY <1>1, <2>3 DEF PlansOf
    <3>2. Before(r, c)' = Before(r, c) /\ IsPlanned(r, c)' = IsPlanned(r, c) /\ line' = line
      BY <2>1, <2>2 DEF SameCourse
    <3> QED BY <3>1, <3>2 DEF PlanAt
  <2> QED BY <2>4 DEF PlansOf
<1> QED BY <1>2, <1>4, <1>5, <1>6, <1>7, PluginStepSuffices

(* A client has done what a command says.                                  *)
LEMMA ChangingPluginKeeps ==
  ASSUME InstallInvariant, NEW r \in Runs, asset = "plugin", UNCHANGED skillVars,
         HasCommand(r), Accepted(Client(r), Verb(r)), Effect(Client(r), Verb(r)), Touch(r, Client(r)),
         options' = options, UNCHANGED <<targets, plan, had>>,
         sent' \in [Runs -> 0 .. 2], Fault \/ faults' = faults,
         UNCHANGED <<stage, todo, outcome>> \/ NextClient(r, "failed")
  PROVE  InstallInvariant'
<1>1. /\ RunTypeOK /\ CourseOf(r) /\ PluginTyped /\ PlansOf(r) /\ MarketsOffer /\ PluginStays
      /\ stage[r] = "working" /\ todo[r] # <<>> /\ Changes(r)
  BY DEF InstallInvariant, PluginInvariant, HasCommand, At
<1>2. faults' \in {faults, faults - 1} /\ faults' \in 0 .. MaxFaults
  BY <1>1, MaxFaultsAssumption DEF RunTypeOK, Fault
<1>3. alone' \in [Runs -> [Clients -> BOOLEAN]] /\ alone'[r] = alone[r]
  BY <1>1 DEF RunTypeOK, Touch
<1>4. PICK c \in Clients : /\ c = Client(r) /\ c \in TargetSet(r)
                           /\ RunTypeOK' /\ CourseOf(r)' /\ stage'[r] = "working"
                           /\ \A d \in Clients \ {c} : outcome'[r][d] = outcome[r][d]
                           /\ outcome'[r][c] \in {"none", "failed"}
  <2>1. CASE UNCHANGED <<stage, todo, outcome>>
    <3>1. Goto(r, "working")
      BY <1>1, <2>1 DEF Goto, RunTypeOK
    <3>2. /\ RunTypeOK' /\ CourseOf(r)' /\ stage'[r] = "working"
          /\ Client(r) \in Clients /\ Client(r) \in TargetSet(r) /\ Client(r) \in Remaining(r)
      BY <1>1, <1>2, <1>3, <2>1, <3>1, MovingKeepsCourse DEF Moves, Stages, InWork, Replacing
    <3>3. outcome[r][Client(r)] = "none"
      BY <1>1, <3>2 DEF CourseOf, InWork
    <3> QED BY <2>1, <3>2, <3>3
  <2>2. CASE NextClient(r, "failed")
    <3>1. /\ RunTypeOK' /\ CourseOf(r)' /\ stage'[r] = "working"
          /\ Client(r) \in Clients /\ Client(r) \in TargetSet(r)
          /\ outcome'[r] = [outcome[r] EXCEPT ![Client(r)] = "failed"]
      BY <1>1, <1>2, <1>3, <2>2, DeliveringKeepsCourse DEF InWork, Outcomes
    <3>2. outcome[r] \in [Clients -> Outcomes]
      BY <1>1 DEF RunTypeOK
    <3> QED BY <1>1, <3>1, <3>2
  <2> QED BY <2>1, <2>2
<1>5. PICK verb : verb = Verb(r)
  OBVIOUS
<1>6. /\ verb \in {"register", "install", "update", "uninstall"} /\ plan[r][c] # <<>>
      /\ verb = "register" => c # "grok"
      /\ verb = "uninstall" /\ line[r].command # "remove" => c = "grok" /\ had[r][c] = "other"
  <2>1. PlanAt(r, c) /\ plan[r][c] \in Plans
    BY <1>1 DEF PlansOf, PluginTyped
  <2>2. sent[r] \in 0 .. 2 /\ sent[r] < Len(plan[r][c]) /\ verb = plan[r][c][sent[r] + 1]
    BY <1>1, <1>4, <1>5 DEF HasCommand, Verb, PluginTyped
  <2>3. CASE plan[r][c] = <<>>
    BY <2>2, <2>3
  <2>4. CASE plan[r][c] \in {<<"uninstall">>, <<"install">>, <<"update">>}
    <3>1. sent[r] = 0
      BY <2>2, <2>4
    <3> QED BY <2>1, <2>2, <2>4, <3>1 DEF PlanAt
  <2>5. CASE plan[r][c] \in {<<"uninstall", "install">>, <<"register", "install">>, <<"register", "update">>}
    <3>1. sent[r] \in {0, 1}
      BY <2>2, <2>5
    <3> QED BY <2>1, <2>2, <2>5, <3>1 DEF PlanAt
  <2> QED BY <2>1, <2>3, <2>4, <2>5 DEF Plans
<1>7. /\ verb = "install" /\ c # "grok" => market[c] # "none"
      /\ market' = IF verb = "register" /\ market[c] = "none" THEN [market EXCEPT ![c] = "ours"] ELSE market
      /\ plugin' = CASE verb \in {"register", "update"} -> plugin
                     [] verb = "uninstall" -> [plugin EXCEPT ![c] = "none"]
                     [] OTHER -> [plugin EXCEPT ![c] = IF c = "grok" THEN "ours" ELSE market[c]]
  BY <1>4, <1>5, <1>6 DEF Accepted, Effect
<1>8. /\ market' \in [Clients -> Origins] /\ plugin' \in [Clients -> Origins]
      /\ \A d \in Clients \ {c} : market'[d] = market[d] /\ plugin'[d] = plugin[d]
      /\ market'[c] = market[c] \/ (market[c] = "none" /\ market'[c] = "ours" /\ c # "grok" /\ plugin'[c] = plugin[c])
      /\ \/ plugin'[c] = plugin[c]
         \/ verb = "uninstall" /\ plugin'[c] = "none" /\ market' = market
         \/ c = "grok" /\ plugin'[c] = "ours" /\ market' = market
         \/ c # "grok" /\ plugin'[c] = market[c] /\ market[c] # "none" /\ market' = market
  BY <1>1, <1>6, <1>7 DEF PluginTyped, Origins
<1>9. PluginTyped'
  BY <1>1, <1>8 DEF PluginTyped
<1>10. Elsewhere(r)
  <2>1. market'["codex"] = "other" => market["codex"] = "other"
    BY <1>8 DEF Clients
  <2>2. \A q \in Runs \ {r}, d \in Clients : alone'[q][d] => alone[q][d] /\ d # c
    BY <1>1, <1>4 DEF Touch, RunTypeOK
  <2>3. \A q \in Runs \ {r} : stage'[q] = stage[q] /\ todo'[q] = todo[q] /\ outcome'[q] = outcome[q]
    BY <1>1 DEF NextClient, Goto, RunTypeOK
  <2> QED BY <1>8, <2>1, <2>2, <2>3 DEF Elsewhere, skillVars
<1>11. MarketsOffer'
  BY <1>1, <1>8 DEF MarketsOffer, Clients
<1>12. PluginStays'
  <2>1. line' = line
    BY DEF options
  <2>2. plugin'["grok"] = "other" => plugin["grok"] = "other"
    BY <1>8 DEF Clients
  <2>3. NobodyRemoves /\ c # "grok" => (plugin[c] # "none" => plugin'[c] # "none")
    BY <1>6, <1>8 DEF NobodyRemoves
  <2>4. NobodyRemoves /\ plugin'["grok"] = "none" => plugin["grok"] = "none" \/ had[r]["grok"] = "other"
    BY <1>6, <1>8 DEF NobodyRemoves, Clients
  <2> QED BY <1>1, <1>8, <2>1, <2>2, <2>3, <2>4 DEF PluginStays, NobodyRemoves, Clients
<1>13. PlansOf(r)'
  <2>1. SameCourse(r)
    BY SameTargets
  <2>2. \A d \in Clients : Before(r, d)' = Before(r, d) /\ IsPlanned(r, d)' = IsPlanned(r, d) /\ ~Before(r, c)
    BY <1>1, <1>4, <2>1 DEF Before, IsPlanned, SameCourse
  <2>3. ASSUME NEW d \in Clients PROVE PlanAt(r, d)'
    <3>1. PlanAt(r, d) /\ line' = line /\ alone'[r] = alone[r]
      BY <1>1, <1>3, <2>1 DEF PlansOf, SameCourse
    <3>2. CASE d = c
      BY <1>4, <1>6, <1>8, <2>2, <3>1, <3>2 DEF PlanAt
    <3>3. CASE d # c
      BY <1>4, <1>8, <2>2, <3>1, <3>3 DEF PlanAt
    <3> QED BY <3>2, <3>3
  <2> QED BY <2>3 DEF PlansOf
<1> QED BY <1>2, <1>4, <1>9, <1>10, <1>11, <1>12, <1>13, PluginStepSuffices

(* The client says it has, and has not.                                    *)
LEMMA LyingKeeps ==
  ASSUME InstallInvariant, NEW r \in Runs, asset = "plugin", UNCHANGED skillVars,
         options' = options, UNCHANGED <<targets, stage, todo, outcome, alone, plan, market, plugin, had>>,
         sent' \in [Runs -> 0 .. 2], Fault
  PROVE  InstallInvariant'
<1>1. RunTypeOK /\ CourseOf(r) /\ PluginTyped
  BY DEF InstallInvariant
<1>2. faults' \in {faults, faults - 1} /\ faults' \in 0 .. MaxFaults
  BY <1>1, MaxFaultsAssumption DEF RunTypeOK, Fault
<1>3. RunTypeOK'
  <2>1. UNCHANGED <<asset, line, available, targets, stage, todo, outcome, alone>>
    BY DEF options
  <2>2. \A q \in Runs : TargetSet(q)' = TargetSet(q) /\ Requested(q)' = Requested(q)
    BY <2>1 DEF TargetSet, Requested
  <2> QED BY <1>1, <1>2, <2>1, <2>2 DEF RunTypeOK, Options
<1>4. SameCourse(r)
  BY SameTargets
<1>5. CourseOf(r)'
  BY <1>1, <1>4 DEF CourseOf, SameCourse, Remaining
<1>6. Elsewhere(r)
  BY DEF Elsewhere, skillVars
<1>7. PluginTyped' /\ PluginStays' /\ MarketsOffer'
  BY <1>1, PluginStaysSame DEF PluginTyped
<1>8. PlansOf(r)'
  <2>1. \A c \in Clients : Before(r, c)' = Before(r, c) /\ IsPlanned(r, c)' = IsPlanned(r, c)
    BY <1>4 DEF Before, IsPlanned, SameCourse, Remaining
  <2> QED BY <2>1, PlansStaySame
<1> QED BY <1>2, <1>3, <1>5, <1>6, <1>7, <1>8, PluginStepSuffices

(* The invariant holds after each step at the plugin.                      *)
LEMMA PluginStepKeeps ==
  ASSUME InstallInvariant, NEW r \in Runs, asset = "plugin", UNCHANGED skillVars, PluginStep(r)
  PROVE  InstallInvariant'
<1> DEFINE given == Client(r)
<1>1. /\ RunTypeOK /\ CourseOf(r) /\ PluginTyped /\ PlansOf(r)
      /\ sent \in [Runs -> 0 .. 2]
  BY DEF InstallInvariant, PluginInvariant, PluginTyped
<1>2. todo[r] # <<>> => given \in Clients /\ given \in TargetSet(r)
  BY <1>1, RemainingClients DEF CourseOf
<1>3. [sent EXCEPT ![r] = 0] \in [Runs -> 0 .. 2]
  BY <1>1
<1>4. CASE BeginPlugin(r)
  BY <1>4, BeginPluginKeeps
<1>5. CASE RefuseSources(r)
  BY <1>5, RefusingKeeps DEF RefuseSources, options
<1>6. CASE PlanClient(r)
  BY <1>6, PlanClientKeeps
<1>7. CASE Planned(r)
  BY <1>7, AllPlannedKeeps
<1>8. CASE Report(r)
  <2> DEFINE result == CASE line[r].command = "check" -> "ready"
                         [] line[r].command = "list" ->
                              IF plugin[given] = "none" THEN "absent" ELSE "installed"
                         [] OTHER -> "planned"
  <2>1. /\ At(r, "working") /\ ~Changes(r) /\ options' = options
        /\ UNCHANGED <<targets, alone, plan, sent, market, plugin, had>> /\ UNCHANGED pluginVars
        /\ \/ NextClient(r, result) /\ faults' = faults
           \/ Fault /\ Goto(r, "refused") /\ UNCHANGED <<outcome, todo>>
    BY <1>8 DEF Report, pluginVars, options
  <2>2. /\ result \in Outcomes \ {"none"} /\ result \notin {"applied", "removed"}
        /\ result = "installed" => plugin[given] # "none"
        /\ result = "absent" => plugin[given] = "none"
    BY DEF Outcomes
  <2> HIDE DEF result
  <2>3. CASE NextClient(r, result) /\ faults' = faults
    BY <1>1, <2>1, <2>2, <2>3, DeliveringPluginKeeps
  <2>4. CASE Fault /\ Goto(r, "refused") /\ UNCHANGED <<outcome, todo>>
    BY <2>1, <2>4, RefusingKeeps
  <2> QED BY <2>1, <2>3, <2>4
<1>9. CASE Change(r)
  <2>1. /\ HasCommand(r) /\ options' = options /\ UNCHANGED <<targets, stage, todo, outcome, plan, had>>
        /\ sent' = [sent EXCEPT ![r] = @ + 1]
    BY <1>9 DEF Change, options
  <2>2. sent' \in [Runs -> 0 .. 2]
    <3>1. /\ plan[r][given] \in Plans /\ sent[r] < Len(plan[r][given]) /\ sent[r] \in 0 .. 2
      BY <1>1, <1>2, <2>1 DEF HasCommand, At, PluginTyped
    <3>2. Len(plan[r][given]) \in 0 .. 2
      <4>1. CASE plan[r][given] = <<>>
        BY <4>1
      <4>2. CASE plan[r][given] \in {<<"uninstall">>, <<"install">>, <<"update">>}
        BY <4>2
      <4>3. CASE plan[r][given] \in {<<"uninstall", "install">>, <<"register", "install">>, <<"register", "update">>}
        BY <4>3
      <4> QED BY <3>1, <4>1, <4>2, <4>3 DEF Plans
    <3>3. sent[r] + 1 \in 0 .. 2
      <4>1. PICK n \in 0 .. 2 : n = Len(plan[r][given])
        BY <3>2
      <4>2. PICK s \in 0 .. 2 : s = sent[r]
        BY <3>1
      <4>3. s < n
        BY <3>1, <4>1, <4>2
      <4> QED BY <4>2, <4>3
    <3> QED BY <1>1, <2>1, <3>3
  <2>3. CASE Accepted(Client(r), Verb(r)) /\ Effect(Client(r), Verb(r)) /\ Touch(r, Client(r)) /\ faults' = faults
    BY <2>1, <2>2, <2>3, ChangingPluginKeeps
  <2>4. CASE Fault /\ UNCHANGED <<market, plugin, alone>>
    BY <2>1, <2>2, <2>4, LyingKeeps
  <2> QED BY <1>9, <2>3, <2>4 DEF Change
<1>10. CASE ChangeFails(r)
  <2>1. /\ HasCommand(r) /\ options' = options /\ UNCHANGED <<targets, plan, had>>
        /\ NextClient(r, "failed") /\ sent' = [sent EXCEPT ![r] = 0] /\ At(r, "working")
        /\ sent' \in [Runs -> 0 .. 2]
    BY <1>3, <1>10 DEF ChangeFails, HasCommand, options
  <2>2. CASE UNCHANGED <<market, plugin, alone>> /\ (Fault \/ faults' = faults)
    BY <2>1, <2>2, DeliveringPluginKeeps DEF Outcomes
  <2>3. CASE Fault /\ Accepted(Client(r), Verb(r)) /\ Effect(Client(r), Verb(r)) /\ Touch(r, Client(r))
    BY <2>1, <2>3, ChangingPluginKeeps
  <2> QED BY <1>10, <2>2, <2>3 DEF ChangeFails
<1>11. CASE Verify(r)
  <2> DEFINE empty == plan[r][given] = <<>>
             result == IF (plugin[given] # "none") # (line[r].command = "apply") THEN "failed"
                       ELSE IF plugin[given] # "none" THEN "applied" ELSE "removed"
  <2>1. /\ At(r, "working") /\ Changes(r) /\ options' = options
        /\ UNCHANGED <<targets, alone, plan, market, plugin, had>>
        /\ sent' \in [Runs -> 0 .. 2]
        /\ \/ empty /\ NextClient(r, "absent") /\ faults' = faults
           \/ NextClient(r, result) /\ faults' = faults
           \/ Fault /\ NextClient(r, "failed")
    BY <1>3, <1>11 DEF Verify, options
  <2>2. given \in Clients /\ IsPlanned(r, given) /\ PlanAt(r, given)
    BY <1>1, <1>2, <2>1 DEF At, IsPlanned, PlansOf
  <2>3. CASE empty /\ NextClient(r, "absent") /\ faults' = faults
    <3>1. alone[r][given] => plugin[given] = "none"
      BY <2>2, <2>3 DEF PlanAt
    <3> QED BY <2>1, <2>3, <3>1, DeliveringPluginKeeps DEF Outcomes
  <2>4. CASE NextClient(r, result) /\ faults' = faults
    <3>1. /\ result \in Outcomes \ {"none"} /\ result \notin {"installed", "absent"}
          /\ result = "applied" => plugin[given] # "none" /\ line[r].command = "apply"
          /\ result = "removed" => plugin[given] = "none"
      BY DEF Outcomes
    <3>2. result = "applied" /\ given = "codex" => market["codex"] # "other"
      BY <2>2, <3>1 DEF PlanAt
    <3> HIDE DEF result
    <3> QED BY <2>1, <2>4, <3>1, <3>2, DeliveringPluginKeeps
  <2>5. CASE Fault /\ NextClient(r, "failed")
    BY <2>1, <2>5, DeliveringPluginKeeps DEF Outcomes
  <2> QED BY <2>1, <2>3, <2>4, <2>5
<1> QED BY <1>4, <1>5, <1>6, <1>7, <1>8, <1>9, <1>10, <1>11 DEF PluginStep

-----------------------------------------------------------------------------
(* The steps of a run that manages the skill.                              *)

(* What is left to show of such a step.                                    *)
LEMMA SkillStepSuffices ==
  ASSUME InstallInvariant, NEW r \in Runs, asset = "skill", UNCHANGED pluginVars,
         RunTypeOK', SkillTypeOK', Elsewhere(r), CourseOf(r)',
         BesideOf(r)', SkillOf(r)', SkillStays', ResidueIsExplained'
  PROVE  InstallInvariant'
<1>1. asset' = "skill" /\ UNCHANGED <<plan, sent, market, plugin, had>>
  BY DEF Elsewhere, options, pluginVars
<1>2. \A q \in Runs \ {r} : CourseOf(q)' /\ BesideOf(q)' /\ SkillOf(q)'
  BY ElsewhereKeeps DEF InstallInvariant, SkillInvariant
<1>3. PluginTyped'
  BY <1>1 DEF InstallInvariant, PluginTyped
<1> QED BY <1>1, <1>2, <1>3 DEF InstallInvariant, PluginInvariant, SkillInvariant

(* Residue that is explained stays so, when what is added is.              *)
LEMMA ResidueKeeps ==
  ASSUME InstallInvariant, Fault \/ faults' = faults,
         \A l \in left' \ left : \/ faults' < MaxFaults
                                 \/ l.is = "backup" /\ (l.entry.is = "file" \/ ~l.alone)
  PROVE  ResidueIsExplained' /\ faults' \in 0 .. MaxFaults /\ (Fault => faults' < MaxFaults)
<1>1. faults \in Nat /\ faults <= MaxFaults /\ MaxFaults \in Nat
  BY MaxFaultsAssumption DEF InstallInvariant, RunTypeOK
<1>2. /\ faults' \in 0 .. MaxFaults /\ (Fault => faults' < MaxFaults)
      /\ faults < MaxFaults => faults' < MaxFaults
  BY <1>1 DEF Fault
<1> QED BY <1>2 DEF InstallInvariant, ResidueIsExplained

(* What is kept where nobody deletes it stays kept.                        *)
LEMMA SafeKeeps ==
  ASSUME NEW r \in Runs, Elsewhere(r), left \subseteq left', NEW c \in Clients, KeptSafe(c),
         dest[c].is = "dir" => dest'[c] = dest[c] \/ KeptSafe(c)',
         ~Placed(r) /\ todo[r] # <<>> /\ Client(r) = c /\ backup[r].is = "dir" => KeptSafe(c)'
  PROVE  KeptSafe(c)'
<1>1. CASE dest[c].is = "dir"
  BY <1>1 DEF KeptSafe
<1>2. ASSUME NEW q \in Runs, ~Placed(q) /\ todo[q] # <<>> /\ Client(q) = c /\ backup[q].is = "dir"
      PROVE  KeptSafe(c)'
  <2>1. CASE q = r
    BY <1>2, <2>1
  <2>2. CASE q # r
    <3>1. todo'[q] = todo[q] /\ backup'[q] = backup[q] /\ Placed(q)' = Placed(q) /\ Client(q)' = Client(q)
      BY <2>2 DEF Elsewhere, Placed, Client
    <3> QED BY <1>2, <3>1 DEF KeptSafe
  <2> QED BY <2>1, <2>2
<1>3. CASE \E l \in left : l.client = c /\ l.is = "backup" /\ l.entry.is = "dir"
  BY <1>3 DEF KeptSafe
<1> QED BY <1>1, <1>2, <1>3 DEF KeptSafe

(* A client has its outcome.                                               *)
LEMMA DeliveringSkill ==
  ASSUME RunTypeOK, NEW r \in Runs, CourseOf(r), SkillOf(r), options' = options, targets' = targets,
         stage[r] \in InWork, todo[r] # <<>>, NEW result \in Outcomes \ {"none"}, NextClient(r, result),
         alone' \in [Runs -> [Clients -> BOOLEAN]], faults' \in 0 .. MaxFaults,
         found' = found, alone'[r] = alone[r],
         NEW c \in Clients, c = Client(r), \A d \in Clients \ {c} : dest'[d] = dest[d],
         dest'[c] = dest[c] \/ Changes(r),
         alone[r][c] =>
           /\ result \in {"applied", "installed"} => dest'[c].is = "dir"
           /\ result = "applied" => dest'[c] = Dir(r, TRUE)
           /\ result \in {"removed", "absent"} => dest'[c].is # "dir"
           /\ result = "failed" /\ line[r].command = "apply" => dest'[c] = found[r][c]
  PROVE  RunTypeOK' /\ CourseOf(r)' /\ stage'[r] = "working" /\ SkillOf(r)'
<1>1. /\ RunTypeOK' /\ CourseOf(r)' /\ stage'[r] = "working"
      /\ c \in TargetSet(r) /\ c \in Remaining(r)
      /\ Remaining(r)' = Remaining(r) \ {c}
      /\ outcome'[r] = [outcome[r] EXCEPT ![c] = result]
  BY DeliveringKeepsCourse
<1>2. SameCourse(r)
  BY SameTargets
<1>3. \A d \in Clients : outcome'[r][d] = IF d = c THEN result ELSE outcome[r][d]
  BY <1>1 DEF RunTypeOK
<1>4. \A d \in Clients : Before(r, d)' => Before(r, d)
  BY <1>1, <1>2 DEF Before, SameCourse, InWork, Replacing
<1>5. ASSUME alone[r][c] PROVE SkillAt(r, c)'
  <2>1. Before(r, c)' => dest'[c] = found[r][c]
    BY <1>1, <1>2, <1>4, <1>5 DEF SkillOf, SkillAt, Before, SameCourse
  <2> QED BY <1>1, <1>2, <1>3, <1>5, <2>1 DEF SkillAt, SameCourse, Dir
<1>6. ASSUME NEW d \in Clients \ {c}, alone[r][d] PROVE SkillAt(r, d)'
  <2>1. SkillAt(r, d)
    BY <1>6 DEF SkillOf
  <2> QED BY <1>1, <1>2, <1>3, <1>4, <2>1 DEF SkillAt, SameCourse, Dir, Replacing
<1> QED BY <1>1, <1>5, <1>6 DEF SkillOf

(* A run goes on to another step at a client.                              *)
LEMMA MovingSkill ==
  ASSUME RunTypeOK, NEW r \in Runs, CourseOf(r), SkillOf(r), options' = options,
         UNCHANGED <<targets, todo, outcome, found>>, asset = "skill",
         stage[r] \in InWork, todo[r] # <<>>, Changes(r),
         NEW s \in Replacing \cup {"rmtree"}, Goto(r, s),
         line[r].command = IF s = "rmtree" THEN "remove" ELSE "apply",
         alone' \in [Runs -> [Clients -> BOOLEAN]], faults' \in 0 .. MaxFaults,
         alone'[r] = alone[r],
         NEW c \in Clients, c = Client(r), \A d \in Clients \ {c} : dest'[d] = dest[d],
         alone[r][c] => SkillNow(r, c)'
  PROVE  RunTypeOK' /\ CourseOf(r)' /\ stage'[r] = s /\ SkillOf(r)'
<1>1. /\ RunTypeOK' /\ CourseOf(r)' /\ stage'[r] = s
      /\ c \in TargetSet(r) /\ c \in Remaining(r) /\ Remaining(r)' = Remaining(r)
  BY MovingKeepsCourse DEF Moves, InWork, Replacing, Stages
<1>2. SameCourse(r) /\ Client(r)' = c
  BY SameTargets DEF Client
<1>3. \A d \in Clients : (Before(r, d)' => Before(r, d)) /\ ~Before(r, c)
  BY <1>1, <1>2 DEF Before, SameCourse, InWork, Replacing
<1>4. ASSUME alone[r][c] PROVE SkillAt(r, c)'
  <2>1. outcome[r][c] = "none" /\ SkillNow(r, c)'
    BY <1>1, <1>4 DEF CourseOf
  <2> QED BY <1>1, <1>2, <1>3, <2>1 DEF SkillAt
<1>5. ASSUME NEW d \in Clients \ {c}, alone[r][d] PROVE SkillAt(r, d)'
  <2>1. SkillAt(r, d)
    BY <1>5 DEF SkillOf
  <2> QED BY <1>1, <1>2, <1>3, <2>1 DEF SkillAt, SameCourse, Dir
<1> QED BY <1>1, <1>4, <1>5 DEF SkillOf

(* Whole directories stay kept by a step at the client at hand.            *)
LEMMA StaysKeep ==
  ASSUME InstallInvariant, asset = "skill", NEW r \in Runs, Elsewhere(r), found' = found,
         backup \in [Runs -> Entries], left \subseteq left',
         NEW c \in Clients, \A d \in Clients \ {c} : dest'[d] = dest[d],
         todo[r] # <<>> => c = Client(r),
         NobodyRemoves => /\ IsWhole(dest'[c]) /\ IsWhole(backup'[r])
                          /\ \A l \in left' \ left : l.is = "backup" => IsWhole(l.entry)
                          /\ dest[c].is = "dir" => dest'[c] = dest[c] \/ KeptSafe(c)'
                          /\ ~Placed(r) /\ todo[r] # <<>> /\ backup[r].is = "dir" => KeptSafe(c)'
  PROVE  SkillStays'
<1> SUFFICES ASSUME NobodyRemoves PROVE SkillStays'
  BY DEF SkillStays, NobodyRemoves, Elsewhere, options
<1>1. SkillStays
  BY DEF InstallInvariant, SkillInvariant
<1>2. \A d \in Clients : IsWhole(dest'[d])
  BY <1>1 DEF SkillStays
<1>3. \A q \in Runs : IsWhole(backup'[q])
  BY <1>1 DEF SkillStays, Elsewhere
<1>4. \A l \in left' : l.is = "backup" => IsWhole(l.entry)
  BY <1>1 DEF SkillStays
<1>5. ASSUME NEW q \in Runs, NEW d \in Clients, found'[q][d].is = "dir" PROVE KeptSafe(d)'
  <2>1. KeptSafe(d)
    BY <1>1, <1>5 DEF SkillStays
  <2>2. CASE d = c
    BY <2>1, <2>2, SafeKeeps
  <2>3. CASE d # c
    BY <2>1, <2>3, SafeKeeps
  <2> QED BY <2>2, <2>3
<1> QED BY <1>2, <1>3, <1>4, <1>5 DEF SkillStays, IsWhole

LEMMA BeginSkillKeeps ==
  ASSUME InstallInvariant, NEW r \in Runs, asset = "skill", UNCHANGED pluginVars, BeginSkill(r)
  PROVE  InstallInvariant'
<1>1. /\ RunTypeOK /\ CourseOf(r) /\ SelectTargets(r) /\ SkillTypeOK /\ stage[r] = "idle"
      /\ options' = options /\ faults' = faults
      /\ UNCHANGED <<dest, staging, backup, doomed, left>>
      /\ found' = [found EXCEPT ![r] = dest]
  BY DEF InstallInvariant, BeginSkill, SelectTargets, options
<1>2. /\ RunTypeOK' /\ CourseOf(r)'
      /\ stage'[r] \in {"planning", "refused"}
      /\ \A c \in Clients : outcome'[r][c] \in {"none", "skipped"} /\ alone'[r][c]
  BY <1>1, SelectingKeepsCourse
<1>3. SkillTypeOK' /\ found'[r] = dest /\ \A q \in Runs \ {r} : found'[q] = found[q]
  BY <1>1 DEF SkillTypeOK
<1>4. Elsewhere(r)
  BY <1>1, <1>3 DEF Elsewhere, SelectTargets, Goto, RunTypeOK, pluginVars
<1>5. BesideOf(r) /\ staging[r] = Nothing /\ backup[r] = Nothing
  BY <1>1 DEF InstallInvariant, SkillInvariant, BesideOf
<1>6. BesideOf(r)'
  BY <1>1, <1>2, <1>5 DEF BesideOf
<1>7. SkillOf(r)'
  BY <1>1, <1>2, <1>3 DEF SkillOf, SkillAt, InWork, Replacing
<1>8. SkillStays'
  <2> SUFFICES ASSUME NobodyRemoves PROVE SkillStays'
    BY <1>1 DEF SkillStays, NobodyRemoves, options
  <2>1. SkillStays
    BY DEF InstallInvariant, SkillInvariant
  <2>2. ASSUME NEW c \in Clients, KeptSafe(c) PROVE KeptSafe(c)'
    BY <1>1, <1>4, <1>5, <2>2, SafeKeeps DEF Nothing
  <2>3. \A c \in Clients : dest[c].is = "dir" => KeptSafe(c)
    BY DEF KeptSafe
  <2>4. ASSUME NEW q \in Runs, NEW c \in Clients, found'[q][c].is = "dir" PROVE KeptSafe(c)
    BY <1>3, <2>1, <2>3, <2>4 DEF SkillStays
  <2> QED BY <1>1, <2>1, <2>2, <2>4 DEF SkillStays, IsWhole
<1>9. ResidueIsExplained'
  BY <1>1 DEF InstallInvariant, ResidueIsExplained
<1> QED BY <1>1, <1>2, <1>3, <1>4, <1>6, <1>7, <1>8, <1>9, SkillStepSuffices

(* A run that begins, ends or is repeated changes no skill, and has no     *)
(* copies of one.                                                          *)
LEMMA OutsideKeeps ==
  ASSUME InstallInvariant, NEW r \in Runs, asset = "skill",
         UNCHANGED <<pluginVars, skillVars, options, targets, todo, outcome, alone>>,
         Fault \/ faults' = faults, NEW s \in {"idle", "working", "refused", "ok", "failed"}, Goto(r, s),
         \/ stage[r] = "planning" /\ s \in {"working", "refused"}
         \/ stage[r] = "working" /\ todo[r] = <<>> /\ s \in {"ok", "failed"}
         \/ stage[r] \in {"refused", "failed", "crashed"} /\ Changes(r) /\ s = "idle"
  PROVE  InstallInvariant'
<1>1. /\ RunTypeOK /\ CourseOf(r) /\ SkillTypeOK /\ options' = options
      /\ UNCHANGED <<targets, todo, outcome, alone, dest, staging, backup, doomed, left, found>>
      /\ alone' \in [Runs -> [Clients -> BOOLEAN]]
      /\ BesideOf(r) /\ SkillOf(r)
  BY DEF InstallInvariant, SkillInvariant, RunTypeOK, skillVars
<1>2. ResidueIsExplained' /\ faults' \in 0 .. MaxFaults
  BY <1>1, ResidueKeeps
<1>3. RunTypeOK' /\ CourseOf(r)' /\ stage'[r] = s /\ Remaining(r)' = Remaining(r)
  BY <1>1, <1>2, MovingKeepsCourse DEF Moves, Stages, InWork, Replacing
<1>4. SkillTypeOK'
  BY <1>1 DEF SkillTypeOK
<1>5. Elsewhere(r)
  BY <1>1 DEF Elsewhere, Goto, RunTypeOK, pluginVars
<1>6. staging[r] = Nothing /\ backup[r] = Nothing
  BY <1>1 DEF BesideOf
<1>7. BesideOf(r)'
  BY <1>1, <1>3, <1>6 DEF BesideOf
<1>8. SkillOf(r)'
  <2>1. SameCourse(r)
    BY <1>1, SameTargets
  <2>2. \A c \in Clients : Before(r, c)' => Before(r, c)
    BY <1>3, <2>1 DEF Before, SameCourse
  <2>3. s \in InWork => Remaining(r)' = TargetSet(r) /\ stage[r] = "planning"
    BY <1>1, <1>3 DEF CourseOf, Remaining, TargetSet, Listed, InWork, Replacing
  <2>4. ASSUME NEW c \in Clients, alone[r][c] PROVE SkillAt(r, c)'
    <3>1. SkillAt(r, c)
      BY <1>1, <2>4 DEF SkillOf
    <3>2. s \in InWork => dest[c] = found[r][c]
      BY <2>3, <3>1 DEF SkillAt, Before
    <3>3. s \notin Replacing \cup {"rmtree"}
      BY DEF Replacing
    <3> QED BY <1>1, <1>3, <2>1, <2>2, <3>1, <3>2, <3>3 DEF SkillAt, SameCourse, Dir
  <2> QED BY <1>1, <2>4 DEF SkillOf
<1>9. SkillStays'
  <2>1. PICK c \in Clients : todo[r] # <<>> => c = Client(r)
    BY <1>1, RemainingClients DEF CourseOf, Clients
  <2>2. SkillStays
    BY DEF InstallInvariant, SkillInvariant
  <2>3. NobodyRemoves => IsWhole(dest[c]) /\ IsWhole(backup[r])
    BY <2>2 DEF SkillStays
  <2> QED BY <1>1, <1>5, <1>6, <2>1, <2>3, StaysKeep DEF SkillTypeOK, Nothing, IsWhole
<1> QED BY <1>2, <1>3, <1>4, <1>5, <1>7, <1>8, <1>9, SkillStepSuffices

(* What is at a name.                                                      *)
LEMMA EntryKinds ==
  ASSUME NEW e \in Entries
  PROVE  /\ e.is \in {"nothing", "file", "symlink", "dir"}
         /\ ~Exists(e) <=> e = Nothing
         /\ e.is = "dir" => e \in {Dir(s, w) : s \in Sources, w \in BOOLEAN}
BY DEF Entries, Nothing, SomeFile, Symlink, Dir, Exists

LEMMA DirectoryEntry ==
  ASSUME NEW s \in Sources, NEW w \in BOOLEAN, NEW e, e = Dir(s, w)
  PROVE  e \in Entries
BY DEF Entries, Dir

(* The client at hand.                                                     *)
LEMMA ClientAtHand ==
  ASSUME InstallInvariant, asset = "skill", NEW r \in Runs, todo[r] # <<>>
  PROVE  /\ Client(r) \in Clients /\ Client(r) \in TargetSet(r) /\ Client(r) \in Remaining(r)
         /\ stage[r] \in InWork /\ alone[r][Client(r)] =>
              IF stage[r] \in Replacing \cup {"rmtree"} THEN SkillNow(r, Client(r))
              ELSE dest[Client(r)] = found[r][Client(r)]
         /\ NobodyRemoves => IsWhole(dest[Client(r)]) /\ IsWhole(backup[r])
<1>1. RunTypeOK /\ CourseOf(r) /\ SkillOf(r) /\ SkillStays
  BY DEF InstallInvariant, SkillInvariant
<1>2. Client(r) \in Clients /\ Client(r) \in TargetSet(r) /\ Client(r) \in Remaining(r)
  BY <1>1, RemainingClients DEF CourseOf
<1>3. NobodyRemoves => IsWhole(dest[Client(r)]) /\ IsWhole(backup[r])
  BY <1>1, <1>2 DEF SkillStays
<1> QED BY <1>1, <1>2, <1>3 DEF SkillOf, SkillAt

(* Who is alone after a change of a client.                                *)
LEMMA TouchingLeaves ==
  ASSUME RunTypeOK, NEW r \in Runs, NEW c \in Clients, Touch(r, c)
  PROVE  /\ alone' \in [Runs -> [Clients -> BOOLEAN]] /\ alone'[r] = alone[r]
         /\ \A q \in Runs \ {r}, d \in Clients : alone'[q][d] => alone[q][d] /\ d # c
BY DEF Touch, RunTypeOK

(* A step at the client at hand changes nothing of the other clients and   *)
(* of the other runs.                                                      *)
OnlyAt(r, c) ==
  /\ c = Client(r) /\ options' = options /\ targets' = targets /\ found' = found
  /\ UNCHANGED pluginVars
  /\ \A d \in Clients \ {c} : dest'[d] = dest[d]
  /\ \A q \in Runs \ {r} :
       /\ stage'[q] = stage[q] /\ todo'[q] = todo[q] /\ outcome'[q] = outcome[q]
       /\ staging'[q] = staging[q] /\ backup'[q] = backup[q]
  /\ Touch(r, c) \/ (alone' = alone /\ dest'[c] = dest[c])
  /\ SkillTypeOK' /\ left \subseteq left'
  /\ Fault \/ faults' = faults

LEMMA OnlyAtKeeps ==
  ASSUME InstallInvariant, NEW r \in Runs, NEW c \in Clients, OnlyAt(r, c)
  PROVE  /\ Elsewhere(r)
         /\ alone' \in [Runs -> [Clients -> BOOLEAN]] /\ alone'[r] = alone[r]
<1>1. /\ alone' \in [Runs -> [Clients -> BOOLEAN]] /\ alone'[r] = alone[r]
      /\ \A q \in Runs \ {r}, d \in Clients : alone'[q][d] => alone[q][d] /\ dest'[d] = dest[d]
  <2>1. CASE alone' = alone /\ dest'[c] = dest[c]
    BY <2>1 DEF InstallInvariant, RunTypeOK, OnlyAt
  <2>2. CASE Touch(r, c)
    BY <2>2, TouchingLeaves DEF InstallInvariant, OnlyAt
  <2> QED BY <2>1, <2>2 DEF OnlyAt
<1> QED BY <1>1 DEF Elsewhere, OnlyAt, pluginVars

(* A step from one stage at a client to another.                           *)
LEMMA ReplacingKeeps ==
  ASSUME InstallInvariant, NEW r \in Runs, asset = "skill", NEW c \in Clients, OnlyAt(r, c),
         stage[r] \in InWork, todo[r] # <<>>, Changes(r),
         NEW s \in Replacing \cup {"rmtree"}, Goto(r, s), UNCHANGED <<todo, outcome, left>>,
         line[r].command = IF s = "rmtree" THEN "remove" ELSE "apply",
         BesideOf(r)', alone[r][c] => SkillNow(r, c)',
         NobodyRemoves => /\ IsWhole(dest'[c]) /\ IsWhole(backup'[r])
                          /\ dest[c].is = "dir" => dest'[c] = dest[c] \/ KeptSafe(c)'
                          /\ ~Placed(r) /\ backup[r].is = "dir" => KeptSafe(c)'
  PROVE  InstallInvariant'
<1>1. /\ RunTypeOK /\ CourseOf(r) /\ SkillTypeOK /\ SkillOf(r) /\ UNCHANGED pluginVars
      /\ c = Client(r) /\ options' = options /\ targets' = targets /\ found' = found
      /\ \A d \in Clients \ {c} : dest'[d] = dest[d]
      /\ Fault \/ faults' = faults
      /\ SkillTypeOK'
  BY DEF InstallInvariant, SkillInvariant, OnlyAt
<1>2. /\ Elsewhere(r)
      /\ alone' \in [Runs -> [Clients -> BOOLEAN]] /\ alone'[r] = alone[r]
  BY OnlyAtKeeps
<1>3. ResidueIsExplained' /\ faults' \in 0 .. MaxFaults
  BY <1>1, ResidueKeeps
<1>4. RunTypeOK' /\ CourseOf(r)' /\ SkillOf(r)'
  BY <1>1, <1>2, <1>3, MovingSkill
<1>5. SkillStays'
  BY <1>1, <1>2, StaysKeep DEF SkillTypeOK
<1> QED BY <1>1, <1>2, <1>3, <1>4, <1>5, SkillStepSuffices

(* What a run leaves beside is explained, and whole where applies run.     *)
Explained(l) ==
  /\ faults' < MaxFaults \/ (l.is = "backup" /\ (l.entry.is = "file" \/ ~l.alone))
  /\ NobodyRemoves /\ l.is = "backup" => IsWhole(l.entry)

(* The end of the work at a client.                                        *)
LEMMA DeliveringSkillKeeps ==
  ASSUME InstallInvariant, NEW r \in Runs, asset = "skill", NEW c \in Clients, OnlyAt(r, c),
         stage[r] \in InWork, todo[r] # <<>>,
         NEW result \in Outcomes \ {"none"}, NextClient(r, result),
         dest'[c] = dest[c] \/ (Changes(r) /\ line[r].command = "remove"),
         staging'[r] = Nothing, backup'[r] = Nothing,
         \A l \in left' \ left : Explained(l),
         alone[r][c] =>
           /\ result \in {"applied", "installed"} => dest'[c].is = "dir"
           /\ result = "applied" => dest'[c] = Dir(r, TRUE)
           /\ result \in {"removed", "absent"} => dest'[c].is # "dir"
           /\ result = "failed" /\ line[r].command = "apply" => dest'[c] = found[r][c],
         NobodyRemoves /\ ~Placed(r) /\ backup[r].is = "dir" => KeptSafe(c)'
  PROVE  InstallInvariant'
<1>1. /\ RunTypeOK /\ CourseOf(r) /\ SkillTypeOK /\ SkillOf(r) /\ UNCHANGED pluginVars
      /\ c = Client(r) /\ options' = options /\ targets' = targets /\ found' = found
      /\ \A d \in Clients \ {c} : dest'[d] = dest[d]
      /\ Fault \/ faults' = faults
      /\ SkillTypeOK' /\ left \subseteq left'
  BY DEF InstallInvariant, SkillInvariant, OnlyAt
<1>2. /\ Elsewhere(r)
      /\ alone' \in [Runs -> [Clients -> BOOLEAN]] /\ alone'[r] = alone[r]
  BY OnlyAtKeeps
<1>3. ResidueIsExplained' /\ faults' \in 0 .. MaxFaults
  BY <1>1, ResidueKeeps DEF Explained
<1>4. RunTypeOK' /\ CourseOf(r)' /\ SkillOf(r)' /\ stage'[r] = "working"
  <2>1. dest'[c] = dest[c] \/ Changes(r)
    OBVIOUS
  <2> QED BY <1>1, <1>2, <1>3, <2>1, DeliveringSkill DEF Dir
<1>5. BesideOf(r)'
  BY <1>4 DEF BesideOf
<1>6. SkillStays'
  <2>1. NobodyRemoves => IsWhole(dest[c]) /\ dest'[c] = dest[c]
    BY <1>1, ClientAtHand DEF NobodyRemoves
  <2>2. IsWhole(backup'[r])
    BY DEF IsWhole, Nothing
  <2> QED BY <1>1, <1>2, <2>1, <2>2, StaysKeep DEF SkillTypeOK, Explained
<1> QED BY <1>1, <1>2, <1>3, <1>4, <1>5, <1>6, SkillStepSuffices

(* A run is broken off at a client.                                        *)
LEMMA BreakingOffKeeps ==
  ASSUME InstallInvariant, NEW r \in Runs, asset = "skill", NEW c \in Clients, OnlyAt(r, c),
         todo[r] # <<>>, Changes(r), Goto(r, "crashed"), UNCHANGED <<todo, outcome, alone>>,
         dest'[c] = dest[c], staging'[r] = Nothing, backup'[r] = Nothing,
         \A l \in left' \ left : Explained(l),
         backup[r].is = "dir" => \E l \in left' : l.client = c /\ l.is = "backup" /\ l.entry.is = "dir"
  PROVE  InstallInvariant'
<1>1. /\ RunTypeOK /\ CourseOf(r) /\ SkillTypeOK /\ SkillOf(r) /\ UNCHANGED pluginVars
      /\ c = Client(r) /\ options' = options /\ targets' = targets /\ found' = found
      /\ \A d \in Clients : dest'[d] = dest[d]
      /\ Fault \/ faults' = faults
      /\ SkillTypeOK' /\ left \subseteq left'
  BY DEF InstallInvariant, SkillInvariant, OnlyAt
<1>2. /\ Elsewhere(r)
      /\ alone' \in [Runs -> [Clients -> BOOLEAN]]
  BY OnlyAtKeeps
<1>3. ResidueIsExplained' /\ faults' \in 0 .. MaxFaults
  BY <1>1, ResidueKeeps DEF Explained
<1>4. RunTypeOK' /\ CourseOf(r)' /\ stage'[r] = "crashed"
  BY <1>1, <1>2, <1>3, MovingKeepsCourse DEF Moves, Stages, InWork, Replacing
<1>5. BesideOf(r)'
  BY <1>4 DEF BesideOf
<1>6. SkillOf(r)'
  <2>1. SameCourse(r)
    BY <1>1, SameTargets
  <2>2. ASSUME NEW d \in Clients, alone[r][d] PROVE SkillAt(r, d)'
    <3>1. SkillAt(r, d)
      BY <1>1, <2>2 DEF SkillOf
    <3>2. ~Before(r, d)'
      BY <1>4, <2>1 DEF Before, SameCourse
    <3> QED BY <1>1, <1>4, <2>1, <3>1, <3>2 DEF SkillAt, SameCourse, Dir, InWork, Replacing
  <2> QED BY <2>2 DEF SkillOf
<1>7. SkillStays'
  <2>1. NobodyRemoves => IsWhole(dest'[c])
    BY <1>1, ClientAtHand
  <2>2. backup[r].is = "dir" => KeptSafe(c)'
    BY DEF KeptSafe
  <2>3. IsWhole(backup'[r])
    BY DEF IsWhole, Nothing
  <2> QED BY <1>1, <1>2, <2>1, <2>2, <2>3, StaysKeep DEF SkillTypeOK, Explained
<1> QED BY <1>1, <1>2, <1>3, <1>4, <1>5, <1>6, <1>7, SkillStepSuffices

(* A run that only says what it finds, or what it would do.                *)
LEMMA SkillReportKeeps ==
  ASSUME InstallInvariant, NEW r \in Runs, asset = "skill", UNCHANGED pluginVars, SkillReport(r)
  PROVE  InstallInvariant'
<1>1. /\ stage[r] = "working" /\ stage[r] \in InWork /\ todo[r] # <<>> /\ options' = options /\ faults' = faults
      /\ UNCHANGED <<targets, alone, dest, staging, backup, doomed, left, found>>
  BY DEF SkillReport, At, skillVars, options, InWork
<1>2. RunTypeOK /\ SkillTypeOK /\ BesideOf(r)
  BY DEF InstallInvariant, SkillInvariant
<1>3. PICK c \in Clients : c = Client(r)
  BY <1>1, ClientAtHand
<1>4. PICK result \in Outcomes \ {"none"} :
        /\ NextClient(r, result)
        /\ result # "applied" /\ result # "removed"
        /\ result = "installed" => dest[c].is = "dir"
        /\ result = "absent" => dest[c].is # "dir"
        /\ result = "failed" => line[r].command # "apply"
  <2> DEFINE told == CASE line[r].command = "check" -> "ready"
                       [] line[r].command = "apply" -> "planned"
                       [] OTHER -> CASE dest[c].is \in {"symlink", "file"} -> "failed"
                                     [] dest[c].is = "nothing" -> "absent"
                                     [] OTHER -> IF line[r].command = "list" THEN "installed" ELSE "planned"
  <2>1. NextClient(r, told)
    BY <1>3 DEF SkillReport, Here
  <2>2. dest[c].is \in {"nothing", "file", "symlink", "dir"}
    BY <1>2, EntryKinds DEF SkillTypeOK
  <2>3. /\ told \in Outcomes \ {"none"} /\ told # "applied" /\ told # "removed"
        /\ told = "installed" => dest[c].is = "dir"
        /\ told = "absent" => dest[c].is # "dir"
        /\ told = "failed" => line[r].command # "apply"
    BY <2>2 DEF Outcomes
  <2> QED BY <2>1, <2>3
<1>5. staging'[r] = Nothing /\ backup'[r] = Nothing /\ backup[r].is # "dir"
  BY <1>1, <1>2 DEF BesideOf, Nothing
<1>6. OnlyAt(r, c)
  BY <1>1, <1>2, <1>3, <1>4 DEF OnlyAt, SkillTypeOK, NextClient, Goto, RunTypeOK
<1>7. left' \ left = {} /\ dest'[c] = dest[c]
  BY <1>1
<1> QED BY <1>1, <1>4, <1>5, <1>6, <1>7, DeliveringSkillKeeps DEF Dir

(* The steps of replace_skill_leaf.                                        *)
LEMMA StartApplyKeeps ==
  ASSUME InstallInvariant, NEW r \in Runs, asset = "skill", UNCHANGED pluginVars, StartApply(r)
  PROVE  InstallInvariant'
<1>1. /\ stage[r] = "working" /\ stage[r] \in InWork /\ todo[r] # <<>> /\ options' = options /\ faults' = faults
      /\ UNCHANGED <<targets, alone, dest, staging, backup, doomed, left, found>>
      /\ line[r].command = "apply" /\ Changes(r)
      /\ \/ NextClient(r, "failed")
         \/ Goto(r, "copy") /\ UNCHANGED <<todo, outcome>>
  BY DEF StartApply, At, skillVars, options, InWork
<1>2. RunTypeOK /\ SkillTypeOK /\ BesideOf(r)
  BY DEF InstallInvariant, SkillInvariant
<1>3. PICK c \in Clients : /\ c = Client(r) /\ (alone[r][c] => dest[c] = found[r][c])
                           /\ NobodyRemoves => IsWhole(dest[c]) /\ IsWhole(backup[r])
  BY <1>1, ClientAtHand DEF Replacing
<1>4. staging'[r] = Nothing /\ backup'[r] = Nothing /\ backup[r].is # "dir"
  BY <1>1, <1>2 DEF BesideOf, Nothing
<1>5. OnlyAt(r, c)
  BY <1>1, <1>2, <1>3 DEF OnlyAt, SkillTypeOK, NextClient, Goto, RunTypeOK
<1>6. left' \ left = {} /\ dest'[c] = dest[c]
  BY <1>1
<1>7. CASE NextClient(r, "failed")
  BY <1>1, <1>3, <1>4, <1>5, <1>6, <1>7, DeliveringSkillKeeps DEF Outcomes, Dir
<1>8. CASE Goto(r, "copy") /\ UNCHANGED <<todo, outcome>>
  <2>1. stage'[r] = "copy"
    BY <1>2, <1>8 DEF Goto, RunTypeOK
  <2>2. BesideOf(r)'
    BY <1>4, <2>1 DEF BesideOf
  <2>3. alone[r][c] => SkillNow(r, c)'
    BY <1>1, <1>3, <1>4, <2>1 DEF SkillNow, Undone, Placed
  <2> QED BY <1>1, <1>3, <1>4, <1>5, <1>6, <1>8, <2>2, <2>3, ReplacingKeeps DEF Replacing
<1> QED BY <1>1, <1>7, <1>8

(* A run that replaces a skill.                                            *)
LEMMA WhileReplacing ==
  ASSUME InstallInvariant, asset = "skill", NEW r \in Runs, stage[r] \in Replacing
  PROVE  /\ RunTypeOK /\ SkillTypeOK /\ BesideOf(r)
         /\ stage[r] \in InWork /\ todo[r] # <<>> /\ Changes(r) /\ line[r].command = "apply"
         /\ \E c \in Clients : /\ c = Client(r) /\ dest[c] \in Entries
                               /\ alone[r][c] => SkillNow(r, c)
                               /\ NobodyRemoves => IsWhole(dest[c]) /\ IsWhole(backup[r])
<1>1. RunTypeOK /\ SkillTypeOK /\ BesideOf(r) /\ CourseOf(r) /\ stage[r] \in InWork
  BY DEF InstallInvariant, SkillInvariant, InWork
<1>2. todo[r] # <<>> /\ Changes(r) /\ line[r].command = "apply"
  BY <1>1 DEF CourseOf
<1>3. /\ Client(r) \in Clients
      /\ alone[r][Client(r)] => SkillNow(r, Client(r))
      /\ NobodyRemoves => IsWhole(dest[Client(r)]) /\ IsWhole(backup[r])
  BY <1>1, <1>2, ClientAtHand
<1>4. dest[Client(r)] \in Entries
  BY <1>1, <1>3 DEF SkillTypeOK
<1> QED BY <1>1, <1>2, <1>3, <1>4

LEMMA CopyKeeps ==
  ASSUME InstallInvariant, NEW r \in Runs, asset = "skill", UNCHANGED pluginVars, Copy(r)
  PROVE  InstallInvariant'
<1>1. /\ stage[r] = "copy" /\ stage[r] \in Replacing /\ options' = options
      /\ UNCHANGED <<targets, todo, outcome, alone, dest, backup, doomed, left, found>>
  BY DEF Copy, Stays, At, options, Replacing
<1>2. /\ RunTypeOK /\ SkillTypeOK /\ BesideOf(r)
      /\ stage[r] \in InWork /\ todo[r] # <<>> /\ Changes(r) /\ line[r].command = "apply"
  BY <1>1, WhileReplacing
<1>3. PICK c \in Clients : /\ c = Client(r)
                           /\ alone[r][c] => SkillNow(r, c)
                           /\ NobodyRemoves => IsWhole(dest[c]) /\ IsWhole(backup[r])
  BY <1>1, WhileReplacing
<1>4. PICK s \in {"look", "undo"}, copy \in Copies(r) :
        /\ Goto(r, s) /\ staging' = [staging EXCEPT ![r] = copy]
        /\ s = "look" => copy = Dir(r, TRUE)
        /\ Fault \/ faults' = faults
  BY DEF Copy, Copies
<1>5. copy \in Entries /\ copy # Nothing
  <2>1. r \in Sources /\ TRUE \in BOOLEAN /\ FALSE \in BOOLEAN
    BY DEF Sources
  <2>2. PICK w \in BOOLEAN : copy = Dir(r, w)
    BY <1>4, <2>1, Zenon DEF Copies
  <2> QED BY <2>1, <2>2 DEF Entries, Dir, Nothing
<1>6. stage'[r] = s /\ staging'[r] = copy /\ backup[r] = Nothing
  BY <1>1, <1>2, <1>4 DEF Goto, RunTypeOK, SkillTypeOK, BesideOf
<1>7. OnlyAt(r, c)
  BY <1>1, <1>2, <1>3, <1>4, <1>5 DEF OnlyAt, SkillTypeOK, Goto, RunTypeOK
<1>8. BesideOf(r)'
  BY <1>1, <1>4, <1>5, <1>6 DEF BesideOf, Copies, Dir
<1>9. alone[r][c] => SkillNow(r, c)'
  BY <1>1, <1>3, <1>5, <1>6 DEF SkillNow, Undone, Placed
<1>10. backup[r].is # "dir"
  BY <1>6 DEF Nothing
<1>11. s \in Replacing /\ s # "rmtree" /\ dest'[c] = dest[c] /\ backup'[r] = backup[r]
  BY <1>1 DEF Replacing
<1> QED BY <1>1, <1>2, <1>3, <1>4, <1>7, <1>8, <1>9, <1>10, <1>11, ReplacingKeeps

(* A step that changes nothing but the stage.                              *)
LEMMA TurningKeeps ==
  ASSUME InstallInvariant, NEW r \in Runs, asset = "skill", UNCHANGED pluginVars,
         stage[r] \in Replacing, ~Placed(r), options' = options,
         UNCHANGED <<targets, todo, outcome, alone, dest, staging, backup, doomed, left, found>>,
         NEW s \in Replacing, s # "tidy", Goto(r, s), Fault \/ faults' = faults, BesideOf(r)',
         NEW c \in Clients, c = Client(r), alone[r][c] => SkillNow(r, c)'
  PROVE  InstallInvariant'
<1>1. /\ RunTypeOK /\ SkillTypeOK /\ BesideOf(r)
      /\ stage[r] \in InWork /\ todo[r] # <<>> /\ Changes(r) /\ line[r].command = "apply"
      /\ NobodyRemoves => IsWhole(dest[c]) /\ IsWhole(backup[r])
  BY WhileReplacing
<1>2. OnlyAt(r, c)
  BY <1>1 DEF OnlyAt, SkillTypeOK, Goto, RunTypeOK
<1>3. stage'[r] = s
  BY <1>1 DEF Goto, RunTypeOK
<1>4. backup[r].is = "dir" => KeptSafe(c)'
  <2> SUFFICES ASSUME backup[r].is = "dir" PROVE KeptSafe(c)'
    OBVIOUS
  <2>1. ~Placed(r)'
    <3>1. stage[r] \in {"look", "move", "place", "undo", "restore", "clean"}
      BY <1>1 DEF BesideOf, Replacing, Placed, Nothing
    <3>2. staging[r] # Nothing
      BY <1>1, <3>1 DEF BesideOf, Placed, Dir, Nothing
    <3> QED BY <1>3, <3>2 DEF Placed
  <2>2. todo'[r] # <<>> /\ Client(r)' = c /\ backup'[r].is = "dir"
    BY <1>1 DEF Client
  <2> QED BY <2>1, <2>2 DEF KeptSafe
<1>5. s # "rmtree" /\ dest'[c] = dest[c] /\ backup'[r] = backup[r]
  BY DEF Replacing
<1> QED BY <1>1, <1>2, <1>4, <1>5, ReplacingKeeps

LEMMA LookKeeps ==
  ASSUME InstallInvariant, NEW r \in Runs, asset = "skill", UNCHANGED pluginVars, Look(r)
  PROVE  InstallInvariant'
<1>1. /\ stage[r] = "look" /\ stage[r] \in Replacing /\ options' = options /\ faults' = faults
      /\ UNCHANGED <<targets, todo, outcome, alone, dest, staging, backup, doomed, left, found>>
  BY DEF Look, Stays, At, options, skillVars, Replacing
<1>2. RunTypeOK /\ BesideOf(r)
  BY <1>1, WhileReplacing
<1>3. PICK c \in Clients : c = Client(r) /\ (alone[r][c] => SkillNow(r, c))
  BY <1>1, WhileReplacing
<1>4. PICK s \in {"move", "place"} : Goto(r, s)
  BY DEF Look
<1>5. stage'[r] = s
  BY <1>2, <1>4 DEF Goto, RunTypeOK
<1>6. BesideOf(r)'
  BY <1>1, <1>2, <1>5 DEF BesideOf
<1>7. alone[r][c] => SkillNow(r, c)'
  BY <1>1, <1>3, <1>5 DEF SkillNow, Undone, Placed
<1>8. ~Placed(r) /\ s \in Replacing /\ s # "tidy"
  BY <1>1 DEF Placed, Replacing
<1> QED BY <1>1, <1>3, <1>4, <1>6, <1>7, <1>8, TurningKeeps

LEMMA MoveAwayKeeps ==
  ASSUME InstallInvariant, NEW r \in Runs, asset = "skill", UNCHANGED pluginVars, MoveAway(r)
  PROVE  InstallInvariant'
<1>1. /\ stage[r] = "move" /\ stage[r] \in Replacing /\ options' = options
      /\ UNCHANGED <<targets, todo, outcome, staging, doomed, left, found>>
      /\ Fault \/ faults' = faults
  BY DEF MoveAway, Stays, At, options, Replacing
<1>2. /\ RunTypeOK /\ SkillTypeOK /\ BesideOf(r)
      /\ stage[r] \in InWork /\ todo[r] # <<>> /\ Changes(r) /\ line[r].command = "apply"
  BY <1>1, WhileReplacing
<1>3. PICK c \in Clients : /\ c = Client(r) /\ dest[c] \in Entries
                           /\ alone[r][c] => SkillNow(r, c)
                           /\ NobodyRemoves => IsWhole(dest[c]) /\ IsWhole(backup[r])
  BY <1>1, WhileReplacing
<1>4. CASE /\ Exists(Here(r)) /\ Goto(r, "place")
           /\ backup' = [backup EXCEPT ![r] = Here(r)] /\ SetHere(r, Nothing)
  <2>1. /\ stage'[r] = "place" /\ backup'[r] = dest[c] /\ backup[r] = Nothing /\ staging[r] = Dir(r, TRUE)
        /\ dest' = [dest EXCEPT ![c] = Nothing] /\ dest'[c] = Nothing /\ Touch(r, c)
        /\ Exists(dest[c]) /\ backup' = [backup EXCEPT ![r] = dest[c]]
    BY <1>1, <1>2, <1>3, <1>4 DEF Goto, RunTypeOK, SkillTypeOK, BesideOf, Here, SetHere, Dir
  <2>2. SkillTypeOK'
    BY <1>1, <1>2, <1>3, <2>1 DEF SkillTypeOK, Entries
  <2>3. OnlyAt(r, c)
    BY <1>1, <1>2, <1>3, <1>4, <2>1, <2>2 DEF OnlyAt, SkillTypeOK, Goto, RunTypeOK
  <2>4. BesideOf(r)'
    BY <1>1, <1>2, <2>1 DEF BesideOf
  <2>5. alone[r][c] => SkillNow(r, c)'
    BY <1>1, <1>3, <2>1 DEF SkillNow, Undone, MovedAway, Placed
  <2>6. dest[c].is = "dir" => KeptSafe(c)'
    <3>1. ~Placed(r)' /\ todo'[r] # <<>> /\ Client(r)' = c
      BY <1>1, <1>2, <1>3, <2>1 DEF Placed, Client
    <3> QED BY <2>1, <3>1 DEF KeptSafe
  <2>7. backup[r].is # "dir" /\ IsWhole(dest'[c])
    BY <2>1 DEF Nothing, IsWhole
  <2>8. "place" \in Replacing /\ "place" # "rmtree"
    BY DEF Replacing
  <2> QED BY <1>1, <1>2, <1>3, <1>4, <2>1, <2>3, <2>4, <2>5, <2>6, <2>7, <2>8, ReplacingKeeps
<1>5. CASE Goto(r, "undo") /\ UNCHANGED <<dest, alone, backup>>
  <2>1. stage'[r] = "undo" /\ staging[r] # Nothing /\ backup[r] = Nothing
    BY <1>1, <1>2, <1>5 DEF Goto, RunTypeOK, BesideOf, Dir, Nothing
  <2>2. BesideOf(r)'
    BY <1>1, <1>2, <1>5, <2>1 DEF BesideOf
  <2>3. alone[r][c] => SkillNow(r, c)'
    BY <1>1, <1>3, <1>5, <2>1 DEF SkillNow, Undone, MovedAway, Placed
  <2>4. ~Placed(r) /\ "undo" \in Replacing
    BY <1>1 DEF Placed, Replacing
  <2> QED BY <1>1, <1>3, <1>5, <2>2, <2>3, <2>4, TurningKeeps
<1> QED BY <1>4, <1>5 DEF MoveAway

LEMMA PlaceKeeps ==
  ASSUME InstallInvariant, NEW r \in Runs, asset = "skill", UNCHANGED pluginVars, Place(r)
  PROVE  InstallInvariant'
<1>1. /\ stage[r] = "place" /\ stage[r] \in Replacing /\ options' = options
      /\ UNCHANGED <<targets, todo, outcome, backup, doomed, left, found>>
      /\ Fault \/ faults' = faults
  BY DEF Place, Stays, At, options, Replacing
<1>2. /\ RunTypeOK /\ SkillTypeOK /\ BesideOf(r)
      /\ stage[r] \in InWork /\ todo[r] # <<>> /\ Changes(r) /\ line[r].command = "apply"
  BY <1>1, WhileReplacing
<1>3. PICK c \in Clients : /\ c = Client(r) /\ dest[c] \in Entries
                           /\ alone[r][c] => SkillNow(r, c)
                           /\ NobodyRemoves => IsWhole(dest[c]) /\ IsWhole(backup[r])
  BY <1>1, WhileReplacing
<1>4. staging[r] \in Entries /\ staging[r] = Dir(r, TRUE) /\ Nothing \in Entries
  <2>1. Nothing \in Entries
    BY DEF Entries
  <2> QED BY <1>1, <1>2, <2>1 DEF SkillTypeOK, BesideOf, Dir
<1>5. CASE /\ ~Exists(Here(r)) /\ Goto(r, "clean")
           /\ SetHere(r, staging[r]) /\ staging' = [staging EXCEPT ![r] = Nothing]
  <2>1. /\ stage'[r] = "clean" /\ staging'[r] = Nothing
        /\ dest' = [dest EXCEPT ![c] = staging[r]] /\ dest'[c] = staging[r] /\ Touch(r, c)
        /\ dest[c].is # "dir"
    BY <1>2, <1>3, <1>5 DEF Goto, RunTypeOK, SkillTypeOK, Here, SetHere, Exists
  <2>2. SkillTypeOK'
    BY <1>1, <1>2, <1>4, <1>5, <2>1 DEF SkillTypeOK
  <2>3. OnlyAt(r, c)
    BY <1>1, <1>2, <1>3, <1>5, <2>1, <2>2 DEF OnlyAt, SkillTypeOK, Goto, RunTypeOK
  <2>4. BesideOf(r)'
    BY <2>1 DEF BesideOf
  <2>5. SkillNow(r, c)'
    BY <1>4, <2>1 DEF SkillNow, Placed, Dir
  <2>6. KeptSafe(c)' /\ IsWhole(dest'[c])
    BY <1>4, <2>1 DEF KeptSafe, Dir, IsWhole
  <2>7. "clean" \in Replacing /\ "clean" # "rmtree"
    BY DEF Replacing
  <2> QED BY <1>1, <1>2, <1>3, <1>5, <2>1, <2>3, <2>4, <2>5, <2>6, <2>7, ReplacingKeeps
<1>6. CASE Goto(r, "undo") /\ UNCHANGED <<dest, alone, staging>>
  <2>1. stage'[r] = "undo" /\ staging[r] # Nothing
    BY <1>2, <1>4, <1>6 DEF Goto, RunTypeOK, Dir, Nothing
  <2>2. BesideOf(r)'
    BY <1>1, <1>2, <1>6, <2>1 DEF BesideOf
  <2>3. alone[r][c] => SkillNow(r, c)'
    BY <1>1, <1>3, <1>6, <2>1 DEF SkillNow, Undone, MovedAway, Placed
  <2>4. ~Placed(r) /\ "undo" \in Replacing
    BY <1>1 DEF Placed, Replacing
  <2> QED BY <1>1, <1>3, <1>6, <2>2, <2>3, <2>4, TurningKeeps
<1> QED BY <1>5, <1>6 DEF Place

LEMMA UndoKeeps ==
  ASSUME InstallInvariant, NEW r \in Runs, asset = "skill", UNCHANGED pluginVars, Undo(r)
  PROVE  InstallInvariant'
<1>1. /\ stage[r] = "undo" /\ stage[r] \in Replacing /\ options' = options /\ faults' = faults
      /\ UNCHANGED <<targets, todo, outcome, alone, dest, staging, backup, doomed, left, found>>
  BY DEF Undo, Stays, At, options, skillVars, Replacing
<1>2. RunTypeOK /\ BesideOf(r) /\ staging[r] # Nothing
  BY <1>1, WhileReplacing DEF BesideOf
<1>3. PICK c \in Clients : c = Client(r) /\ (alone[r][c] => SkillNow(r, c)) /\ dest[c] \in Entries
  BY <1>1, WhileReplacing
<1>4. PICK s \in {"restore", "clean"} :
        Goto(r, s) /\ (s = "restore" <=> Exists(backup[r]) /\ ~Exists(dest[c]))
  BY <1>3 DEF Undo, Here
<1>5. stage'[r] = s
  BY <1>2, <1>4 DEF Goto, RunTypeOK
<1>6. BesideOf(r)'
  BY <1>1, <1>2, <1>5 DEF BesideOf
<1>7. alone[r][c] => SkillNow(r, c)'
  <2>1. backup[r] = Nothing => ~Exists(backup[r])
    BY DEF Exists, Nothing
  <2>2. ~Exists(Nothing)
    BY DEF Exists, Nothing
  <2> QED BY <1>1, <1>2, <1>3, <1>4, <1>5, <2>1, <2>2 DEF SkillNow, Undone, MovedAway, Placed
<1>8. ~Placed(r) /\ s \in Replacing /\ s # "tidy"
  BY <1>1 DEF Placed, Replacing
<1> QED BY <1>1, <1>3, <1>4, <1>6, <1>7, <1>8, TurningKeeps

LEMMA RestoreKeeps ==
  ASSUME InstallInvariant, NEW r \in Runs, asset = "skill", UNCHANGED pluginVars, Restore(r)
  PROVE  InstallInvariant'
<1>1. /\ stage[r] = "restore" /\ stage[r] \in Replacing /\ options' = options /\ faults' = faults
      /\ UNCHANGED <<targets, todo, outcome, found>>
  BY DEF Restore, Stays, At, options, Replacing
<1>2. /\ RunTypeOK /\ SkillTypeOK /\ BesideOf(r)
      /\ stage[r] \in InWork /\ todo[r] # <<>> /\ Changes(r) /\ line[r].command = "apply"
  BY <1>1, WhileReplacing
<1>3. PICK c \in Clients : /\ c = Client(r) /\ dest[c] \in Entries
                           /\ alone[r][c] => SkillNow(r, c)
                           /\ NobodyRemoves => IsWhole(dest[c]) /\ IsWhole(backup[r])
  BY <1>1, WhileReplacing
<1>4. /\ backup[r] \in Entries /\ Nothing \in Entries /\ staging[r] # Nothing /\ staging[r] \in Copies(r)
      /\ alone[r][c] => MovedAway(r, c)
  <2>1. Nothing \in Entries
    BY DEF Entries
  <2> QED BY <1>1, <1>2, <1>3, <2>1 DEF SkillTypeOK, BesideOf, SkillNow
<1>5. CASE /\ ~Exists(dest[c]) /\ SetHere(r, backup[r]) /\ backup' = [backup EXCEPT ![r] = Nothing]
           /\ Goto(r, "clean") /\ UNCHANGED <<staging, doomed, left>>
  <2>1. /\ stage'[r] = "clean" /\ backup'[r] = Nothing
        /\ dest' = [dest EXCEPT ![c] = backup[r]] /\ dest'[c] = backup[r] /\ Touch(r, c)
        /\ dest[c].is # "dir"
    BY <1>2, <1>3, <1>5 DEF Goto, RunTypeOK, SkillTypeOK, SetHere, Exists
  <2>2. SkillTypeOK'
    BY <1>1, <1>2, <1>4, <1>5, <2>1 DEF SkillTypeOK
  <2>3. OnlyAt(r, c)
    BY <1>1, <1>2, <1>3, <1>5, <2>1, <2>2 DEF OnlyAt, SkillTypeOK, Goto, RunTypeOK
  <2>4. BesideOf(r)'
    BY <1>2, <1>5, <2>1 DEF BesideOf
  <2>5. alone[r][c] => SkillNow(r, c)'
    BY <1>1, <1>4, <1>5, <2>1 DEF SkillNow, Placed, Undone, MovedAway
  <2>6. (backup[r].is = "dir" => KeptSafe(c)') /\ (NobodyRemoves => IsWhole(dest'[c])) /\ IsWhole(backup'[r])
    BY <1>3, <2>1 DEF KeptSafe, IsWhole, Nothing
  <2>7. "clean" \in Replacing /\ "clean" # "rmtree"
    BY DEF Replacing
  <2> QED BY <1>1, <1>2, <1>3, <1>5, <2>1, <2>3, <2>4, <2>5, <2>6, <2>7, ReplacingKeeps
<1>6. CASE /\ Exists(dest[c])
           /\ Goto(r, "crashed") /\ left' = left \cup {l \in Leftovers(r) : l.is = "backup"}
           /\ staging' = [staging EXCEPT ![r] = Nothing] /\ backup' = [backup EXCEPT ![r] = Nothing]
           /\ UNCHANGED <<dest, alone, doomed>>
  <2>1. staging'[r] = Nothing /\ backup'[r] = Nothing
    BY <1>2, <1>6 DEF SkillTypeOK
  <2>2. ~alone[r][c]
    BY <1>4, <1>6 DEF MovedAway, Exists, Nothing
  <2> DEFINE kept == [is |-> "backup", client |-> c, entry |-> backup[r], alone |-> alone[r][c]]
  <2>3. left' = left \cup {kept}
    BY <1>3, <1>6 DEF Leftovers
  <2>4. SkillTypeOK'
    BY <1>1, <1>2, <1>4, <1>6, <2>3 DEF SkillTypeOK
  <2>5. OnlyAt(r, c)
    BY <1>1, <1>2, <1>3, <1>6, <2>3, <2>4 DEF OnlyAt, SkillTypeOK, Goto, RunTypeOK
  <2>6. \A l \in left' \ left : Explained(l)
    BY <1>3, <2>2, <2>3 DEF Explained
  <2>7. backup[r].is = "dir" => \E l \in left' : l.client = c /\ l.is = "backup" /\ l.entry.is = "dir"
    <3>1. kept \in left' /\ kept.client = c /\ kept.is = "backup" /\ kept.entry = backup[r]
      BY <2>3
    <3> QED BY <3>1
  <2> QED BY <1>1, <1>2, <1>6, <2>1, <2>5, <2>6, <2>7, BreakingOffKeeps
<1> QED BY <1>3, <1>5, <1>6 DEF Restore, Here

LEMMA CleanKeeps ==
  ASSUME InstallInvariant, NEW r \in Runs, asset = "skill", UNCHANGED pluginVars, Clean(r)
  PROVE  InstallInvariant'
<1>1. /\ stage[r] = "clean" /\ stage[r] \in Replacing /\ options' = options /\ faults' = faults
      /\ UNCHANGED <<targets, alone, dest, doomed, found>>
      /\ staging' = [staging EXCEPT ![r] = Nothing]
  BY DEF Clean, At, options, Replacing
<1>2. /\ RunTypeOK /\ SkillTypeOK /\ BesideOf(r)
      /\ stage[r] \in InWork /\ todo[r] # <<>> /\ Changes(r) /\ line[r].command = "apply"
  BY <1>1, WhileReplacing
<1>3. PICK c \in Clients : /\ c = Client(r) /\ dest[c] \in Entries
                           /\ alone[r][c] => SkillNow(r, c)
                           /\ NobodyRemoves => IsWhole(dest[c]) /\ IsWhole(backup[r])
  BY <1>1, WhileReplacing
<1>4. backup[r] \in Entries /\ Nothing \in Entries /\ staging'[r] = Nothing
  BY <1>1, <1>2 DEF SkillTypeOK, Entries
<1>5. CASE /\ staging[r] = Nothing /\ Goto(r, "tidy") /\ UNCHANGED <<todo, outcome, left, backup>>
  <2>1. stage'[r] = "tidy" /\ Placed(r)
    BY <1>1, <1>2, <1>5 DEF Goto, RunTypeOK, Placed
  <2>2. SkillTypeOK'
    BY <1>1, <1>2, <1>4, <1>5 DEF SkillTypeOK
  <2>3. OnlyAt(r, c)
    BY <1>1, <1>2, <1>3, <1>5, <2>2 DEF OnlyAt, SkillTypeOK, Goto, RunTypeOK
  <2>4. BesideOf(r)'
    BY <1>4, <2>1 DEF BesideOf
  <2>5. alone[r][c] => SkillNow(r, c)'
    BY <1>1, <1>3, <2>1 DEF SkillNow, Placed, Dir
  <2>6. "tidy" \in Replacing /\ "tidy" # "rmtree" /\ dest'[c] = dest[c] /\ backup'[r] = backup[r]
    BY <1>1, <1>5 DEF Replacing
  <2> QED BY <1>1, <1>2, <1>3, <1>5, <2>1, <2>3, <2>4, <2>5, <2>6, ReplacingKeeps
<1>6. CASE /\ staging[r] # Nothing /\ NextClient(r, "failed")
           /\ left' = left \cup {l \in Leftovers(r) : l.is = "backup" /\ Exists(l.entry)}
           /\ backup' = [backup EXCEPT ![r] = Nothing]
  <2>1. backup'[r] = Nothing /\ dest'[c] = dest[c]
    BY <1>1, <1>2, <1>6 DEF SkillTypeOK
  <2>2. alone[r][c] => backup[r] = Nothing /\ dest[c] = found[r][c]
    BY <1>1, <1>3, <1>6 DEF SkillNow, Placed, Undone
  <2> DEFINE kept == [is |-> "backup", client |-> c, entry |-> backup[r], alone |-> alone[r][c]]
  <2>3. left' = left \cup IF Exists(backup[r]) THEN {kept} ELSE {}
    BY <1>3, <1>6 DEF Leftovers
  <2>4. SkillTypeOK'
    BY <1>1, <1>2, <1>4, <1>6, <2>3 DEF SkillTypeOK
  <2>5. OnlyAt(r, c)
    BY <1>1, <1>2, <1>3, <1>6, <2>3, <2>4 DEF OnlyAt, SkillTypeOK, NextClient, Goto, RunTypeOK
  <2>6. \A l \in left' \ left : Explained(l)
    <3>1. Exists(backup[r]) => ~alone[r][c]
      BY <2>2 DEF Exists, Nothing
    <3> QED BY <1>3, <2>3, <3>1 DEF Explained
  <2>7. backup[r].is = "dir" => KeptSafe(c)'
    <3>1. backup[r].is = "dir" => \E l \in left' : l.client = c /\ l.is = "backup" /\ l.entry.is = "dir"
      <4>1. kept.client = c /\ kept.is = "backup" /\ kept.entry = backup[r]
        OBVIOUS
      <4>2. backup[r].is = "dir" => kept \in left'
        BY <2>3 DEF Exists
      <4> HIDE DEF kept
      <4> QED BY <4>1, <4>2
    <3> QED BY <3>1 DEF KeptSafe
  <2>8. "failed" \in Outcomes \ {"none"} /\ "failed" \notin {"applied", "installed", "removed", "absent"}
    BY DEF Outcomes
  <2> QED BY <1>1, <1>2, <1>4, <1>6, <2>1, <2>2, <2>5, <2>6, <2>7, <2>8, DeliveringSkillKeeps
<1> QED BY <1>1, <1>5, <1>6 DEF Clean

LEMMA TidyKeeps ==
  ASSUME InstallInvariant, NEW r \in Runs, asset = "skill", UNCHANGED pluginVars, Tidy(r)
  PROVE  InstallInvariant'
<1>1. /\ stage[r] = "tidy" /\ stage[r] \in Replacing /\ options' = options /\ faults' = faults
      /\ UNCHANGED <<targets, alone, dest, found>>
  BY DEF Tidy, At, options, Replacing
<1>2. /\ RunTypeOK /\ SkillTypeOK /\ BesideOf(r)
      /\ stage[r] \in InWork /\ todo[r] # <<>> /\ Changes(r) /\ line[r].command = "apply"
  BY <1>1, WhileReplacing
<1>3. PICK c \in Clients : /\ c = Client(r)
                           /\ alone[r][c] => SkillNow(r, c)
                           /\ NobodyRemoves => IsWhole(dest[c]) /\ IsWhole(backup[r])
  BY <1>1, WhileReplacing
<1>4. /\ backup[r] \in Entries /\ Nothing \in Entries /\ staging[r] = Nothing /\ Placed(r)
      /\ dest'[c] = dest[c]
  BY <1>1, <1>2 DEF SkillTypeOK, Entries, BesideOf, Placed
<1>5. CASE backup[r].is = "file" /\ Goto(r, "crashed") /\ LetGo(r) /\ UNCHANGED <<todo, outcome>>
  <2>1. /\ staging'[r] = Nothing /\ backup'[r] = Nothing
        /\ staging' = [staging EXCEPT ![r] = Nothing] /\ backup' = [backup EXCEPT ![r] = Nothing]
        /\ doomed' = [doomed EXCEPT ![r] = Nothing]
    BY <1>2, <1>5 DEF LetGo, SkillTypeOK
  <2> DEFINE kept == [is |-> "backup", client |-> c, entry |-> backup[r], alone |-> alone[r][c]]
  <2>2. left' = left \cup {kept}
    BY <1>3, <1>4, <1>5 DEF LetGo, Leftovers, Exists, Nothing
  <2>3. SkillTypeOK'
    BY <1>1, <1>2, <1>4, <2>1, <2>2 DEF SkillTypeOK
  <2>4. OnlyAt(r, c)
    BY <1>1, <1>2, <1>3, <1>5, <2>1, <2>2, <2>3 DEF OnlyAt, SkillTypeOK, Goto, RunTypeOK
  <2>5. \A l \in left' \ left : Explained(l)
    BY <1>3, <1>5, <2>2 DEF Explained
  <2> QED BY <1>1, <1>2, <1>4, <1>5, <2>1, <2>4, <2>5, BreakingOffKeeps
<1>6. CASE /\ NextClient(r, "applied")
           /\ backup' = [backup EXCEPT ![r] = Nothing] /\ UNCHANGED <<staging, doomed, left>>
  <2>1. staging'[r] = Nothing /\ backup'[r] = Nothing /\ left' \ left = {}
    BY <1>2, <1>4, <1>6 DEF SkillTypeOK
  <2>2. SkillTypeOK'
    BY <1>1, <1>2, <1>4, <1>6 DEF SkillTypeOK
  <2>3. OnlyAt(r, c)
    BY <1>1, <1>2, <1>3, <1>6, <2>2 DEF OnlyAt, SkillTypeOK, NextClient, Goto, RunTypeOK
  <2>4. alone[r][c] => dest'[c].is = "dir" /\ dest'[c] = Dir(r, TRUE)
    BY <1>3, <1>4 DEF SkillNow, Dir
  <2>5. "applied" \in Outcomes \ {"none"}
    BY DEF Outcomes
  <2> QED BY <1>1, <1>2, <1>4, <1>6, <2>1, <2>3, <2>4, <2>5, DeliveringSkillKeeps DEF Dir
<1> QED BY <1>5, <1>6 DEF Tidy

(* An exception or a kill leaves what there is.                            *)
LEMMA CrashKeeps ==
  ASSUME InstallInvariant, NEW r \in Runs, asset = "skill", UNCHANGED pluginVars, Crash(r)
  PROVE  InstallInvariant'
<1>1. /\ options' = options /\ Fault /\ Changes(r) /\ todo[r] # <<>> /\ Goto(r, "crashed") /\ LetGo(r)
      /\ UNCHANGED <<targets, todo, outcome, alone, dest, found>>
  BY DEF Crash, Stays, At, options
<1>2. RunTypeOK /\ SkillTypeOK
  BY DEF InstallInvariant
<1>3. PICK c \in Clients : c = Client(r) /\ (NobodyRemoves => IsWhole(backup[r]))
  BY <1>1, ClientAtHand
<1>4. /\ backup[r] \in Entries /\ staging[r] \in Entries
      /\ staging' = [staging EXCEPT ![r] = Nothing] /\ backup' = [backup EXCEPT ![r] = Nothing]
      /\ doomed' = [doomed EXCEPT ![r] = Nothing]
      /\ staging'[r] = Nothing /\ backup'[r] = Nothing /\ dest'[c] = dest[c]
  BY <1>1, <1>2 DEF SkillTypeOK, LetGo
<1>5. Nothing \in Entries
  BY DEF Entries
<1> DEFINE copied == [is |-> "staging", client |-> c, entry |-> staging[r], alone |-> alone[r][c]]
           kept == [is |-> "backup", client |-> c, entry |-> backup[r], alone |-> alone[r][c]]
<1>6. /\ left' \subseteq left \cup {copied, kept} /\ left \subseteq left'
      /\ backup[r].is = "dir" => kept \in left'
  BY <1>1, <1>3 DEF LetGo, Leftovers, Exists
<1>7. SkillTypeOK'
  BY <1>1, <1>2, <1>4, <1>5, <1>6 DEF SkillTypeOK
<1>8. OnlyAt(r, c)
  BY <1>1, <1>2, <1>3, <1>4, <1>6, <1>7 DEF OnlyAt, SkillTypeOK, Goto, RunTypeOK
<1>9. \A l \in left' \ left : Explained(l)
  <2>1. faults' < MaxFaults
    BY <1>1, <1>2, MaxFaultsAssumption DEF Fault, RunTypeOK
  <2> QED BY <1>3, <1>6, <2>1 DEF Explained
<1>10. backup[r].is = "dir" => \E l \in left' : l.client = c /\ l.is = "backup" /\ l.entry.is = "dir"
  <2>1. kept.client = c /\ kept.is = "backup" /\ kept.entry = backup[r]
    OBVIOUS
  <2> HIDE DEF kept
  <2> QED BY <1>6, <2>1
<1> QED BY <1>1, <1>4, <1>8, <1>9, <1>10, BreakingOffKeeps

(* The steps of remove_skill.                                              *)
LEMMA StartRemoveKeeps ==
  ASSUME InstallInvariant, NEW r \in Runs, asset = "skill", UNCHANGED pluginVars, StartRemove(r)
  PROVE  InstallInvariant'
<1>1. /\ stage[r] = "working" /\ stage[r] \in InWork /\ todo[r] # <<>> /\ options' = options /\ faults' = faults
      /\ UNCHANGED <<targets, todo, outcome, staging, backup, left, found>>
      /\ line[r].command = "remove" /\ Changes(r) /\ Here(r).is = "dir" /\ Goto(r, "rmtree")
      /\ doomed' = [doomed EXCEPT ![r] = Here(r)] /\ SetHere(r, [Here(r) EXCEPT !.whole = FALSE])
  BY DEF StartRemove, Stays, At, options, InWork
<1>2. RunTypeOK /\ SkillTypeOK /\ BesideOf(r) /\ ~NobodyRemoves
  BY <1>1 DEF InstallInvariant, SkillInvariant, NobodyRemoves
<1>3. PICK c \in Clients : c = Client(r)
  BY <1>1, ClientAtHand
<1> DEFINE emptied == [dest[c] EXCEPT !.whole = FALSE]
<1>4. dest[c] \in Entries /\ emptied \in Entries
  <2>1. dest[c] \in Entries /\ dest[c].is = "dir"
    BY <1>1, <1>2, <1>3 DEF SkillTypeOK, Here
  <2>2. dest[c] \in [is : {"dir"}, of : Sources, whole : BOOLEAN]
    BY <2>1, EntryKinds DEF Dir
  <2>3. emptied \in [is : {"dir"}, of : Sources, whole : BOOLEAN]
    BY <2>2
  <2> HIDE DEF emptied
  <2>4. PICK s \in Sources, w \in BOOLEAN : emptied = Dir(s, w)
    BY <2>3 DEF Dir
  <2>5. emptied \in Entries
    BY <2>4, DirectoryEntry
  <2> QED BY <2>1, <2>5
<1> HIDE DEF emptied
<1>5. dest' = [dest EXCEPT ![c] = emptied] /\ Touch(r, c) /\ doomed' = [doomed EXCEPT ![r] = dest[c]]
  BY <1>1, <1>3 DEF SetHere, Here, emptied
<1>6. SkillTypeOK'
  BY <1>1, <1>2, <1>4, <1>5 DEF SkillTypeOK
<1>7. OnlyAt(r, c)
  BY <1>1, <1>2, <1>3, <1>5, <1>6 DEF OnlyAt, SkillTypeOK, Goto, RunTypeOK
<1>8. stage'[r] = "rmtree"
  BY <1>1, <1>2 DEF Goto, RunTypeOK
<1>9. BesideOf(r)'
  BY <1>1, <1>2, <1>8 DEF BesideOf
<1>10. SkillNow(r, c)'
  BY <1>8 DEF SkillNow, Placed
<1>11. "rmtree" \in Replacing \cup {"rmtree"}
  OBVIOUS
<1> QED BY <1>1, <1>2, <1>7, <1>9, <1>10, <1>11, ReplacingKeeps

LEMMA RmtreeKeeps ==
  ASSUME InstallInvariant, NEW r \in Runs, asset = "skill", UNCHANGED pluginVars, Rmtree(r)
  PROVE  InstallInvariant'
<1>1. /\ stage[r] = "rmtree" /\ stage[r] \in InWork /\ todo[r] # <<>> /\ options' = options
      /\ UNCHANGED <<targets, staging, backup, left, found>>
      /\ doomed' = [doomed EXCEPT ![r] = Nothing] /\ (Fault \/ faults' = faults)
  BY DEF Rmtree, At, options, InWork
<1>2. /\ RunTypeOK /\ SkillTypeOK /\ BesideOf(r) /\ line[r].command = "remove" /\ Changes(r)
      /\ ~NobodyRemoves
  BY <1>1 DEF InstallInvariant, SkillInvariant, NobodyRemoves, CourseOf
<1>3. PICK c \in Clients : c = Client(r)
  BY <1>1, ClientAtHand
<1>4. Nothing \in Entries /\ "removed" \in Outcomes \ {"none"} /\ "failed" \in Outcomes \ {"none"}
  BY DEF Entries, Outcomes
<1>5. PICK result \in {"removed", "failed"} :
        /\ NextClient(r, result)
        /\ \/ dest' = [dest EXCEPT ![c] = Nothing] /\ Touch(r, c)
           \/ result = "failed" /\ UNCHANGED <<dest, alone>>
  BY <1>3 DEF Rmtree, SetHere
<1>6. SkillTypeOK'
  BY <1>1, <1>2, <1>4, <1>5 DEF SkillTypeOK
<1>7. OnlyAt(r, c)
  BY <1>1, <1>2, <1>3, <1>5, <1>6 DEF OnlyAt, SkillTypeOK, NextClient, Goto, RunTypeOK
<1>8. staging'[r] = Nothing /\ backup'[r] = Nothing /\ left' \ left = {}
  BY <1>1, <1>2 DEF BesideOf
<1>9. result = "removed" => dest'[c].is # "dir"
  BY <1>2, <1>5 DEF SkillTypeOK, Nothing
<1>10. /\ result \in Outcomes \ {"none"} /\ result \notin {"applied", "installed", "absent"}
       /\ line[r].command # "apply"
  BY <1>2, <1>4, <1>5
<1> QED BY <1>1, <1>2, <1>5, <1>7, <1>8, <1>9, <1>10, DeliveringSkillKeeps

(* The invariant holds after each step at the skill.                       *)
LEMMA SkillStepKeeps ==
  ASSUME InstallInvariant, NEW r \in Runs, asset = "skill", UNCHANGED pluginVars, SkillStep(r)
  PROVE  InstallInvariant'
<1>1. CASE BeginSkill(r)
  BY <1>1, BeginSkillKeeps
<1>2. CASE Validate(r)
  <2>1. /\ stage[r] = "planning" /\ UNCHANGED <<pluginVars, skillVars, options, targets, todo, outcome, alone>>
        /\ \E s \in {"working", "refused"} : Goto(r, s) /\ (Fault \/ faults' = faults)
    BY <1>2 DEF Validate, options
  <2> QED BY <2>1, OutsideKeeps
<1>3. CASE SkillReport(r)
  BY <1>3, SkillReportKeeps
<1>4. CASE StartApply(r)
  BY <1>4, StartApplyKeeps
<1>5. CASE Copy(r)
  BY <1>5, CopyKeeps
<1>6. CASE Look(r)
  BY <1>6, LookKeeps
<1>7. CASE MoveAway(r)
  BY <1>7, MoveAwayKeeps
<1>8. CASE Place(r)
  BY <1>8, PlaceKeeps
<1>9. CASE Undo(r)
  BY <1>9, UndoKeeps
<1>10. CASE Restore(r)
  BY <1>10, RestoreKeeps
<1>11. CASE Clean(r)
  BY <1>11, CleanKeeps
<1>12. CASE Tidy(r)
  BY <1>12, TidyKeeps
<1>13. CASE StartRemove(r)
  BY <1>13, StartRemoveKeeps
<1>14. CASE Rmtree(r)
  BY <1>14, RmtreeKeeps
<1>15. CASE Crash(r)
  BY <1>15, CrashKeeps
<1> QED BY <1>1, <1>2, <1>3, <1>4, <1>5, <1>6, <1>7, <1>8, <1>9, <1>10, <1>11, <1>12,
           <1>13, <1>14, <1>15 DEF SkillStep

-----------------------------------------------------------------------------
(* The invariant of all runs.                                              *)

(* A run of the plugin ends, or is repeated.                               *)
LEMMA OutsidePluginKeeps ==
  ASSUME InstallInvariant, NEW r \in Runs, asset = "plugin",
         UNCHANGED <<pluginVars, skillVars, options, targets, todo, outcome, alone, faults>>,
         NEW s \in {"idle", "ok", "failed"}, Goto(r, s),
         \/ stage[r] = "working" /\ todo[r] = <<>> /\ s \in {"ok", "failed"}
         \/ stage[r] \in {"refused", "failed", "crashed"} /\ Changes(r) /\ s = "idle"
  PROVE  InstallInvariant'
<1>1. /\ RunTypeOK /\ CourseOf(r) /\ PluginTyped /\ options' = options
      /\ UNCHANGED <<targets, todo, outcome, alone, plan, sent, market, plugin, had>>
      /\ alone' \in [Runs -> [Clients -> BOOLEAN]] /\ faults' \in 0 .. MaxFaults
      /\ faults' \in {faults, faults - 1}
  BY DEF InstallInvariant, RunTypeOK, pluginVars
<1>2. RunTypeOK' /\ CourseOf(r)' /\ stage'[r] = s
  BY <1>1, MovingKeepsCourse DEF Moves, Stages, InWork, Replacing
<1>3. Elsewhere(r)
  BY <1>1 DEF Elsewhere, Goto, RunTypeOK, skillVars
<1>4. PluginTyped' /\ PluginStays' /\ MarketsOffer'
  BY <1>1, PluginStaysSame DEF PluginTyped
<1>5. PlansOf(r)'
  <2>1. SameCourse(r)
    BY <1>1, SameTargets
  <2>2. \A c \in Clients : (Before(r, c)' => Before(r, c)) /\ ~IsPlanned(r, c)'
    BY <1>2, <2>1 DEF Before, IsPlanned, SameCourse
  <2> QED BY <1>1, <2>1, <2>2 DEF InstallInvariant, PluginInvariant, PlansOf, PlanAt, SameCourse
<1> QED BY <1>1, <1>2, <1>3, <1>4, <1>5, PluginStepSuffices

(* It holds initially.                                                     *)
LEMMA InitKeeps ==
  ASSUME InstallInit
  PROVE  InstallInvariant
<1>1. /\ RunInit /\ PluginInit /\ SkillInit
      /\ asset = "skill" => \A c \in Clients : plugin[c] = "none"
      /\ asset = "plugin" => \A c \in Clients : dest[c] = Nothing
  BY DEF InstallInit
<1>2. /\ stage = [r \in Runs |-> "idle"] /\ \A r \in Runs : stage[r] = "idle"
      /\ \A r \in Runs : todo[r] = <<>> /\ targets[r] = <<>>
      /\ \A r \in Runs, c \in Clients : outcome[r][c] = "none" /\ alone[r][c]
  BY <1>1 DEF RunInit
<1>3. RunTypeOK
  <2>1. /\ stage \in [Runs -> Stages] /\ targets \in [Runs -> Seq(Clients)] /\ todo \in [Runs -> Seq(Clients)]
        /\ outcome \in [Runs -> [Clients -> Outcomes]] /\ alone \in [Runs -> [Clients -> BOOLEAN]]
        /\ Options
    BY <1>1 DEF RunInit, Stages, Outcomes
  <2>2. faults \in 0 .. MaxFaults
    BY <1>1, MaxFaultsAssumption DEF RunInit
  <2>3. ASSUME NEW r \in Runs
        PROVE  /\ TargetSet(r) = {}
               /\ \E n \in 0 .. Len(targets[r]) : todo[r] = SubSeq(targets[r], n + 1, Len(targets[r]))
    <3>1. targets[r] = <<>> /\ todo[r] = <<>>
      BY <1>2
    <3>2. TargetSet(r) = {}
      BY <3>1 DEF TargetSet
    <3>3. 0 \in 0 .. Len(targets[r]) /\ SubSeq(targets[r], 0 + 1, Len(targets[r])) = <<>>
      BY <3>1
    <3> QED BY <3>1, <3>2, <3>3
  <2> QED BY <2>1, <2>2, <2>3 DEF RunTypeOK
<1>4. PluginTyped
  BY <1>1 DEF PluginInit, PluginTyped, Unplanned, Plans
<1>5. SkillTypeOK
  <2>1. Nothing \in Entries /\ {Nothing, SomeFile, Symlink, Dir("old", TRUE)} \subseteq Entries
    <3>1. "old" \in Sources /\ TRUE \in BOOLEAN
      BY DEF Sources
    <3>2. PICK e : e = Dir("old", TRUE)
      OBVIOUS
    <3>3. e \in Entries
      BY <3>1, <3>2, DirectoryEntry, Zenon
    <3>4. {Nothing, SomeFile, Symlink} \subseteq Entries
      BY DEF Entries
    <3> HIDE DEF Nothing, SomeFile, Symlink
    <3> QED BY <3>2, <3>3, <3>4 DEF Dir
  <2> HIDE DEF Nothing, SomeFile, Symlink
  <2> DEFINE starts == {Nothing, SomeFile, Symlink, Dir("old", TRUE)}
  <2>2. dest \in [Clients -> starts]
    BY <1>1, Zenon DEF SkillInit
  <2> HIDE DEF starts
  <2> QED BY <1>1, <2>1, <2>2 DEF SkillTypeOK, SkillInit, starts
<1>6. ASSUME NEW r \in Runs PROVE CourseOf(r)
  <2>1. Apart(targets[r]) /\ TargetSet(r) = {}
    <3>1. targets[r] = <<>>
      BY <1>2
    <3> QED BY <3>1 DEF Apart, TargetSet
  <2> QED BY <1>2, <2>1 DEF CourseOf, InWork, Replacing
<1>7. PluginInvariant
  <2>1. MarketsOffer
    BY <1>1 DEF PluginInit, MarketsOffer
  <2>2. \A r \in Runs : had[r] = plugin
    BY <1>1 DEF PluginInit
  <2>3. PluginStays
    BY <2>2 DEF PluginStays
  <2>4. \A r \in Runs, c \in Clients : plan[r][c] = <<>> /\ ~IsPlanned(r, c)
    BY <1>1, <1>2 DEF PluginInit, Unplanned, IsPlanned
  <2>5. \A r \in Runs : PlansOf(r)
    BY <1>2, <2>2, <2>4 DEF PlansOf, PlanAt
  <2> QED BY <2>1, <2>3, <2>5 DEF PluginInvariant
<1>8. SkillInvariant
  <2>1. /\ \A r \in Runs : staging[r] = Nothing /\ backup[r] = Nothing /\ found[r] = dest
        /\ left = {}
    BY <1>1 DEF SkillInit
  <2>2. \A r \in Runs : BesideOf(r)
    BY <1>2, <2>1 DEF BesideOf
  <2>3. \A r \in Runs : SkillOf(r)
    BY <1>2, <2>1 DEF SkillOf, SkillAt, InWork, Replacing
  <2>4. SkillStays
    <3>1. \A c \in Clients : IsWhole(dest[c])
      <4>1. \A e \in {Nothing, SomeFile, Symlink, Dir("old", TRUE)} : IsWhole(e)
        BY DEF Nothing, SomeFile, Symlink, Dir, IsWhole
      <4> QED BY <1>1, <4>1 DEF SkillInit
    <3> QED BY <2>1, <3>1 DEF SkillStays, KeptSafe, IsWhole, Nothing
  <2> QED BY <1>1, <2>2, <2>3, <2>4 DEF SkillInvariant
<1>9. ResidueIsExplained
  BY <1>1 DEF SkillInit, ResidueIsExplained
<1> QED BY <1>3, <1>4, <1>5, <1>6, <1>7, <1>8, <1>9 DEF InstallInvariant

(* Every step keeps it.                                                    *)
LEMMA InstallStepKeeps ==
  ASSUME InstallInvariant, InstallNext \/ UNCHANGED installVars
  PROVE  InstallInvariant'
<1>1. CASE UNCHANGED installVars
  <2>1. /\ UNCHANGED <<asset, line, available, targets, stage, todo, outcome, alone, faults>>
        /\ UNCHANGED <<plan, sent, market, plugin, had, dest, staging, backup, doomed, left, found>>
    BY <1>1 DEF installVars, runVars, options, pluginVars, skillVars
  <2>2. \A r \in Runs : /\ TargetSet(r)' = TargetSet(r) /\ Requested(r)' = Requested(r)
                       /\ Changes(r)' = Changes(r) /\ Remaining(r)' = Remaining(r)
                       /\ Client(r)' = Client(r) /\ Placed(r)' = Placed(r)
    BY <2>1 DEF TargetSet, Requested, Changes, Remaining, Client, Placed
  <2>3. RunTypeOK' /\ PluginTyped' /\ SkillTypeOK' /\ ResidueIsExplained'
    BY <2>1, <2>2 DEF InstallInvariant, RunTypeOK, Options, PluginTyped, SkillTypeOK, ResidueIsExplained
  <2>4. \A r \in Runs : CourseOf(r)' /\ BesideOf(r)'
    <3>1. \A r \in Runs : CourseOf(r)'
      BY <2>1, <2>2 DEF InstallInvariant, CourseOf, Selectable
    <3>2. \A r \in Runs : BesideOf(r)'
      BY <2>1 DEF InstallInvariant, SkillInvariant, BesideOf, Copies, Dir
    <3> QED BY <3>1, <3>2
  <2>5. PluginInvariant'
    BY <2>1, <2>2 DEF InstallInvariant, PluginInvariant, MarketsOffer, PluginStays, NobodyRemoves,
         PlansOf, PlanAt, IsPlanned, Before
  <2>6. asset = "skill" => \A r \in Runs : SkillOf(r)'
    <3> SUFFICES ASSUME asset = "skill", NEW r \in Runs, SkillOf(r) PROVE SkillOf(r)'
      BY DEF InstallInvariant, SkillInvariant
    <3>1. \A c \in Clients : SkillNow(r, c)' = SkillNow(r, c) /\ Before(r, c)' = Before(r, c)
      BY <2>1, <2>2 DEF SkillNow, Undone, MovedAway, Exists, Dir, Before
    <3> QED BY <2>1, <2>2, <3>1 DEF SkillOf, SkillAt, Dir
  <2>7. asset = "skill" => SkillStays'
    <3>1. \A c \in Clients : KeptSafe(c)' = KeptSafe(c)
      BY <2>1, <2>2 DEF KeptSafe
    <3> QED BY <2>1, <3>1 DEF InstallInvariant, SkillInvariant, SkillStays, NobodyRemoves
  <2> QED BY <2>1, <2>3, <2>4, <2>5, <2>6, <2>7 DEF InstallInvariant, SkillInvariant
<1>2. asset \in {"plugin", "skill"}
  BY SetupsAssumption DEF InstallInvariant, RunTypeOK, Options
<1>3. ASSUME NEW r \in Runs, Manage(r) PROVE InstallInvariant'
  <2>1. CASE asset = "plugin" /\ PluginStep(r) /\ UNCHANGED skillVars
    BY <2>1, PluginStepKeeps
  <2>2. CASE asset = "skill" /\ SkillStep(r) /\ UNCHANGED pluginVars
    BY <2>2, SkillStepKeeps
  <2>3. CASE Finish(r) /\ UNCHANGED <<pluginVars, skillVars>>
    <3>1. /\ UNCHANGED <<pluginVars, skillVars, options, targets, todo, outcome, alone, faults>>
          /\ stage[r] = "working" /\ todo[r] = <<>>
          /\ \E s \in {"ok", "failed"} : Goto(r, s)
      BY <2>3 DEF Finish, options
    <3> QED BY <1>2, <3>1, OutsideKeeps, OutsidePluginKeeps
  <2> QED BY <1>3, <2>1, <2>2, <2>3 DEF Manage
<1>4. ASSUME NEW r \in Runs, Repeat(r) PROVE InstallInvariant'
  <2>1. /\ UNCHANGED <<pluginVars, skillVars, options, targets, todo, outcome, alone, faults>>
        /\ stage[r] \in {"refused", "failed", "crashed"} /\ Changes(r) /\ Goto(r, "idle")
    BY <1>4 DEF Repeat, Again, options
  <2> QED BY <1>2, <2>1, OutsideKeeps, OutsidePluginKeeps
<1> QED BY <1>1, <1>3, <1>4 DEF InstallNext

(* The inductive invariant of the installer, for any number of runs with   *)
(* any command lines, any setups and any number of failures: what a run    *)
(* knows at each stage of its clients and their outcomes, that its plans   *)
(* fit what the clients had, where the skill and its copies are while it   *)
(* is replaced, and what runs that are over have left.                     *)
THEOREM InstallInvariantHolds == InstallSpec => []InstallInvariant
<1>1. InstallInit => InstallInvariant
  BY InitKeeps
<1>2. InstallInvariant /\ [InstallNext]_installVars => InstallInvariant'
  BY InstallStepKeeps
<1> QED BY <1>1, <1>2, PTL DEF InstallSpec

-----------------------------------------------------------------------------
(* What follows from it.                                                   *)

(* The variables have their types; staging and backup directories belong   *)
(* to a run that is replacing a skill.                                     *)
LEMMA TypesHold == InstallInvariant => InstallTypeOK
<1> SUFFICES ASSUME InstallInvariant PROVE InstallTypeOK
  OBVIOUS
<1>1. RunTypeOK /\ PluginTyped /\ SkillTypeOK
  BY DEF InstallInvariant
<1>2. PluginTypeOK
  <2> DEFINE Verbs == {"register", "install", "update", "uninstall"}
  <2>1. Plans \subseteq Seq(Verbs)
    <3>1. <<>> \in Seq(Verbs) /\ <<"uninstall">> \in Seq(Verbs) /\ <<"install">> \in Seq(Verbs)
      OBVIOUS
    <3>2. <<"update">> \in Seq(Verbs) /\ <<"uninstall", "install">> \in Seq(Verbs)
      OBVIOUS
    <3>3. <<"register", "install">> \in Seq(Verbs) /\ <<"register", "update">> \in Seq(Verbs)
      OBVIOUS
    <3> HIDE DEF Verbs
    <3> QED BY <3>1, <3>2, <3>3 DEF Plans
  <2> HIDE DEF Verbs
  <2>2. plan \in [Runs -> [Clients -> Seq(Verbs)]]
    BY <1>1, <2>1 DEF PluginTyped
  <2> QED BY <1>1, <2>2 DEF PluginTyped, PluginTypeOK, Verbs
<1>3. ASSUME NEW r \in Runs
      PROVE  /\ Exists(staging[r]) => stage[r] \in {"look", "move", "place", "undo", "restore", "clean"}
             /\ Exists(backup[r]) => stage[r] \in {"place", "undo", "restore", "clean", "tidy"}
  <2>1. Exists(staging[r]) => staging[r] # Nothing
    BY DEF Exists, Nothing
  <2>2. Exists(backup[r]) => backup[r] # Nothing
    BY DEF Exists, Nothing
  <2>3. BesideOf(r)
    BY DEF InstallInvariant, SkillInvariant
  <2> QED BY <2>1, <2>2, <2>3 DEF BesideOf, Copies, Dir
<1> QED BY <1>1, <1>2, <1>3 DEF InstallTypeOK

(* What a run tells its user is true.                                      *)
LEMMA TellingTheTruth == InstallInvariant => OutcomeIsTrue
<1> SUFFICES ASSUME InstallInvariant, NEW r \in Runs, NEW c \in Clients
             PROVE  /\ stage[r] \in {"ok", "failed"} => (outcome[r][c] = "none" => c \notin Requested(r))
                    /\ alone[r][c] =>
                         /\ outcome[r][c] \in {"applied", "installed"} => Has(c)
                         /\ outcome[r][c] = "applied" /\ asset = "plugin" /\ c = "codex" => plugin[c] # "other"
                         /\ outcome[r][c] = "applied" /\ asset = "skill" => dest[c] = Dir(r, TRUE)
                         /\ outcome[r][c] \in {"removed", "absent"} => ~Has(c)
                         /\ outcome[r][c] = "failed" /\ asset = "skill" /\ line[r].command = "apply" => HadSame(r, c)
  BY Zenon DEF OutcomeIsTrue
<1>1. stage[r] \in {"ok", "failed"} => (outcome[r][c] = "none" => c \notin Requested(r))
  BY DEF InstallInvariant, CourseOf
<1>2. asset \in {"plugin", "skill"}
  BY SetupsAssumption DEF InstallInvariant, RunTypeOK, Options
<1>3. CASE asset = "plugin"
  <2>1. PlanAt(r, c) /\ MarketsOffer /\ plugin[c] \in Origins /\ market[c] \in Origins
    BY <1>3 DEF InstallInvariant, PluginInvariant, PlansOf, PluginTyped
  <2>2. alone[r][c] /\ outcome[r][c] = "applied" /\ c = "codex" => plugin[c] # "other"
    BY <2>1 DEF PlanAt, MarketsOffer, Origins
  <2> QED BY <1>1, <1>3, <2>1, <2>2 DEF PlanAt, Has, HadSame
<1>4. CASE asset = "skill"
  <2>1. alone[r][c] => SkillAt(r, c)
    BY <1>4 DEF InstallInvariant, SkillInvariant, SkillOf
  <2> QED BY <1>1, <1>4, <2>1 DEF SkillAt, Has, HadSame, Dir
<1> QED BY <1>2, <1>3, <1>4

(* A run that is refused, or only looks, has changed nothing.              *)
LEMMA RefusingIsSafe == InstallInvariant => RefusedChangesNothing
<1> SUFFICES ASSUME InstallInvariant, NEW r \in Runs, NEW c \in Clients, alone[r][c],
                    \/ stage[r] = "refused" \/ ~Changes(r)
                    \/ stage[r] \notin {"idle", "crashed"} /\ c \notin TargetSet(r)
             PROVE  HadSame(r, c)
  BY DEF RefusedChangesNothing
<1>1. Before(r, c)
  BY DEF Before
<1>2. asset \in {"plugin", "skill"}
  BY SetupsAssumption DEF InstallInvariant, RunTypeOK, Options
<1>3. CASE asset = "plugin"
  BY <1>1, <1>3 DEF InstallInvariant, PluginInvariant, PlansOf, PlanAt, HadSame
<1>4. CASE asset = "skill"
  BY <1>1, <1>4 DEF InstallInvariant, SkillInvariant, SkillOf, SkillAt, HadSame
<1> QED BY <1>2, <1>3, <1>4

(* What a run tells its user of a client is what the client has, as long   *)
(* as no other run has changed it: the plugin or the skill is there, the   *)
(* skill of this checkout and the plugin of Codex not of one its record    *)
(* gives another root for; it is gone; it is what it was.  A run that is   *)
(* refused has changed nothing.  The variables have their types.           *)
THEOREM OutcomesAreAlwaysTrue == InstallSpec => []OutcomesAreTrue
<1>1. InstallInvariant => OutcomesAreTrue
  BY TypesHold, TellingTheTruth, RefusingIsSafe DEF OutcomesAreTrue
<1> QED BY <1>1, InstallInvariantHolds, PTL

(* Where only applies run, what a client had is there, or a whole copy is  *)
(* kept beside it, and what is there is whole.                             *)
THEOREM NothingIsEverLost == InstallSpec => []NothingIsLost
<1>1. ASSUME InstallInvariant PROVE NothingIsLost
  <2>1. asset \in {"plugin", "skill"}
    BY <1>1, SetupsAssumption DEF InstallInvariant, RunTypeOK, Options
  <2>2. SkillIsWhole
    <3>1. CASE asset = "plugin"
      BY <1>1, <3>1 DEF InstallInvariant, SkillInvariant, SkillIsWhole, Nothing
    <3>2. CASE asset = "skill"
      BY <1>1, <3>2 DEF InstallInvariant, SkillInvariant, SkillStays, NobodyRemoves, SkillIsWhole, IsWhole
    <3> QED BY <2>1, <3>1, <3>2
  <2>3. ApplyLosesNothing
    <3> SUFFICES ASSUME NobodyRemoves, NEW r \in Runs, NEW c \in Clients
                 PROVE  /\ asset = "plugin" =>
                             (had[r][c] # "none" /\ plugin[c] = "none" => c = "grok" /\ \E q \in Runs : had[q][c] # "ours")
                        /\ asset = "skill" =>
                             (found[r][c].is = "dir" => \E e \in KeptSkills(c) : e.is = "dir" /\ e.whole)
      BY <2>1 DEF ApplyLosesNothing, NobodyRemoves
    <3>1. asset = "plugin" =>
            (had[r][c] # "none" /\ plugin[c] = "none" => c = "grok" /\ \E q \in Runs : had[q][c] # "ours")
      BY <1>1 DEF InstallInvariant, PluginInvariant, PluginStays, Clients
    <3>2. ASSUME asset = "skill", found[r][c].is = "dir"
          PROVE  \E e \in KeptSkills(c) : e.is = "dir" /\ e.whole
      <4>1. KeptSafe(c) /\ SkillStays
        BY <1>1, <3>2 DEF InstallInvariant, SkillInvariant, SkillStays
      <4>2. CASE dest[c].is = "dir"
        BY <4>1, <4>2 DEF SkillStays, IsWhole, KeptSkills
      <4>3. CASE \E q \in Runs : ~Placed(q) /\ todo[q] # <<>> /\ Client(q) = c /\ backup[q].is = "dir"
        BY <4>1, <4>3 DEF SkillStays, IsWhole, KeptSkills
      <4>4. CASE \E l \in left : l.client = c /\ l.is = "backup" /\ l.entry.is = "dir"
        BY <4>1, <4>4 DEF SkillStays, IsWhole, KeptSkills
      <4> QED BY <4>1, <4>2, <4>3, <4>4 DEF KeptSafe
    <3> QED BY <3>1, <3>2
  <2> QED BY <2>2, <2>3 DEF NothingIsLost
<1> QED BY <1>1, InstallInvariantHolds, PTL

(* A run that nothing disturbs leaves no staging or backup directory.      *)
THEOREM ResidueIsAlwaysExplained == InstallSpec => []ResidueIsExplained
<1>1. InstallInvariant => ResidueIsExplained
  BY DEF InstallInvariant
<1> QED BY <1>1, InstallInvariantHolds, PTL
=============================================================================
