---------------------------- MODULE BackupBatch ----------------------------
(***************************************************************************)
(* run_backups of scripts/backup_db.py: runs of the batch backup dump the  *)
(* enabled targets of one configuration in order into a batch directory,   *)
(* which a fresh run makes for itself and a resumed run takes over with    *)
(* the backups that lie there, and write a manifest at the end.            *)
(*                                                                         *)
(* Directories are those of one second: others never meet.  `dbtalk dump`  *)
(* publishes a whole file at once (DumpPublish); it may fail before or     *)
(* after it has published.                                                 *)
(***************************************************************************)
EXTENDS Naturals, Sequences

CONSTANTS
  Run,         \* runs of the script
  Target,      \* databases
  Config,      \* the targets of the configuration, in order
  Enabled,     \* those that are enabled
  File,        \* file names
  Name,        \* the names a target may take: its own, and those with numbers
  Modes,       \* {"fresh"}, or {"fresh", "resume"}
  MaxNumber,   \* bound on the numbers that make names unique
  NoFile

Number == 0 .. MaxNumber

(* A name with a number may be another target's own: the first number of   *)
(* app is app-01.                                                          *)
Names(t) == {Name[t][n] : n \in Number}

Result == [target : Target, status : {"Succeeded", "Reused"}, file : File]
            \cup [target : Target, status : {"Failed"}, file : {NoFile}]

ASSUME ConfigAssumption ==
  Config \in Seq(Target) /\ Enabled \subseteq {Config[i] : i \in DOMAIN Config}
ASSUME ModesAssumption == Modes \subseteq {"fresh", "resume"}
ASSUME NumberAssumption == MaxNumber \in Nat
ASSUME NameAssumption == Name \in [Target -> [Number -> File]]
ASSUME NoFileAssumption == NoFile \notin Target /\ NoFile \notin File

VARIABLES
  phase,           \* where each run is
  resume,          \* --resume
  continueOnError, \* --continue-on-error
  dir,             \* its batch directory
  position,        \* the next target of the configuration
  destination,     \* where the dump goes that is being made
  results,         \* what became of the targets so far
  number,          \* the number of its manifest
  dirs,            \* the directories that exist
  files,           \* the target whose dump lies under each name
  manifests        \* what lies under each manifest name

vars == <<phase, resume, continueOnError, dir, position, destination, results, number, dirs,
          files, manifests>>
settings == <<resume, continueOnError, dir>>
disk == <<dirs, files, manifests>>

(* A manifest is empty when it has just been opened, and torn when its     *)
(* writer failed or another run wrote into it.                             *)
Torn == <<"torn">>

Active == {"starting", "planning", "dumping", "opening", "writing"}

Init ==
  /\ phase = [r \in Run |-> "idle"]
  /\ resume = [r \in Run |-> FALSE]
  /\ continueOnError = [r \in Run |-> FALSE]
  /\ dir = [r \in Run |-> 0]
  /\ position = [r \in Run |-> 1]
  /\ destination = [r \in Run |-> NoFile]
  /\ results = [r \in Run |-> <<>>]
  /\ number = [r \in Run |-> 0]
  /\ dirs = {}
  /\ files = [d \in Number |-> [f \in File |-> NoFile]]
  /\ manifests = [d \in Number |-> [n \in Number |-> NoFile]]

Enter(r, s) == phase' = [phase EXCEPT ![r] = s]

(* The loops `while candidate.exists()`: nothing is ever removed, so the   *)
(* name they end with is the first that is free when they look at it.      *)
FirstFree(n, taken) == n \notin taken /\ \A i \in Number : i < n => i \in taken

(* run_backups up to mkdir.                                                *)
Start(r, mode) ==
  /\ phase[r] = "idle"
  /\ \E d \in Number :
       /\ IF mode = "resume" THEN d \in dirs ELSE FirstFree(d, dirs)
       /\ dir' = [dir EXCEPT ![r] = d]
  /\ resume' = [resume EXCEPT ![r] = (mode = "resume")]
  /\ \E c \in BOOLEAN : continueOnError' = [continueOnError EXCEPT ![r] = c]
  /\ Enter(r, "starting")
  /\ UNCHANGED <<position, destination, results, number, dirs, files, manifests>>

(* mkdir with exist_ok.                                                    *)
MakeDirectory(r) ==
  /\ phase[r] = "starting" /\ Enter(r, "planning")
  /\ dirs' = dirs \cup {dir[r]}
  /\ UNCHANGED <<settings, position, destination, results, number, files, manifests>>

-----------------------------------------------------------------------------
(* The loop over the targets.                                              *)

Current(r) == Config[position[r]]
Plain(t) == Name[t][0]
Present(r, f) == files[dir[r]][f] # NoFile

(* reusable_backup_path: a file under the plain name, whose ever it is.    *)
Reusable(r) == resume[r] /\ Present(r, Plain(Current(r)))

Planning(r) == phase[r] = "planning" /\ position[r] <= Len(Config)

Advance(r) == position' = [position EXCEPT ![r] = @ + 1] /\ Enter(r, "planning")

Record(r, status, f) ==
  results' = [results EXCEPT ![r] =
                Append(@, [target |-> Current(r), status |-> status, file |-> f])]

Skip(r) ==
  /\ Planning(r) /\ Current(r) \notin Enabled
  /\ Advance(r)
  /\ UNCHANGED <<settings, destination, results, number, disk>>

Reuse(r) ==
  /\ Planning(r) /\ Current(r) \in Enabled /\ Reusable(r)
  /\ Record(r, "Reused", Plain(Current(r)))
  /\ Advance(r)
  /\ UNCHANGED <<settings, destination, number, disk>>

(* Mutant: a fresh run takes the plain name whether it is free or not.     *)
PlanWithoutNumber(r) ==
  /\ Planning(r) /\ Current(r) \in Enabled /\ ~Reusable(r)
  /\ destination' = [destination EXCEPT ![r] = Plain(Current(r))]
  /\ Enter(r, "dumping")
  /\ UNCHANGED <<settings, position, results, number, disk>>

(* output_path of a fresh run; a resumed run takes the plain name.         *)
Plan(r) ==
  /\ Planning(r) /\ Current(r) \in Enabled /\ ~Reusable(r)
  /\ \E n \in Number :
       LET name == Name[Current(r)] IN
       /\ IF resume[r] THEN n = 0 ELSE FirstFree(n, {i \in Number : Present(r, name[i])})
       /\ destination' = [destination EXCEPT ![r] = name[n]]
  /\ Enter(r, "dumping")
  /\ UNCHANGED <<settings, position, results, number, disk>>

Publish(r) == files' = [files EXCEPT ![dir[r]][destination[r]] = Current(r)]

(* run_dump succeeds and its file is there.                                *)
Dumped(r) ==
  /\ phase[r] = "dumping"
  /\ Publish(r)
  /\ Record(r, "Succeeded", destination[r])
  /\ Advance(r)
  /\ UNCHANGED <<settings, destination, number, dirs, manifests>>

(* Mutant: a failure is passed over with `continue` alone.                 *)
DumpFailedUnrecorded(r) ==
  /\ phase[r] = "dumping"
  /\ Publish(r) \/ UNCHANGED files
  /\ IF continueOnError[r] THEN Advance(r) ELSE Enter(r, "failed") /\ UNCHANGED position
  /\ UNCHANGED <<settings, destination, results, number, dirs, manifests>>

(* run_dump raises.                                                        *)
DumpFailed(r) ==
  /\ phase[r] = "dumping"
  /\ Publish(r) \/ UNCHANGED files
  /\ IF continueOnError[r]
       THEN Record(r, "Failed", NoFile) /\ Advance(r)
       ELSE Enter(r, "failed") /\ UNCHANGED <<results, position>>
  /\ UNCHANGED <<settings, destination, number, dirs, manifests>>

-----------------------------------------------------------------------------
(* The manifest.                                                           *)

(* manifest_path, or the name that is replaced.                            *)
NameManifest(r) ==
  /\ phase[r] = "planning" /\ position[r] > Len(Config) /\ Enter(r, "opening")
  /\ \E n \in Number :
       /\ IF resume[r] THEN n = 0
          ELSE FirstFree(n, {i \in Number : manifests[dir[r]][i] # NoFile})
       /\ number' = [number EXCEPT ![r] = n]
  /\ UNCHANGED <<settings, position, destination, results, disk>>

(* write_text: the file is emptied when it is opened.                      *)
OpenManifest(r) ==
  /\ phase[r] = "opening" /\ Enter(r, "writing")
  /\ manifests' = [manifests EXCEPT ![dir[r]][number[r]] = <<>>]
  /\ UNCHANGED <<settings, position, destination, results, number, dirs, files>>

(* Written over what another run wrote since, it is torn.                  *)
Filled(r) == IF manifests[dir[r]][number[r]] = <<>> THEN results[r] ELSE Torn

WriteManifest(r) ==
  /\ phase[r] = "writing"
  /\ manifests' = [manifests EXCEPT ![dir[r]][number[r]] = Filled(r)]
  /\ Enter(r, IF \E i \in DOMAIN results[r] : results[r][i].status = "Failed"
             THEN "incomplete" ELSE "complete")
  /\ UNCHANGED <<settings, position, destination, results, number, dirs, files>>

(* An OSError anywhere, which no run survives, and in the manifest may     *)
(* leave a part of it.                                                     *)
Fail(r) ==
  /\ phase[r] \in Active \ {"dumping"} /\ Enter(r, "failed")
  /\ \/ UNCHANGED manifests
     \/ phase[r] = "writing" /\ manifests' = [manifests EXCEPT ![dir[r]][number[r]] = Torn]
  /\ UNCHANGED <<settings, position, destination, results, number, dirs, files>>

(* The process is killed.  A dump it waited for is left to itself.         *)
Kill(r) ==
  /\ phase[r] \in Active
  /\ Enter(r, IF phase[r] = "dumping" THEN "orphaned" ELSE "killed")
  /\ UNCHANGED <<settings, position, destination, results, number, disk>>

Orphan(r) ==
  /\ phase[r] = "orphaned" /\ Enter(r, "killed")
  /\ Publish(r) \/ UNCHANGED files
  /\ UNCHANGED <<settings, position, destination, results, number, dirs, manifests>>

Step(r) ==
  \/ MakeDirectory(r) \/ Skip(r) \/ Reuse(r) \/ Plan(r) \/ Dumped(r) \/ DumpFailed(r)
  \/ NameManifest(r) \/ OpenManifest(r) \/ WriteManifest(r)

Next ==
  \E r \in Run :
    \/ \E mode \in Modes : Start(r, mode)
    \/ Step(r) \/ Fail(r) \/ Kill(r) \/ Orphan(r)

Spec == Init /\ [][Next]_vars

-----------------------------------------------------------------------------
(* Properties.                                                             *)

(* Types; a failure has no file.                                           *)
TypeOK ==
  /\ phase \in [Run -> Active \cup {"idle", "orphaned", "complete", "incomplete", "failed", "killed"}]
  /\ resume \in [Run -> BOOLEAN] /\ continueOnError \in [Run -> BOOLEAN]
  /\ dir \in [Run -> Number] /\ number \in [Run -> Number] /\ dirs \subseteq Number
  /\ position \in [Run -> 1 .. Len(Config) + 1]
  /\ destination \in [Run -> File \cup {NoFile}]
  /\ results \in [Run -> Seq(Result)]
  /\ files \in [Number -> [File -> Target \cup {NoFile}]]
  /\ manifests \in [Number -> [Number -> {NoFile, Torn} \cup Seq(Result)]]

(* A list of results has the enabled ones among the first n targets of the *)
(* configuration, each once and in their order.                            *)
Lists(m, n) ==
  \E at \in [DOMAIN m -> 1 .. n] :
    /\ \A i, j \in DOMAIN m : i < j => at[i] < at[j]
    /\ \A p \in 1 .. n : Config[p] \in Enabled <=> \E i \in DOMAIN m : at[i] = p
    /\ \A i \in DOMAIN m : m[i].target = Config[at[i]]

(* What is told of the backup of a target: under one of its names lies the *)
(* dump of a target that may take that name, so its own where no other     *)
(* may; and its own in a directory that only one run used.                 *)
UsedOnce(d) == \A r, q \in Run : dir[r] = d /\ dir[q] = d /\ "idle" \notin {phase[r], phase[q]} => r = q
Backup(d, t, f) ==
  /\ f \in File \cap Names(t)
  /\ files[d][f] # NoFile /\ f \in Names(files[d][f])
  /\ UsedOnce(d) => files[d][f] = t

(* A manifest that was written lists the enabled targets, each once and in *)
(* the order of the configuration, and names a backup of each that has not *)
(* failed, however many runs failed, were killed or worked in the          *)
(* directory.                                                              *)
Written(m) == m \notin {NoFile, Torn, <<>>}
ManifestsAreTrue ==
  \A d, n \in Number : LET m == manifests[d][n] IN
    Written(m) =>
      /\ Lists(m, Len(Config))
      /\ \A i \in DOMAIN m : m[i].status # "Failed" => Backup(d, m[i].target, m[i].file)

(* When a run reports success there is a backup of every enabled target in *)
(* its directory.                                                          *)
SuccessMeansBackedUp ==
  \A r \in Run : phase[r] = "complete" =>
    \A t \in Enabled : \E f \in Names(t) : Backup(dir[r], t, f)

(* In a directory that only one run uses, no target takes the file of an   *)
(* earlier one, also when their names collide.                             *)
NothingIsReplaced ==
  [][\A d \in Number : UsedOnce(d)' =>
       \A f \in File : files[d][f] # NoFile => files'[d][f] = files[d][f]]_vars

(* What a run knows: its results are those of the targets behind it, and   *)
(* where they say so there are dumps; its next dump goes to a name of its  *)
(* target, which is free unless the directory is shared; a resumed run     *)
(* shares its directory.  And of the disk: every manifest that was written *)
(* lists the whole configuration, every dump lies under a name of its      *)
(* target, and every directory was made by a run.                          *)
Holds(d, result) == result.status # "Failed" => Backup(d, result.target, result.file)

RunKnows(r) ==
  /\ phase[r] = "idle" => position[r] = 1 /\ results[r] = <<>>
  /\ Lists(results[r], position[r] - 1)
  /\ \A i \in DOMAIN results[r] : Holds(dir[r], results[r][i])
  /\ phase[r] \in {"dumping", "orphaned"} =>
       /\ position[r] <= Len(Config) /\ Current(r) \in Enabled
       /\ destination[r] \in File \cap Names(Current(r))
       /\ UsedOnce(dir[r]) => files[dir[r]][destination[r]] = NoFile
  /\ phase[r] \in {"opening", "writing", "complete", "incomplete"} => position[r] = Len(Config) + 1
  /\ phase[r] = "complete" => \A i \in DOMAIN results[r] : results[r][i].status # "Failed"
  /\ phase[r] # "idle" /\ resume[r] => ~UsedOnce(dir[r])

DiskKnows ==
  /\ \A d, n \in Number : Written(manifests[d][n]) =>
       /\ Lists(manifests[d][n], Len(Config))
       /\ \A i \in DOMAIN manifests[d][n] : Holds(d, manifests[d][n][i])
  /\ \A d \in Number, f \in File : files[d][f] # NoFile => f \in Names(files[d][f])
  /\ \A d \in dirs : \E r \in Run : dir[r] = d /\ phase[r] # "idle"

BatchInvariant == TypeOK /\ DiskKnows /\ \A r \in Run : RunKnows(r)

(* What a batch tells its user is true: the manifests and the exit status,  *)
(* in states that are well formed.                                         *)
ReportsAreTrue == TypeOK /\ ManifestsAreTrue /\ SuccessMeansBackedUp
=============================================================================
