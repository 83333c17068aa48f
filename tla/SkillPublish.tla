---------------------------- MODULE SkillPublish ----------------------------
(***************************************************************************)
(* manage_skill of scripts/install.py: a standalone skill is a directory   *)
(* in each client's home, replaced by way of a staging and a backup        *)
(* directory beside it, or removed.  The run may be killed anywhere, every *)
(* file operation may fail, and other runs may work at the same directory. *)
(*                                                                         *)
(* A directory has the run whose source it was copied from, and is whole   *)
(* or in part.                                                             *)
(***************************************************************************)
EXTENDS InstallRun

VARIABLES
  dest,     \* what each client has under the skill's name
  staging,  \* per run, its staging directory at the client at hand
  backup,   \* per run, its backup
  doomed,   \* per run, the directory that its removal has opened
  left,     \* staging and backup directories of runs that are over
  found     \* ghost: what each client had when the run began

skillVars == <<dest, staging, backup, doomed, left, found>>

Nothing == [is |-> "nothing", of |-> "nobody", whole |-> TRUE]
Dir(of, whole) == [is |-> "dir", of |-> of, whole |-> whole]
SomeFile == [is |-> "file", of |-> "nobody", whole |-> TRUE]
Symlink == [is |-> "symlink", of |-> "nobody", whole |-> TRUE]
Sources == {"old"} \cup Runs
Entries == {Nothing, SomeFile, Symlink} \cup {Dir(s, w) : s \in Sources, w \in BOOLEAN}

SkillInit ==
  /\ dest \in [Clients -> {Nothing, SomeFile, Symlink, Dir("old", TRUE)}]
  /\ staging = [r \in Runs |-> Nothing]
  /\ backup = [r \in Runs |-> Nothing]
  /\ doomed = [r \in Runs |-> Nothing]
  /\ left = {}
  /\ found = [r \in Runs |-> dest]

BeginSkill(r) ==
  /\ SelectTargets(r)
  /\ found' = [found EXCEPT ![r] = dest]
  /\ UNCHANGED <<dest, staging, backup, doomed, left>>

(* validate_skill_source, for check and apply.                             *)
Validate(r) ==
  /\ stage[r] = "planning"
  /\ \/ Goto(r, "working") /\ UNCHANGED faults
     \/ line[r].command \in {"check", "apply"} /\ Fault /\ Goto(r, "refused")
  /\ UNCHANGED <<options, targets, todo, outcome, alone, skillVars>>

Here(r) == dest[Client(r)]
Exists(entry) == entry.is # "nothing"
SetHere(r, entry) == dest' = [dest EXCEPT ![Client(r)] = entry] /\ Touch(r, Client(r))

(* check, list_skill, --dry-run and what remove_skill says before it       *)
(* removes anything.                                                       *)
SkillReport(r) ==
  /\ At(r, "working")
  /\ NextClient(r,
       CASE line[r].command = "check" -> "ready"
         [] line[r].command = "apply" -> "planned"
         [] OTHER -> CASE Here(r).is \in {"symlink", "file"} -> "failed"
                       [] Here(r).is = "nothing" -> "absent"
                       [] OTHER -> IF line[r].command = "list" THEN "installed" ELSE "planned")
  /\ \/ ~Changes(r)
     \/ line[r].command = "remove" /\ Here(r).is # "dir"
  /\ UNCHANGED <<options, targets, alone, faults, skillVars>>

-----------------------------------------------------------------------------
(* replace_skill_leaf, step by step.                                       *)
Stays == UNCHANGED <<options, targets, todo, outcome>>
Leftovers(r) ==
  {[is |-> k, client |-> Client(r), entry |-> IF k = "staging" THEN staging[r] ELSE backup[r],
    alone |-> alone[r][Client(r)]] : k \in {"staging", "backup"}}

(* The names of staging and backup are not used again: what the run does   *)
(* not take away stays.                                                    *)
LetGo(r) ==
  /\ left' = left \cup {l \in Leftovers(r) : Exists(l.entry)}
  /\ staging' = [staging EXCEPT ![r] = Nothing]
  /\ backup' = [backup EXCEPT ![r] = Nothing]
  /\ doomed' = [doomed EXCEPT ![r] = Nothing]

(* An exception that nobody catches, or a kill.                            *)
Crash(r) ==
  /\ ~Ended(r) /\ Changes(r) /\ At(r, stage[r])
  /\ Fault /\ Goto(r, "crashed") /\ LetGo(r)
  /\ Stays /\ UNCHANGED <<alone, dest, found>>

(* A symlink is refused; the directory of the skills is made if need be.   *)
StartApply(r) ==
  /\ At(r, "working") /\ line[r].command = "apply" /\ Changes(r)
  /\ IF Here(r) = Symlink THEN NextClient(r, "failed")
     ELSE Goto(r, "copy") /\ UNCHANGED <<todo, outcome>>
  /\ UNCHANGED <<options, targets, alone, faults, skillVars>>

(* copytree.                                                               *)
Copy(r) ==
  /\ At(r, "copy")
  /\ \/ Goto(r, "look") /\ staging' = [staging EXCEPT ![r] = Dir(r, TRUE)] /\ UNCHANGED faults
     \/ Goto(r, "undo") /\ staging' = [staging EXCEPT ![r] = Dir(r, FALSE)] /\ Fault
  /\ Stays /\ UNCHANGED <<alone, dest, backup, doomed, left, found>>

(* destination.exists().                                                   *)
Look(r) ==
  /\ At(r, "look")
  /\ Goto(r, IF Exists(Here(r)) THEN "move" ELSE "place")
  /\ Stays /\ UNCHANGED <<alone, faults, skillVars>>

(* Mutant: the previous directory is removed, not kept.                    *)
MoveAwayForGood(r) ==
  /\ At(r, "move") /\ Exists(Here(r)) /\ Goto(r, "place")
  /\ SetHere(r, Nothing)
  /\ Stays /\ UNCHANGED <<faults, staging, backup, doomed, left, found>>

(* destination.rename(backup).                                             *)
MoveAway(r) ==
  /\ At(r, "move")
  /\ \/ /\ Exists(Here(r)) /\ Goto(r, "place")
        /\ backup' = [backup EXCEPT ![r] = Here(r)] /\ SetHere(r, Nothing)
        /\ UNCHANGED faults
     \/ ~Exists(Here(r)) /\ Goto(r, "undo") /\ UNCHANGED <<dest, alone, backup, faults>>
     \/ Fault /\ Goto(r, "undo") /\ UNCHANGED <<dest, alone, backup>>
  /\ Stays /\ UNCHANGED <<staging, doomed, left, found>>

(* A directory cannot be renamed over one that has files in it.            *)
Place(r) ==
  /\ At(r, "place")
  /\ \/ /\ ~Exists(Here(r)) /\ Goto(r, "clean")
        /\ SetHere(r, staging[r]) /\ staging' = [staging EXCEPT ![r] = Nothing]
        /\ UNCHANGED faults
     \/ Exists(Here(r)) /\ Goto(r, "undo") /\ UNCHANGED <<dest, alone, staging, faults>>
     \/ Fault /\ Goto(r, "undo") /\ UNCHANGED <<dest, alone, staging>>
  /\ Stays /\ UNCHANGED <<backup, doomed, left, found>>

(* except OSError: the backup is put back where nothing has come instead.  *)
Undo(r) ==
  /\ At(r, "undo")
  /\ Goto(r, IF Exists(backup[r]) /\ ~Exists(Here(r)) THEN "restore" ELSE "clean")
  /\ Stays /\ UNCHANGED <<alone, faults, skillVars>>

(* It may have come after the look, and then the error is not caught.      *)
Restore(r) ==
  /\ At(r, "restore")
  /\ IF ~Exists(Here(r))
     THEN /\ SetHere(r, backup[r]) /\ backup' = [backup EXCEPT ![r] = Nothing]
          /\ Goto(r, "clean") /\ UNCHANGED <<staging, doomed, left>>
     ELSE /\ Goto(r, "crashed") /\ left' = left \cup {l \in Leftovers(r) : l.is = "backup"}
          /\ staging' = [staging EXCEPT ![r] = Nothing]
          /\ backup' = [backup EXCEPT ![r] = Nothing]
          /\ UNCHANGED <<dest, alone, doomed>>
  /\ Stays /\ UNCHANGED <<faults, found>>

(* Mutant: staging is removed only when the skill was published.           *)
CleanAfterSuccess(r) ==
  /\ At(r, "clean")
  /\ IF Here(r) = Dir(r, TRUE) THEN Goto(r, "tidy") /\ UNCHANGED <<todo, outcome>>
     ELSE NextClient(r, "failed")
  /\ LetGo(r)
  /\ UNCHANGED <<options, targets, alone, faults, dest, found>>

(* finally: staging goes; a publication that failed ends here, and what    *)
(* could not be put back stays.                                            *)
Clean(r) ==
  /\ At(r, "clean")
  /\ IF staging[r] = Nothing
     THEN Goto(r, "tidy") /\ UNCHANGED <<todo, outcome, left, backup>>
     ELSE /\ NextClient(r, "failed")
          /\ left' = left \cup {l \in Leftovers(r) : l.is = "backup" /\ Exists(l.entry)}
          /\ backup' = [backup EXCEPT ![r] = Nothing]
  /\ staging' = [staging EXCEPT ![r] = Nothing]
  /\ UNCHANGED <<options, targets, alone, faults, dest, doomed, found>>

(* rmtree(backup), which is for directories only.                          *)
Tidy(r) ==
  /\ At(r, "tidy")
  /\ IF backup[r].is = "file"
     THEN Goto(r, "crashed") /\ LetGo(r) /\ UNCHANGED <<todo, outcome>>
     ELSE /\ NextClient(r, "applied")
          /\ backup' = [backup EXCEPT ![r] = Nothing] /\ UNCHANGED <<staging, doomed, left>>
  /\ UNCHANGED <<options, targets, alone, faults, dest, found>>

-----------------------------------------------------------------------------
(* remove_skill: rmtree empties the directory it has opened, wherever it   *)
(* is moved, and then removes the name.                                    *)
StartRemove(r) ==
  /\ At(r, "working") /\ line[r].command = "remove" /\ Changes(r) /\ Here(r).is = "dir"
  /\ Goto(r, "rmtree")
  /\ doomed' = [doomed EXCEPT ![r] = Here(r)]
  /\ SetHere(r, [Here(r) EXCEPT !.whole = FALSE])
  /\ Stays /\ UNCHANGED <<faults, staging, backup, left, found>>

Rmtree(r) ==
  /\ At(r, "rmtree")
  /\ doomed' = [doomed EXCEPT ![r] = Nothing]
  /\ \/ /\ Here(r) = Dir(doomed[r].of, FALSE)
        /\ NextClient(r, "removed") /\ SetHere(r, Nothing) /\ UNCHANGED faults
     \/ /\ Here(r) # Dir(doomed[r].of, FALSE)
        /\ NextClient(r, "failed") /\ UNCHANGED <<dest, alone, faults>>
     \/ Fault /\ NextClient(r, "failed") /\ UNCHANGED <<dest, alone>>
  /\ UNCHANGED <<options, targets, staging, backup, left, found>>

SkillStep(r) ==
  \/ BeginSkill(r) \/ Validate(r) \/ SkillReport(r)
  \/ StartApply(r) \/ Copy(r) \/ Look(r) \/ MoveAway(r) \/ Place(r)
  \/ Undo(r) \/ Restore(r) \/ Clean(r) \/ Tidy(r)
  \/ StartRemove(r) \/ Rmtree(r) \/ Crash(r)

SkillTypeOK ==
  /\ dest \in [Clients -> Entries]
  /\ staging \in [Runs -> Entries] /\ backup \in [Runs -> Entries] /\ doomed \in [Runs -> Entries]
  /\ \A l \in left : l.client \in Clients /\ l.entry \in Entries
  /\ found \in [Runs -> [Clients -> Entries]]
=============================================================================
