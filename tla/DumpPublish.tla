---------------------------- MODULE DumpPublish ----------------------------
(***************************************************************************)
(* dump_database of dbtalk/mysql/dump.py: runs of `mysql dump` choose an   *)
(* output name, write temporary files of their own beside it, and publish  *)
(* the last of them.  An explicit output is replaced by rename.  A name    *)
(* chosen automatically is taken with a hard link, which fails when the    *)
(* name exists by then, and the next name is tried.                        *)
(*                                                                         *)
(* Names are those of one database and one second: runs at different times *)
(* do not meet.  A dump made in a container leaves a copy there until it   *)
(* is removed.  The native client is external: when it reports success,    *)
(* its file is whole.                                                      *)
(***************************************************************************)
EXTENDS Naturals, Sequences

CONSTANTS
  Run,            \* runs of the command
  ExplicitOutput, \* names a user may pass
  Archives,       \* values of --archive a user may pass
  Containers,     \* whether the client runs in a container
  MaxSequence,    \* bound on the numbers in a name
  NoFile

(* <database>-<timestamp>-n1-n2 with the suffix of an archive or without.  *)
(* _next_available_output adds the first number and publish_dump the       *)
(* second.                                                                 *)
Name == [archive : BOOLEAN,
         numbers : {<<>>} \cup {<<i>> : i \in 1 .. MaxSequence}
                     \cup {<<i, j>> : i, j \in 1 .. MaxSequence}]
Sequenced(n, i) == [n EXCEPT !.numbers = Append(@, i)]

(* Files: a run's SQL dump, the archive made of it, and the copy in a      *)
(* container.                                                              *)
Kind == {"sql", "gzip", "remote"}
File == [by : Run, kind : Kind]

ASSUME ExplicitAssumption == ExplicitOutput \subseteq Name
ASSUME OptionsAssumption == Archives \subseteq BOOLEAN /\ Containers \subseteq BOOLEAN
ASSUME MaxSequenceAssumption == MaxSequence \in Nat
ASSUME NoFileAssumption == NoFile \notin File

VARIABLES
  stage,     \* where each run is
  automatic, \* automatic_output
  archive,   \* --archive
  output,    \* the name the run set out with
  candidate, \* the name it tries next, and publishes under
  sequence,  \* the number for the name after that
  held,      \* its temporary files that still have their names
  stuck,     \* those whose unlink was refused
  whole,     \* kinds of its files that are completely written
  names      \* the file under each name

vars == <<stage, automatic, archive, output, candidate, sequence, held, stuck, whole, names>>

Base(a) == [archive |-> a, numbers |-> <<>>]
Source(r) == IF archive[r] THEN "gzip" ELSE "sql"

Init ==
  /\ stage = [r \in Run |-> "idle"]
  /\ automatic = [r \in Run |-> FALSE]
  /\ archive = [r \in Run |-> FALSE]
  /\ output = [r \in Run |-> Base(FALSE)]
  /\ candidate = [r \in Run |-> Base(FALSE)]
  /\ sequence = [r \in Run |-> 1]
  /\ held = [r \in Run |-> {}]
  /\ stuck = [r \in Run |-> {}]
  /\ whole = [r \in Run |-> {}]
  /\ names = [n \in Name |-> NoFile]

Goto(r, s) == stage' = [stage EXCEPT ![r] = s]

(* resolve_dump_options and default_dump_output.                           *)
StartAutomatic(r, a) ==
  /\ stage[r] = "idle" /\ Goto(r, "naming")
  /\ automatic' = [automatic EXCEPT ![r] = TRUE]
  /\ archive' = [archive EXCEPT ![r] = a]
  /\ candidate' = [candidate EXCEPT ![r] = Base(a)]
  /\ UNCHANGED <<output, sequence, held, stuck, whole, names>>

StartExplicit(r, n) ==
  /\ stage[r] = "idle" /\ Goto(r, "ready")
  /\ archive' = [archive EXCEPT ![r] = n.archive]
  /\ output' = [output EXCEPT ![r] = n]
  /\ candidate' = [candidate EXCEPT ![r] = n]
  /\ UNCHANGED <<automatic, sequence, held, stuck, whole, names>>

(* One turn of the loop of _next_available_output.                         *)
NameTaken(r) ==
  /\ stage[r] = "naming" /\ names[candidate[r]] # NoFile
  /\ sequence[r] <= MaxSequence
  /\ candidate' = [candidate EXCEPT ![r] = Sequenced(Base(archive[r]), sequence[r])]
  /\ sequence' = [sequence EXCEPT ![r] = @ + 1]
  /\ UNCHANGED <<stage, automatic, archive, output, held, stuck, whole, names>>

NameFree(r) ==
  /\ stage[r] = "naming" /\ names[candidate[r]] = NoFile
  /\ Goto(r, "ready")
  /\ output' = [output EXCEPT ![r] = candidate[r]]
  /\ sequence' = [sequence EXCEPT ![r] = 1]
  /\ UNCHANGED <<automatic, archive, candidate, held, stuck, whole, names>>

(* temporary_path and the client, which may write in a container.          *)
Dump(r, inContainer) ==
  /\ stage[r] = "ready" /\ Goto(r, "dumping")
  /\ held' = [held EXCEPT ![r] = {"sql"} \cup (IF inContainer THEN {"remote"} ELSE {})]
  /\ UNCHANGED <<automatic, archive, output, candidate, sequence, stuck, whole, names>>

(* The finally clauses: each file in gone is removed or its removal fails. *)
Remove(r, gone) ==
  \E kept \in SUBSET (held[r] \cap gone) :
    /\ held' = [held EXCEPT ![r] = (@ \ gone) \cup kept]
    /\ stuck' = [stuck EXCEPT ![r] = @ \cup kept]

(* Mutant: the SQL dump is published while the client writes it.           *)
DumpedTooEarly(r) ==
  /\ stage[r] = "dumping"
  /\ Remove(r, {"remote"})
  /\ Goto(r, IF archive[r] THEN "archiving" ELSE "publishing")
  /\ UNCHANGED <<automatic, archive, output, candidate, sequence, whole, names>>

(* The client succeeded, the dump is not empty, the copy is fetched.       *)
Dumped(r) ==
  /\ stage[r] = "dumping"
  /\ Remove(r, {"remote"})
  /\ whole' = [whole EXCEPT ![r] = {"sql"}]
  /\ Goto(r, IF archive[r] THEN "archiving" ELSE "publishing")
  /\ UNCHANGED <<automatic, archive, output, candidate, sequence, names>>

(* temporary_path for the archive; write_gzip into it.                     *)
OpenArchive(r) ==
  /\ stage[r] = "archiving" /\ Goto(r, "compressing")
  /\ held' = [held EXCEPT ![r] = @ \cup {"gzip"}]
  /\ UNCHANGED <<automatic, archive, output, candidate, sequence, stuck, whole, names>>

Compressed(r) ==
  /\ stage[r] = "compressing" /\ Goto(r, "publishing")
  /\ whole' = [whole EXCEPT ![r] = @ \cup {"gzip"}]
  /\ UNCHANGED <<automatic, archive, output, candidate, sequence, held, stuck, names>>

(* publish_dump: source.replace(output).                                   *)
Replace(r) ==
  /\ stage[r] = "publishing" /\ ~automatic[r]
  /\ names' = [names EXCEPT ![output[r]] = [by |-> r, kind |-> Source(r)]]
  /\ held' = [held EXCEPT ![r] = @ \ {Source(r)}]
  /\ Goto(r, "published")
  /\ UNCHANGED <<automatic, archive, output, candidate, sequence, stuck, whole>>

(* publish_dump: os.link(source, candidate).                               *)
Link(r) ==
  /\ stage[r] = "publishing" /\ automatic[r]
  /\ names[candidate[r]] = NoFile
  /\ names' = [names EXCEPT ![candidate[r]] = [by |-> r, kind |-> Source(r)]]
  /\ Goto(r, "linked")
  /\ UNCHANGED <<automatic, archive, output, candidate, sequence, held, stuck, whole>>

(* Mutant: the existing file is taken for this run's own.                  *)
LinkRefusedIsSuccess(r) ==
  /\ stage[r] = "publishing" /\ automatic[r]
  /\ names[candidate[r]] # NoFile
  /\ Goto(r, "linked")
  /\ UNCHANGED <<automatic, archive, output, candidate, sequence, held, stuck, whole, names>>

(* FileExistsError: the next name behind the one the run set out with.     *)
LinkRefused(r) ==
  /\ stage[r] = "publishing" /\ automatic[r]
  /\ names[candidate[r]] # NoFile
  /\ sequence[r] <= MaxSequence
  /\ candidate' = [candidate EXCEPT ![r] = Sequenced(output[r], sequence[r])]
  /\ sequence' = [sequence EXCEPT ![r] = @ + 1]
  /\ UNCHANGED <<stage, automatic, archive, output, held, stuck, whole, names>>

(* source.unlink() after the link.                                         *)
Unlink(r) ==
  /\ stage[r] = "linked" /\ Goto(r, "published")
  /\ held' = [held EXCEPT ![r] = @ \ {Source(r)}]
  /\ UNCHANGED <<automatic, archive, output, candidate, sequence, stuck, whole, names>>

(* Success, and a failure of any step, after the publication too; both     *)
(* end in the finally clauses.                                             *)
Succeed(r) ==
  /\ stage[r] = "published" /\ Goto(r, "done")
  /\ Remove(r, Kind)
  /\ UNCHANGED <<automatic, archive, output, candidate, sequence, whole, names>>

(* Mutant: the archive's temporary file is forgotten.                      *)
FailKeepingArchive(r) ==
  /\ stage[r] \in {"naming", "ready", "dumping", "archiving", "compressing",
                   "publishing", "linked", "published"}
  /\ Goto(r, "failed")
  /\ Remove(r, Kind \ {"gzip"})
  /\ UNCHANGED <<automatic, archive, output, candidate, sequence, whole, names>>

Fail(r) ==
  /\ stage[r] \in {"naming", "ready", "dumping", "archiving", "compressing",
                   "publishing", "linked", "published"}
  /\ Goto(r, "failed")
  /\ Remove(r, Kind)
  /\ UNCHANGED <<automatic, archive, output, candidate, sequence, whole, names>>

(* The process is killed; nothing is cleaned.                              *)
Kill(r) ==
  /\ stage[r] \notin {"idle", "done", "failed", "killed"}
  /\ Goto(r, "killed")
  /\ UNCHANGED <<automatic, archive, output, candidate, sequence, held, stuck, whole, names>>

Step(r) ==
  \/ NameTaken(r) \/ NameFree(r)
  \/ \E inContainer \in Containers : Dump(r, inContainer)
  \/ Dumped(r) \/ OpenArchive(r) \/ Compressed(r)
  \/ Replace(r) \/ Link(r) \/ LinkRefused(r) \/ Unlink(r)
  \/ Succeed(r) \/ Fail(r)

Next ==
  \E r \in Run :
    \/ \E a \in Archives : StartAutomatic(r, a)
    \/ \E n \in ExplicitOutput : StartExplicit(r, n)
    \/ Step(r) \/ Kill(r)

Spec == Init /\ [][Next]_vars

-----------------------------------------------------------------------------
(* Properties.                                                             *)

(* Types of the variables.                                                 *)
TypeOK ==
  /\ stage \in [Run -> {"idle", "naming", "ready", "dumping", "archiving", "compressing",
                        "publishing", "linked", "published", "done", "failed", "killed"}]
  /\ automatic \in [Run -> BOOLEAN] /\ archive \in [Run -> BOOLEAN]
  /\ output \in [Run -> Name] /\ candidate \in [Run -> Name]
  /\ sequence \in [Run -> 1 .. MaxSequence + 1]
  /\ held \in [Run -> SUBSET Kind] /\ stuck \in [Run -> SUBSET Kind]
  /\ whole \in [Run -> SUBSET Kind]
  /\ names \in [Name -> File \cup {NoFile}]

(* A file that lies under a name goes only when a run replaces it whose    *)
(* user passed that very name: an automatic name never overwrites, whoever *)
(* took it while the dump was made.                                        *)
OnlyExplicitOverwrites ==
  [][\A n \in Name : names[n] # NoFile /\ names'[n] # names[n] =>
       \E r \in Run : ~automatic[r] /\ output[r] = n /\ names'[n].by = r]_vars

(* Under every name lies nothing or a whole dump of the kind its suffix    *)
(* says, and it only ever changes at once to another.                      *)
IsWholeDump(f) ==
  /\ f \in [by : Run, kind : Kind, whole : BOOLEAN, archive : BOOLEAN]
  /\ f.whole /\ f.kind = IF f.archive THEN "gzip" ELSE "sql"
Visible(n) ==
  IF names[n] = NoFile THEN NoFile
  ELSE [by |-> names[n].by, kind |-> names[n].kind,
        whole |-> names[n].kind \in whole[names[n].by], archive |-> n.archive]
Artifacts == INSTANCE AtomicArtifacts
  WITH Name <- Name, IsWhole <- IsWholeDump, Nothing <- NoFile,
       visible <- [n \in Name |-> Visible(n)]
ImplementsAtomicArtifacts == Artifacts!Spec

(* The name a successful run reports leads to its own dump, unless a user  *)
(* had a later run replace just that name.                                 *)
SuccessNamesItsOwnDump ==
  \A r \in Run : stage[r] = "done" =>
    \/ names[candidate[r]] = [by |-> r, kind |-> Source(r)]
    \/ \E q \in Run : q # r /\ ~automatic[q] /\ output[q] = candidate[r]
                        /\ names[candidate[r]] = [by |-> q, kind |-> Source(q)]

(* A run that ends by itself leaves no temporary file and no copy in a     *)
(* container, except those whose removal was refused.                      *)
NoResidue == \A r \in Run : stage[r] \in {"done", "failed"} => held[r] \subseteq stuck[r]
=============================================================================
