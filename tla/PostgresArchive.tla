-------------------------- MODULE PostgresArchive --------------------------
(***************************************************************************)
(* dbtalk postgres dump and restore (dump.py, restore.py and client.py of  *)
(* dbtalk/postgres) over the same files: runs of dump publish archives by  *)
(* rename while runs of restore list them and read them again, with the    *)
(* client in the database's own container, on this machine or in an image. *)
(*                                                                         *)
(* Names are those of one second.  A user's own file may be replaced at    *)
(* any time, may be no archive at all, or may be cut off: pg_restore       *)
(* --list reads the table of contents only, which such a file still has.   *)
(***************************************************************************)
CONSTANTS
  Dumps, Restores, \* runs of either command
  Name,            \* output files
  UsersFile,       \* an input nobody dumps to
  User, NoFile

Runs == Dumps \cup Restores
Places == {"mapped", "local", "image"}
States == {"whole", "cut", "damaged"}
File == [by : Dumps \cup {User}, state : States]

ASSUME RunsAssumption == Dumps \cap Restores = {}
ASSUME FilesAssumption == UsersFile \notin Name /\ NoFile \notin File

VARIABLES
  stage,   \* where each run is
  place,   \* of its native client
  path,    \* its output or input
  failing, \* an exception is on its way
  temp,    \* the dump's temporary file beside the output
  held,    \* its other files: a copy in the container, the password file
  stuck,   \* those whose removal failed
  fed,     \* the file the restoring pg_restore read
  target,  \* how much of it is in the database
  listed,  \* the archive has been validated
  files    \* what lies under each name

vars == <<stage, place, path, failing, temp, held, stuck, fed, target, listed, files>>

Init ==
  /\ stage = [r \in Runs |-> "idle"]
  /\ place = [r \in Runs |-> "local"]
  /\ path = [r \in Runs |-> UsersFile]
  /\ failing = [r \in Runs |-> FALSE]
  /\ temp = [r \in Dumps |-> NoFile]
  /\ held = [r \in Runs |-> {}]
  /\ stuck = [r \in Runs |-> {}]
  /\ fed = [r \in Restores |-> NoFile]
  /\ target = [r \in Restores |-> "before"]
  /\ listed = [r \in Restores |-> FALSE]
  /\ \E s \in States :
       files = [n \in Name \cup {UsersFile} |->
                  IF n = UsersFile THEN [by |-> User, state |-> s] ELSE NoFile]

Goto(r, s) == stage' = [stage EXCEPT ![r] = s]
Hold(r, kinds) == held' = [held EXCEPT ![r] = @ \cup kinds]
Failing(r, b) == failing' = [failing EXCEPT ![r] = @ \/ b]
restored == <<fed, target, listed>>

Begin(r, p, where) ==
  /\ stage[r] = "idle"
  /\ path' = [path EXCEPT ![r] = p]
  /\ place' = [place EXCEPT ![r] = where]

(* Mutant: the client writes its archive under the final name.             *)
BeginDumpInPlace(r, p, where) ==
  /\ Begin(r, p, where)
  /\ temp' = [temp EXCEPT ![r] = [by |-> r, state |-> "cut"]]
  /\ files' = [files EXCEPT ![p] = [by |-> r, state |-> "cut"]]
  /\ Hold(r, IF where = "mapped" THEN {"remote"}
             ELSE IF where = "local" THEN {"pgpass"} ELSE {})
  /\ Goto(r, "client")
  /\ UNCHANGED <<failing, stuck, restored>>

(* dump_database up to the client: in a mapped container it writes there,  *)
(* elsewhere into the temporary file; the local one has a password file.   *)
BeginDump(r, p, where) ==
  /\ Begin(r, p, where)
  /\ temp' = [temp EXCEPT ![r] = IF where = "mapped" THEN NoFile ELSE [by |-> r, state |-> "cut"]]
  /\ Hold(r, IF where = "mapped" THEN {"remote"}
             ELSE IF where = "local" THEN {"pgpass"} ELSE {})
  /\ Goto(r, "client")
  /\ UNCHANGED <<failing, stuck, restored, files>>

(* The finally clauses: a file is removed, or that is refused.             *)
Drop(r, kind) ==
  \/ held' = [held EXCEPT ![r] = @ \ {kind}] /\ UNCHANGED stuck
  \/ kind \in held[r] /\ stuck' = [stuck EXCEPT ![r] = @ \cup {kind}] /\ UNCHANGED held

(* pg_dump ends well, having written its archive or, as the code allows    *)
(* for, nothing at all.                                                    *)
ClientEnds(r) ==
  /\ stage[r] = "client"
  /\ IF place[r] = "mapped"
     THEN Goto(r, "copy") /\ UNCHANGED <<temp, held, stuck>>
     ELSE /\ Goto(r, "publish")
          /\ temp' \in {[temp EXCEPT ![r] = f] : f \in {NoFile, [by |-> r, state |-> "whole"]}}
          /\ Drop(r, "pgpass")
  /\ UNCHANGED <<place, path, failing, restored, files>>

(* It fails, or its password file or image cannot be had.                  *)
ClientFails(r) ==
  /\ stage[r] = "client"
  /\ Failing(r, TRUE)
  /\ IF place[r] = "mapped" THEN Goto(r, "remove_remote") /\ UNCHANGED <<held, stuck>>
                            ELSE Goto(r, "clean") /\ Drop(r, "pgpass")
  /\ UNCHANGED <<place, path, temp, restored, files>>

(* docker cp out of the container.                                         *)
Copy(r) ==
  /\ stage[r] = "copy" /\ Goto(r, "remove_remote")
  /\ \/ /\ temp' = [temp EXCEPT ![r] = [by |-> r, state |-> "whole"]]
        /\ UNCHANGED failing
     \/ /\ temp' \in {temp, [temp EXCEPT ![r] = [by |-> r, state |-> "cut"]]}
        /\ Failing(r, TRUE)
  /\ UNCHANGED <<place, path, held, stuck, restored, files>>

AfterRemoval(r) ==
  IF r \in Dumps THEN "publish" ELSE IF listed[r] /\ target[r] = "before" THEN "read" ELSE "end"

(* docker exec rm -f.  Its result is not looked at, but when docker itself *)
(* cannot be started run_command raises a ClickException, which the        *)
(* suppress(OSError) around it lets through.                               *)
RemoveRemote(r) ==
  /\ stage[r] = "remove_remote"
  /\ \E raised \in BOOLEAN :
       /\ IF raised THEN /\ stuck' = [stuck EXCEPT ![r] = @ \cup {"remote"}]
                         /\ UNCHANGED held
          ELSE Drop(r, "remote")
       /\ Failing(r, raised)
       /\ Goto(r, IF ~failing[r] /\ ~raised THEN AfterRemoval(r)
                  ELSE IF r \in Dumps THEN "clean" ELSE "end")
  /\ UNCHANGED <<place, path, temp, restored, files>>

(* is_file and replace, each of which may fail.                            *)
Publish(r) ==
  /\ stage[r] = "publish" /\ Goto(r, "clean")
  /\ \/ /\ temp[r] # NoFile
        /\ files' = [files EXCEPT ![path[r]] = temp[r]]
        /\ temp' = [temp EXCEPT ![r] = NoFile]
        /\ UNCHANGED failing
     \/ Failing(r, TRUE) /\ UNCHANGED <<files, temp>>
  /\ temp[r] = NoFile => failing'[r]
  /\ UNCHANGED <<place, path, held, stuck, restored>>

(* Mutant: the temporary file is removed only after a dump that succeeds.  *)
CleanOnSuccess(r) ==
  /\ stage[r] = "clean" /\ Goto(r, "end")
  /\ temp' = IF failing[r] THEN temp ELSE [temp EXCEPT ![r] = NoFile]
  /\ UNCHANGED <<place, path, failing, held, stuck, restored, files>>

(* The finally clause of dump_database.                                    *)
Clean(r) ==
  /\ stage[r] = "clean" /\ Goto(r, "end")
  /\ \/ temp' = [temp EXCEPT ![r] = NoFile] /\ UNCHANGED stuck
     \/ /\ temp[r] # NoFile /\ UNCHANGED temp
        /\ stuck' = [stuck EXCEPT ![r] = @ \cup {"temp"}]
  /\ UNCHANGED <<place, path, failing, held, restored, files>>

End(r) ==
  /\ stage[r] = "end"
  /\ Goto(r, IF failing[r] THEN "failed" ELSE "done")
  /\ UNCHANGED <<place, path, failing, temp, held, stuck, restored, files>>

-----------------------------------------------------------------------------
(* restore_database up to _validate_archive.                               *)
BeginRestore(r, p, where) ==
  /\ Begin(r, p, where)
  /\ Failing(r, files[p] = NoFile)
  /\ Goto(r, IF files[p] = NoFile THEN "end" ELSE "read")
  /\ UNCHANGED <<temp, held, stuck, restored, files>>

(* What the client is to read: the file, or a copy made of it now.         *)
Reads(r) == IF place[r] = "mapped" THEN "remove_remote" ELSE "end"
Input(r) == files[path[r]]

(* A native client that cannot be started or fails before it reads.        *)
ReadFails(r) ==
  /\ stage[r] = "read"
  /\ Failing(r, TRUE)
  /\ Hold(r, IF place[r] = "mapped" THEN {"remote"} ELSE {})
  /\ Goto(r, Reads(r))
  /\ UNCHANGED <<place, path, temp, stuck, restored, files>>

(* pg_restore --list accepts what has a table of contents.                 *)
List(r) ==
  /\ stage[r] = "read" /\ ~listed[r]
  /\ listed' = [listed EXCEPT ![r] = Input(r).state # "damaged"]
  /\ Failing(r, Input(r).state = "damaged")
  /\ Hold(r, IF place[r] = "mapped" THEN {"remote"} ELSE {})
  /\ Goto(r, IF place[r] = "mapped" THEN "remove_remote"
             ELSE IF Input(r).state = "damaged" THEN "end" ELSE "read")
  /\ UNCHANGED <<place, path, temp, stuck, fed, target, files>>

(* Mutant: pg_restore goes on after an error and reports success.          *)
RestoreGoingOn(r) ==
  /\ stage[r] = "read" /\ listed[r]
  /\ fed' = [fed EXCEPT ![r] = Input(r)]
  /\ target' = [target EXCEPT ![r] = IF Input(r).state = "whole" THEN "all" ELSE "part"]
  /\ Hold(r, IF place[r] = "mapped" THEN {"remote"} ELSE {})
  /\ Goto(r, Reads(r))
  /\ UNCHANGED <<place, path, failing, temp, stuck, listed, files>>

(* pg_restore --exit-on-error into the database.  Its password file lives  *)
(* as long as it does.                                                     *)
Restore(r) ==
  /\ stage[r] = "read" /\ listed[r]
  /\ fed' = [fed EXCEPT ![r] = Input(r)]
  /\ target' \in {[target EXCEPT ![r] = much] : much \in
       CASE Input(r).state = "whole" -> {"part", "all"}
         [] Input(r).state = "cut" -> {"part"}
         [] Input(r).state = "damaged" -> {"before"}}
  /\ Failing(r, target'[r] # "all")
  /\ IF place[r] = "mapped" THEN Hold(r, {"remote"}) /\ UNCHANGED stuck
     ELSE IF place[r] = "image" THEN UNCHANGED <<held, stuck>>
     ELSE \/ UNCHANGED <<held, stuck>>
          \/ Hold(r, {"pgpass"}) /\ stuck' = [stuck EXCEPT ![r] = @ \cup {"pgpass"}]
  /\ Goto(r, Reads(r))
  /\ UNCHANGED <<place, path, temp, listed, files>>

(* The user's own file is replaced; only while it is being restored does   *)
(* that matter.                                                            *)
ReplaceUsersFile ==
  /\ \E r \in Restores : stage[r] = "read" /\ path[r] = UsersFile
  /\ \E s \in States : files' = [files EXCEPT ![UsersFile].state = s]
  /\ UNCHANGED <<stage, place, path, failing, temp, held, stuck, restored>>

(* The process is killed; nothing is cleaned.                              *)
Kill(r) ==
  /\ stage[r] \notin {"idle", "done", "failed", "killed"}
  /\ Goto(r, "killed")
  /\ UNCHANGED <<place, path, failing, temp, held, stuck, restored, files>>

Next ==
  \/ \E r \in Dumps :
       \/ \E p \in Name, where \in Places : BeginDump(r, p, where)
       \/ ClientEnds(r) \/ ClientFails(r) \/ Copy(r) \/ Publish(r) \/ Clean(r)
  \/ \E r \in Restores :
       \/ \E p \in Name \cup {UsersFile}, where \in Places : BeginRestore(r, p, where)
       \/ ReadFails(r) \/ List(r) \/ Restore(r)
  \/ \E r \in Runs : RemoveRemote(r) \/ End(r) \/ Kill(r)
  \/ ReplaceUsersFile

Spec == Init /\ [][Next]_vars

-----------------------------------------------------------------------------
(* The variables have their types.  Only a client on this machine gets a   *)
(* password file, only one in a container a copy to be removed.            *)
TypeOK ==
  /\ stage \in [Runs -> {"idle", "client", "copy", "remove_remote", "publish", "clean", "read",
                         "end", "done", "failed", "killed"}]
  /\ place \in [Runs -> Places]
  /\ path \in [Runs -> Name \cup {UsersFile}]
  /\ failing \in [Runs -> BOOLEAN]
  /\ temp \in [Dumps -> File \cup {NoFile}]
  /\ held \in [Runs -> SUBSET {"remote", "pgpass"}]
  /\ stuck \in [Runs -> SUBSET {"remote", "pgpass", "temp"}]
  /\ \A r \in Runs : /\ "pgpass" \in held[r] => place[r] = "local"
                     /\ "remote" \in held[r] => place[r] = "mapped"
  /\ fed \in [Restores -> File \cup {NoFile}]
  /\ target \in [Restores -> {"before", "part", "all"}]
  /\ listed \in [Restores -> BOOLEAN]
  /\ files \in [Name \cup {UsersFile} -> File \cup {NoFile}]

(* Under every output name lies nothing or one whole archive, whatever     *)
(* dumps run, fail or are killed.                                          *)
IsWholeArchive(f) == f # NoFile /\ f.state = "whole"
Artifacts == INSTANCE AtomicArtifacts
  WITH Name <- Name, IsWhole <- IsWholeArchive, Nothing <- NoFile,
       visible <- [n \in Name |-> files[n]]
ImplementsAtomicArtifacts == Artifacts!Spec

(* A dump that reports success has published: its archive is there, or the *)
(* one of a dump to the same name.  The default name is not reserved, so   *)
(* the other may have taken it after this one had reported.  A dump that   *)
(* reports a failure has left every name as it was.                        *)
DumpReportIsTrue ==
  \A r \in Dumps :
    /\ stage[r] = "done" =>
         files[path[r]] # NoFile /\ path[files[path[r]].by] = path[r]
    /\ stage[r] = "failed" => \A n \in Name : files[n] # NoFile => files[n].by # r

(* A run that ends by itself leaves no temporary file, password file or    *)
(* copy in a container, except those whose removal failed.                 *)
NoResidue ==
  \A r \in Runs : stage[r] \in {"done", "failed"} =>
    /\ held[r] \subseteq stuck[r]
    /\ r \in Dumps => temp[r] = NoFile \/ "temp" \in stuck[r]

(* A restore that reports success has put one whole archive into the       *)
(* database.  It never reads part of one from a name that dumps publish    *)
(* under, although it opens the file twice while they do; and what is no   *)
(* archive never reaches the database.                                     *)
RestoreReportIsTrue ==
  \A r \in Restores :
    /\ stage[r] = "done" => target[r] = "all" /\ fed[r].state = "whole"
    /\ path[r] \in Name /\ fed[r] # NoFile => fed[r].state = "whole"
    /\ target[r] # "before" => fed[r].state # "damaged"

(* What the stages know.  Of a dump: when it has failed, whose and how     *)
(* whole its temporary file is, and what of its own is still to be         *)
(* removed; having published it finds a file under its name.  Of a         *)
(* restore: that its input is there to be read, and what it has read of it *)
(* to no error.  Of a name: that its file is whole, and from a dump to it  *)
(* that has got beyond its rename without an error.                        *)
RunKnows(r) ==
  /\ stage[r] \in {"idle", "client", "copy", "read", "publish"} => ~failing[r]
  /\ stage[r] = "idle" => held[r] = {}
  /\ stage[r] = "done" => ~failing[r]
  /\ stage[r] = "failed" => failing[r]
  /\ stage[r] \in {"copy", "remove_remote"} => place[r] = "mapped"
  /\ stage[r] \notin {"client", "copy", "remove_remote", "killed"} => held[r] \subseteq stuck[r]

DumpKnows(r) ==
  /\ stage[r] # "read"
  /\ stage[r] # "idle" => path[r] \in Name
  /\ stage[r] = "idle" => temp[r] = NoFile
  /\ temp[r] # NoFile => temp[r].by = r
  /\ stage[r] = "remove_remote" /\ ~failing[r] => temp[r] # NoFile /\ temp[r].state = "whole"
  /\ stage[r] = "publish" => temp[r] = NoFile \/ temp[r].state = "whole"
  /\ stage[r] \in {"end", "done", "failed"} => temp[r] = NoFile \/ "temp" \in stuck[r]
  /\ stage[r] \in {"clean", "end", "done"} /\ ~failing[r] => files[path[r]] # NoFile

RestoreKnows(r) ==
  /\ stage[r] \notin {"client", "copy", "publish", "clean"}
  /\ stage[r] = "idle" => fed[r] = NoFile /\ target[r] = "before" /\ ~listed[r]
  /\ stage[r] = "read" => fed[r] = NoFile /\ target[r] = "before" /\ files[path[r]] # NoFile
  /\ stage[r] = "remove_remote" =>
       /\ files[path[r]] # NoFile
       /\ ~failing[r] => \/ target[r] = "before" /\ fed[r] = NoFile /\ listed[r]
                         \/ target[r] = "all"
  /\ stage[r] \in {"end", "done"} /\ ~failing[r] => target[r] = "all"
  /\ target[r] = "all" => fed[r].state = "whole"
  /\ target[r] # "before" => fed[r].state # "damaged"
  /\ path[r] \in Name /\ fed[r] # NoFile => fed[r].state = "whole"

NameKnows(n) ==
  files[n] # NoFile =>
    LET d == files[n].by
    IN  /\ d \in Dumps /\ files[n].state = "whole"
        /\ path[d] = n /\ ~failing[d]
        /\ stage[d] \in {"clean", "end", "done", "killed"}

ArchiveInvariant ==
  /\ TypeOK
  /\ \A r \in Runs : RunKnows(r)
  /\ \A r \in Dumps : DumpKnows(r)
  /\ \A r \in Restores : RestoreKnows(r)
  /\ \A n \in Name : NameKnows(n)
  /\ files[UsersFile] # NoFile

(* What either command tells its user is true: both of the above, in       *)
(* states that are well formed.                                            *)
ReportsAreTrue == TypeOK /\ DumpReportIsTrue /\ RestoreReportIsTrue
=============================================================================
