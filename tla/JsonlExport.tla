---------------------------- MODULE JsonlExport ----------------------------
(***************************************************************************)
(* export_sqlalchemy of dbtalk/database/sqlalchemy_transfer.py with        *)
(* open_document_writer and JsonlStreamWriter of dbtalk/database/format.py: *)
(* a run of the command reads one table after the other and writes them to *)
(* a temporary file beside its output, which it renames at the end.        *)
(*                                                                         *)
(* The temporary name is the output's name plus ".tmp": runs to the same   *)
(* output share it, so names and files are kept apart here.  A file is     *)
(* identified by the run that created it; opening a name that exists       *)
(* truncates the file it leads to, and whoever has that file open goes on  *)
(* writing at his own position.  A record counts as written when it        *)
(* reaches the file; a buffer in between only delays that.                 *)
(*                                                                         *)
(* Nothing keeps two runs to one output from overlapping.  Two auxiliary   *)
(* variables, read by no step, note which runs have had the writer open    *)
(* at one time and which outputs show what such a run has published.       *)
(*                                                                         *)
(* Around the runs: other sessions commit changes to the source, every     *)
(* call may fail, and a run may be interrupted or killed at any moment.    *)
(***************************************************************************)
EXTENDS Naturals, Sequences

CONSTANTS
  Run,        \* runs of the command, those after a failure included
  Output,     \* output paths, each with its own temporary name
  Tables,     \* number of selected tables
  Snapshot,   \* the runs whose source is MySQL, which read one consistent snapshot
  NoFile,     \* a name that leads to no file
  MaxCommits  \* bound on the changes of the source

ASSUME BoundsAssumption == Tables \in Nat /\ MaxCommits \in Nat
ASSUME SnapshotAssumption == Snapshot \subseteq Run
ASSUME NoFileAssumption == NoFile \notin Run /\ NoFile \notin Output

VARIABLES
  source,    \* number of changes committed to the source
  stage,     \* where each run is
  output,    \* its output path
  file,      \* the file it has open for writing
  written,   \* records it has written
  view,      \* the state of the source that its current result shows
  temporary, \* the file under each temporary name
  published, \* the file under each output name
  data,      \* the records in each file
  overlapped, \* auxiliary: runs that wrote while another run to their output did
  disturbed   \* auxiliary: outputs whose file one of these has published

ghosts == <<overlapped, disturbed>>
vars == <<source, stage, output, file, written, view, temporary, published, data, ghosts>>

Version == 0 .. MaxCommits
Active == {"prepared", "writing", "published"}
Ended == {"done", "failed", "leaked", "killed"}

(* A document is a header and, for every table, its rows behind a table    *)
(* record, and an end record.  A gap is what a writer leaves behind that   *)
(* writes past the end of a file somebody else has truncated.              *)
DocumentLength == 1 + 2 * Tables
OpensBlock(i) == i % 2 = 0
Record == [by : Run, shows : Version]
Gap == [by |-> NoFile, shows |-> 0]
Padded(d, n) == [i \in 1 .. n |-> IF i <= Len(d) THEN d[i] ELSE Gap]
WrittenAt(d, i, r) == [Padded(d, IF i > Len(d) THEN i ELSE Len(d)) EXCEPT ![i] = r]

Init ==
  /\ source = 0
  /\ stage = [r \in Run |-> "idle"]
  /\ output = [r \in Run |-> NoFile]
  /\ file = [r \in Run |-> NoFile]
  /\ written = [r \in Run |-> 0]
  /\ view = [r \in Run |-> 0]
  /\ temporary = [o \in Output |-> NoFile]
  /\ published = [o \in Output |-> NoFile]
  /\ data = [f \in Run |-> <<>>]
  /\ overlapped = {}
  /\ disturbed = {}

-----------------------------------------------------------------------------
(* One run.                                                                *)

(* Connect, _prepare_connection and the choice of the tables.  On MySQL    *)
(* the snapshot is taken here.                                             *)
Start(r, o) ==
  /\ stage[r] = "idle"
  /\ stage' = [stage EXCEPT ![r] = "prepared"]
  /\ output' = [output EXCEPT ![r] = o]
  /\ view' = [view EXCEPT ![r] = source]
  /\ UNCHANGED <<source, file, written, temporary, published, data, ghosts>>

(* Others that have the writer open for the output of a run that opens it. *)
WritingBeside(r) == {q \in Run \ {r} : stage[q] = "writing" /\ output[q] = output[r]}
Meeting(r) == IF WritingBeside(r) = {} THEN {} ELSE {r} \cup WritingBeside(r)

(* Mutant: go on behind what lies under the temporary name.                *)
OpenToResume(r) ==
  LET f == IF temporary[output[r]] = NoFile THEN r ELSE temporary[output[r]]
  IN /\ stage[r] = "prepared"
     /\ stage' = [stage EXCEPT ![r] = "writing"]
     /\ file' = [file EXCEPT ![r] = f]
     /\ temporary' = [temporary EXCEPT ![output[r]] = f]
     /\ written' = [written EXCEPT ![r] = Len(data[f])]
     /\ overlapped' = overlapped \cup Meeting(r)
     /\ UNCHANGED <<source, output, view, published, data, disturbed>>

(* open(temporary, "w"): an existing file is truncated.                    *)
Open(r) ==
  LET f == IF temporary[output[r]] = NoFile THEN r ELSE temporary[output[r]]
  IN /\ stage[r] = "prepared"
     /\ stage' = [stage EXCEPT ![r] = "writing"]
     /\ file' = [file EXCEPT ![r] = f]
     /\ temporary' = [temporary EXCEPT ![output[r]] = f]
     /\ data' = [data EXCEPT ![f] = <<>>]
     /\ overlapped' = overlapped \cup Meeting(r)
     /\ UNCHANGED <<source, output, written, view, published, disturbed>>

(* The next record reaches the file.  A table record comes after the       *)
(* SELECT of its table, which shows the snapshot or, without one, the      *)
(* source as it is then.                                                   *)
ViewFor(r) == IF OpensBlock(written[r] + 1) /\ r \notin Snapshot THEN source ELSE view[r]

Write(r) ==
  /\ stage[r] = "writing" /\ written[r] < DocumentLength
  /\ view' = [view EXCEPT ![r] = ViewFor(r)]
  /\ written' = [written EXCEPT ![r] = @ + 1]
  /\ data' = [data EXCEPT ![file[r]] =
                WrittenAt(@, written[r] + 1, [by |-> r, shows |-> ViewFor(r)])]
  /\ UNCHANGED <<source, stage, output, file, temporary, published, ghosts>>

(* What an overlapped run publishes may be anybody's records; the next     *)
(* file of a run that wrote alone takes its place.                         *)
DisturbedBy(r) ==
  IF r \in overlapped THEN disturbed \cup {output[r]} ELSE disturbed \ {output[r]}

(* Mutant: the rename comes before the last records are flushed.           *)
PublishUnflushed(r) ==
  /\ stage[r] = "writing" /\ written[r] + 1 = DocumentLength
  /\ temporary[output[r]] # NoFile
  /\ published' = [published EXCEPT ![output[r]] = temporary[output[r]]]
  /\ temporary' = [temporary EXCEPT ![output[r]] = NoFile]
  /\ stage' = [stage EXCEPT ![r] = "published"]
  /\ disturbed' = DisturbedBy(r)
  /\ UNCHANGED <<source, output, file, written, view, data, overlapped>>

(* The streams are closed and temporary.replace(output) renames whatever   *)
(* file the temporary name leads to.                                       *)
Publish(r) ==
  LET o == output[r]
  IN /\ stage[r] = "writing" /\ written[r] = DocumentLength
     /\ temporary[o] # NoFile
     /\ published' = [published EXCEPT ![o] = temporary[o]]
     /\ temporary' = [temporary EXCEPT ![o] = NoFile]
     /\ stage' = [stage EXCEPT ![r] = "published"]
     /\ disturbed' = DisturbedBy(r)
     /\ UNCHANGED <<source, output, file, written, view, data, overlapped>>

(* An error while the writer is open, also of open or replace themselves:  *)
(* the handler unlinks the temporary name, whoever's file it leads to.  An *)
(* OSError of the unlink is suppressed and leaves the name.                *)
Abort(r) ==
  /\ stage[r] \in {"prepared", "writing"}
  /\ \/ /\ temporary' = [temporary EXCEPT ![output[r]] = NoFile]
        /\ stage' = [stage EXCEPT ![r] = "failed"]
     \/ /\ temporary[output[r]] # NoFile
        /\ stage' = [stage EXCEPT ![r] = "leaked"]
        /\ UNCHANGED temporary
  /\ UNCHANGED <<source, output, file, written, view, published, data, ghosts>>

(* An error of the source before the writer is open, or of the rollback    *)
(* after the file is published, touches no file; the run reports failure.  *)
FailOutsideWriter(r) ==
  /\ stage[r] \in {"prepared", "published"}
  /\ stage' = [stage EXCEPT ![r] = "failed"]
  /\ UNCHANGED <<source, output, file, written, view, temporary, published, data, ghosts>>

Finish(r) ==
  /\ stage[r] = "published"
  /\ stage' = [stage EXCEPT ![r] = "done"]
  /\ UNCHANGED <<source, output, file, written, view, temporary, published, data, ghosts>>

(* KeyboardInterrupt is not an Exception: like a kill it leaves all files  *)
(* as they are.                                                            *)
Kill(r) ==
  /\ stage[r] \in Active
  /\ stage' = [stage EXCEPT ![r] = "killed"]
  /\ UNCHANGED <<source, output, file, written, view, temporary, published, data, ghosts>>

(* Another session commits to the source.                                  *)
Commit ==
  /\ source < MaxCommits
  /\ source' = source + 1
  /\ UNCHANGED <<stage, output, file, written, view, temporary, published, data, ghosts>>

Next ==
  \/ Commit
  \/ \E r \in Run :
       \/ \E o \in Output : Start(r, o)
       \/ Open(r) \/ Write(r) \/ Publish(r) \/ Finish(r)
       \/ Abort(r) \/ FailOutsideWriter(r) \/ Kill(r)

Spec == Init /\ [][Next]_vars

-----------------------------------------------------------------------------
(* Properties.                                                             *)

(* Types of the variables; a file is never longer than a document.         *)
TypeOK ==
  /\ source \in Version
  /\ stage \in [Run -> {"idle"} \cup Active \cup Ended]
  /\ output \in [Run -> Output \cup {NoFile}]
  /\ file \in [Run -> Run \cup {NoFile}]
  /\ written \in [Run -> 0 .. DocumentLength]
  /\ view \in [Run -> Version]
  /\ temporary \in [Output -> Run \cup {NoFile}]
  /\ published \in [Output -> Run \cup {NoFile}]
  /\ data \in [Run -> Seq(Record \cup {Gap})]
  /\ \A f \in Run : Len(data[f]) <= DocumentLength
  /\ overlapped \subseteq Run /\ disturbed \subseteq Output

(* The documents a run may write: one author, every table's records from   *)
(* one state of the source, the tables in the order they were read, and    *)
(* all of them from the same state where its author has a snapshot.        *)
IsWholeDocument(d) ==
  /\ d \in [1 .. DocumentLength -> Record]
  /\ \A i, j \in 1 .. DocumentLength : d[i].by = d[j].by
  /\ \A i, j \in 1 .. DocumentLength : i <= j => d[i].shows <= d[j].shows
  /\ \A i \in 1 .. DocumentLength : OpensBlock(i) => d[i].shows = d[i + 1].shows
  /\ \A i, j \in 1 .. DocumentLength : d[i].by \in Snapshot => d[i].shows = d[j].shows

Visible(o) == IF published[o] = NoFile THEN NoFile ELSE data[published[o]]

(* A reader of an output finds no file or one whole document at every      *)
(* moment, whatever fails, is killed or overlapped before, unless the file *)
(* is one that a run published whose writer was open beside another's (the *)
(* temporary file and its rename): that damage ends with the next export   *)
(* that writes alone.                                                      *)
OutputsAreWhole ==
  \A o \in Output \ disturbed : published[o] # NoFile => IsWholeDocument(Visible(o))

(* The same as a refinement, which adds that a published document never    *)
(* changes where it lies and that outputs change one at a time.  Damaged   *)
(* stands for whatever lies under an output that is disturbed.             *)
Damaged == <<Gap>>
IsArtifact(d) == d = Damaged \/ IsWholeDocument(d)
Artifacts == INSTANCE AtomicArtifacts
  WITH Name <- Output, IsWhole <- IsArtifact, Nothing <- NoFile,
       visible <- [o \in Output |-> IF o \in disturbed THEN Damaged ELSE Visible(o)]
ImplementsAtomicArtifacts == Artifacts!Spec

(* The run that renames publishes its own document, not one that another   *)
(* run left or put under the temporary name, if no other run had the       *)
(* writer open while it had.                                               *)
PublishesItsOwn ==
  [][\A r \in Run \ overlapped : stage[r] = "writing" /\ stage'[r] = "published" =>
       \A i \in 1 .. DocumentLength : data'[published'[output[r]]][i].by = r]_vars
=============================================================================
